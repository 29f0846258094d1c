\* A rotation, a race for the cursor, and every strategy with the screens that
\* preview what it will select.
CONSTANTS
  AccountId = {1, 2, 3, 4}
  CooldownBase = 1
  CooldownCap = 3
  Caller = {"t1", "t2"}
  Setups <- AllSetups
SPECIFICATION FairSpec
INVARIANTS OneDecision RotationFair
PROPERTIES HealthForetells NoStarvation
