\* One request meets one operator who disables the account it uses.
CONSTANTS
  AccountId = {1, 2}
  CooldownBase = 1
  CooldownCap = 3
  Request = {r1}
  Provider <- PairProvider
  Used <- MCUsed
  NoRow = NoRow
  Bodies = {"complete"}
  Priorities = {}
  GroupChoices = {}
  InitialAccounts <- PairAccounts
  InitialGroups <- PairGroups
  MaxTime = 0
  MaxEdits = 1
SPECIFICATION Spec
PROPERTY SwitchIsOperators
