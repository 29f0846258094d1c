\* An account is removed in the Web Admin while the terminal UI rebuilds or
\* edits groups it has read before.
CONSTANTS
  z1 = z1
  g1 = g1
  tui = tui
  admin = admin
  AccountId = {z1, g1}
  Provider <- SomeProvider
  Number <- SomeNumber
  CustomId = {"team"}
  Thread = {tui, admin}
  Terminal = {tui}
  OfferedStrategies = {"MANUAL", "HEALTH_FIRST"}
  InitialAccounts <- SomeAccounts
  NoOne = NoOne
  NoGroup = NoGroup
  MaxOps <- OpsOf
SPECIFICATION Spec
INVARIANT NoGhosts
CHECK_DEADLOCK FALSE
