\* The terminal UI and a handler of the Web Admin, two accounts, a custom group.
CONSTANTS
  z1 = z1
  g1 = g1
  tui = tui
  admin = admin
  AccountId = {z1, g1}
  Provider <- SomeProvider
  Number <- SomeNumber
  CustomId = {"team"}
  Thread = {tui, admin}
  Terminal = {tui}
  OfferedStrategies = {"MANUAL", "HEALTH_FIRST"}
  InitialAccounts <- SomeAccounts
  NoOne = NoOne
  NoGroup = NoGroup
  MaxOps <- OpsOf
SPECIFICATION Spec
INVARIANTS TypeOK ManualIsMember ReferencesExist AutomaticIsCapable
PROPERTIES SyncHeals SyncKeepsChoices RepairHeals
CHECK_DEADLOCK FALSE
