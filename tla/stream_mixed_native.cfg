SPECIFICATION Spec
CONSTANTS
  NoRow = NoRow
  AccountId = {1, 2, 3, 4, 5, 6}
  CooldownBase = 30
  CooldownCap = 900
  Provider <- MCProvider
  Bodies = {"complete", "noModel", "noMessages"}
  InitialAccounts <- MCAccounts
  InitialGroups <- MCGroups
  GroupChoices <- MCChoices
  MaxDeltas = 2
  MaxEdits = 1
INVARIANT
  OwnAccountsOnly
