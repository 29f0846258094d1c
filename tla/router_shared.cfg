\* Two requests and an operator share a Z.ai and a Gemini account: rows are
\* re-keyed, switched, removed and added, and may join the group, while the
\* requests write theirs back.
CONSTANTS
  AccountId = {1, 2}
  CooldownBase = 1
  CooldownCap = 3
  Request = {r1, r2}
  Provider <- PairProvider
  Used <- MCUsed
  NoRow = NoRow
  Bodies = {"complete"}
  Priorities = {}
  GroupChoices <- JoiningChoices
  InitialAccounts <- PairAccounts
  InitialGroups <- JoiningGroups
  MaxTime = 1
  MaxEdits = 1
SPECIFICATION HSpec
INVARIANTS CooldownBounded FailoverExhaustive SuccessReachesClient ThrowsOnlyAfterRemoval
PROPERTY RemovedStaysRemoved
SYMMETRY Symmetry
