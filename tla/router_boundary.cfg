\* A group that mixes a codex profile, a coding plan and a Gemini project,
\* while the operator changes its strategy, its members and the accounts.
CONSTANTS
  AccountId = {1, 2, 3}
  CooldownBase = 1
  CooldownCap = 3
  Request = {r1}
  Provider <- MixedProvider
  Used <- MCUsed
  NoRow = NoRow
  Bodies = {"complete", "noModel", "noMessages", "bare", "invalid", "noGroup"}
  Priorities = {50}
  GroupChoices <- MixedChoices
  InitialAccounts <- MixedAccounts
  InitialGroups <- MixedGroups
  MaxTime = 1
  MaxEdits = 2
SPECIFICATION FairSpec
INVARIANTS TypeOK CallsJustified AttemptsDistinct
PROPERTY EveryRequestAnswered
