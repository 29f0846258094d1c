\* One session of any kind and a command that inherits its pipe ends, or one that
\* reads limits beside one of any kind.  Sessions end, and nothing starts them
\* again.
CONSTANTS
  s1 = s1
  s2 = s2
  Session = {s1, s2}
  Router = Router
  Tool = Tool
  Capacity = 1
  Workloads <- SomeWorkloads
  PromptSize = 3
  MaxDeltas = 3
SPECIFICATION FairSpec
INVARIANTS TypeOK TextIsWhole NothingLeft ClosedIsDead
PROPERTY SessionEnds
CHECK_DEADLOCK FALSE
