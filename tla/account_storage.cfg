\* The terminal UI and a handler of the Web Admin over one connection, one
\* credential store and the runtime directories.
CONSTANTS
  codex1 = codex1
  zai1 = zai1
  tui = tui
  admin = admin
  AccountId = {codex1, zai1, "router-local"}
  Codex = {codex1}
  Ref = {codex1, zai1, "router-local"}
  Thread = {tui, admin}
  Main = tui
  Nobody = Nobody
  MaxRows = 2
  Setups <- AllSetups
SPECIFICATION FairSpec
INVARIANTS TypeOK SavesAreWhole QuotaFiled NothingLeftBehind SecretsCurrent LogBounded
PROPERTIES ConnectionFreed ProfilesKept ExitKeepsWrites
CHECK_DEADLOCK FALSE
