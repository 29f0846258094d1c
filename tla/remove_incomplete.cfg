\* A quota refresh of an account overlaps its removal, and nothing fails.
CONSTANTS
  codex1 = codex1
  zai1 = zai1
  tui = tui
  admin = admin
  AccountId = {codex1, zai1}
  Codex = {codex1}
  Ref = {codex1, zai1, "router-local"}
  Thread = {tui, admin}
  Main = tui
  Nobody = Nobody
  MaxRows = 2
  Setups <- RemovalSetups
SPECIFICATION Spec
INVARIANT RemoveIsComplete
CHECK_DEADLOCK FALSE
