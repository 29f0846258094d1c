\* The cleanup of the runtime overlaps a login, and nothing fails.
CONSTANTS
  codex1 = codex1
  zai1 = zai1
  tui = tui
  admin = admin
  AccountId = {codex1, zai1}
  Codex = {codex1}
  Ref = {codex1, zai1, "router-local"}
  Thread = {tui, admin}
  Main = tui
  Nobody = Nobody
  MaxRows = 2
  Setups <- CleanupSetups
SPECIFICATION Spec
PROPERTY CleanupSparesActive
CHECK_DEADLOCK FALSE
