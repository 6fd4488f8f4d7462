SPECIFICATION MCSpec
CONSTANTS
  None = None
  DataPath = DataPath
  a = a
  b = b
  v = v
  Names = {a, b}
  Keys = {a, b, example}
  Vals = {v}
  Bads = {"badKeys", "badPolicies", "badAttestation"}
  Threads = 2
  MaxLag = 3
  MaxEnv = 2
  EnvOps = {"create", "edit", "delete", "source", "deletecm", "resync", "restart", "fault"}
CHECK_DEADLOCK FALSE
INVARIANTS FinalizerHeld Consistent RemovalHolds
PROPERTIES Converges KeepsPromise EntryNeverRegresses
