SPECIFICATION FairSpec
CONSTANTS
  None = None
  DataPath = DataPath
  Names = {a}
  Keys = {a}
  Vals = {v, w}
  Bads = {"badKeys", "badLog"}
  Remote = Remote
  Threads = 1
  MaxLag = 2
  MaxEnv = 2
  EnvOps = {"create", "edit", "delete", "remote", "deletecm", "restart", "fault"}
CHECK_DEADLOCK FALSE
INVARIANTS TypeOK
PROPERTIES EntryKept NoResurrection Converges
