SPECIFICATION FairSpec
CONSTANTS
  None = None
  DataPath = DataPath
  Names = {a}
  Keys = {a, example}
  Vals = {v}
  Bads = {}
  Threads = 1
  MaxLag = 2
  MaxEnv = 1
  EnvOps = {"delete"}
CHECK_DEADLOCK FALSE
PROPERTIES NoOrphanEntry
