SPECIFICATION FairSpec
CONSTANTS
  Policies = {p, q}
  Authorities = {x, y}
  Internal = Internal
CHECK_DEADLOCK FALSE
INVARIANTS OnlyFailedBlamed Verdict
PROPERTIES Answered
