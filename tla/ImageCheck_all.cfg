SPECIFICATION Spec
CONSTANTS
  Policies = {p}
  Authorities = {x, y}
  Internal = Internal
CHECK_DEADLOCK FALSE
INVARIANTS AllSatisfied
