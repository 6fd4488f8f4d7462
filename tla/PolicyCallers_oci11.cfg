SPECIFICATION Spec
CONSTANTS
  None = None
  Policies <- MCPolicies
  Evidence <- MCEvidence
  Refs <- MCRefs
  Edits = 1
  Requests = 2
  Documents <- MCDocuments
  Resources <- MCResources
  Regexps <- MCRegexps
INVARIANTS WantedAreVerified
CHECK_DEADLOCK FALSE
