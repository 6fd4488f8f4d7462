SPECIFICATION FairSpec
CONSTANTS
  None = None
  Policies <- MCPolicies
  Evidence <- MCEvidence
  Refs <- MCRefs
  Edits = 1
  Requests = 2
  Documents <- MCDocuments
  Resources <- MCResources
  Regexps <- MCRegexps
INVARIANTS
  AuthorityMatches
  ConfigsComplete
  RootIsLoaded
  HitIsRight
  SuccessCovers
PROPERTIES
  Answered
\* The tester has exited, or the bounded number of requests has been answered.
CHECK_DEADLOCK FALSE
