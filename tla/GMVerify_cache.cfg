SPECIFICATION FairSpec
CONSTANTS
  Requests = {r1, r2}
  Calls <- MCCalls
  Genuine <- MCGenuine
  Timeout = 1
  Capacity = 1
  TTLs = {0, 1}
  MaxTime = 3
CHECK_DEADLOCK FALSE
INVARIANT TypeOK
PROPERTIES CountedWasAccepted FailureIsOwn Answered
