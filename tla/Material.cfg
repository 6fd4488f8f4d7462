\* The constants of the three components: model values for "no value" and for the
\* callers, the sets of MCAuthorityPipeline and MCTrustRootKeys.
SPECIFICATION MaterialSpec
CONSTANTS
  None = None
  Inputs <- MCInputs
  MaxWrites = 2
  Null = Null
  Leaves <- MCLeaves
  Inters <- MCInters
  Roots <- MCRoots
  Specs <- MCSpecs
  Contents <- MCContents
  Callers = {c1, c2, c3}
  Nobody = Nobody
  Period = 1
  MaxTime = 3
  MaxVersion = 3
INVARIANTS
  AdmittedLoads
  StaysAdmissible
  RightVerifier
  ConversionLosesNoMore
  PoolsAreTheSource
  RekorKeysUsable
  SingleTimestampUsable
  NeverOlder
PROPERTIES
  ReadIsFresh
  Answered
\* Each component may come to the end of its way.
CHECK_DEADLOCK FALSE
