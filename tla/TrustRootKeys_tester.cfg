\* The tester against the reconciler, on the TrustRoots of MCTrustRootKeys.
SPECIFICATION KeysSpec
CONSTANTS
  Null = Null
  Leaves <- MCLeaves
  Inters <- MCInters
  Roots <- MCRoots
  Specs <- MCSpecs
  Contents <- MCContents
INVARIANTS TesterAgrees
CHECK_DEADLOCK FALSE
