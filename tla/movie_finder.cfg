SPECIFICATION Spec
CONSTANTS
  Canonical <- MCCanonical
  BlockedSubs <- MCBlockedSubs
  CuedNames <- MCCuedNames
  CuedTerms <- MCCuedTerms
  Site <- MCSite
  Inputs <- MCInputs
  Workers = 1
  Failures = 2
INVARIANTS NoMovieTwice FullReport CrawlIsBounded
PROPERTY RunEnds
CHECK_DEADLOCK FALSE
