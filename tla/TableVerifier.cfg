CONSTANTS
  Catalogs <- MCCatalogs
  Concurrency = 2
SPECIFICATION Spec
INVARIANTS CountsAgree VerdictSound
PROPERTIES VerifierEnds ImplementsVerdict
CHECK_DEADLOCK FALSE
