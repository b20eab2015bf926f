SPECIFICATION FairSpec
CONSTANTS
  Programs <- MCPrograms
  Inputs <- MCInputs
  GivenInputs <- MCGivenInputs
  Patterns <- MCPatterns
  Attributes <- MCAttributes
  Scalars <- MCScalars
  Values <- MCValues
  Places <- MCPlaces
  Heights <- MCHeights
  MaxSetup = 3
INVARIANTS
  TrailMeansPatterns
  KnownIsFinal
PROPERTIES
  IsPatternSet
  ResolvesEventually
CHECK_DEADLOCK FALSE
