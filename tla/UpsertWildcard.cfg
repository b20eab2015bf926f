SPECIFICATION Spec
CONSTANTS
  Programs <- MCPrograms
  Inputs <- MCInputs
  GivenInputs <- MCGivenInputs
  Patterns <- MCPatterns
  Attributes <- MCAttributes
  Scalars <- MCScalars
  Values <- MCValues
  Places <- MCPlaces
  Heights <- MCHeights
  MaxSetup = 3
PROPERTY
  UpsertIsAdded
CHECK_DEADLOCK FALSE
