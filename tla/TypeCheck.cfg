SPECIFICATION Spec
CHECK_DEADLOCK FALSE
CONSTANTS
  Attributes <- MCAttributes
  IntMax = 4
  Container <- MCContainer
  Aliases <- MCAliases
  Spelling <- MCSpelling
  Variables <- MCVariables
  TypeNames <- MCTypeNames
  EnumConstants <- MCEnumConstants
  FunctionDecls <- MCFunctionDecls
  Trees <- MCTrees
  Worlds <- MCWorlds
  LegacyNull = TRUE
  MaxNodes = 60
  MaxErrors = 1
  Expected <- MCExpected
INVARIANTS
  SubstitutionsAreAcyclic
  TypesAreDeduced
  FinalTypesFit
  NamesMeanTheSame
  CheckedIsSound
PROPERTIES
  BindingsAreFinal
