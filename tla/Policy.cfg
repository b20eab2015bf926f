SPECIFICATION Spec
CHECK_DEADLOCK FALSE
CONSTANTS
  Rules <- MCRules
  Contexts <- MCContexts
  EnvTypes <- MCEnvTypes
  HeightLimits = {0, 1, 2, 3}
INVARIANTS
  ComposedMeansPolicy
  CompositionSucceeds
  UnreachableIsReported
  BindingsAreOrdered
  ResultTypeFits
