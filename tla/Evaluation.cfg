SPECIFICATION FairSpec
CONSTANTS
  Attributes <- MCAttributes
  IntMax = 4
  Identifiers <- MCIdentifiers
  ListenerChoices = {FALSE}
  MaxEvaluations = 1
  Functions <- MCFunctions
  MacroAccuVars <- MCMacroAccuVars
  BlockIndexes <- MCBlockIndexes
  Cases <- EvaluationCases
  Programs <- PlannedPrograms
  Certificates <- InferredCertificates
  Activations <- AllActivations
INVARIANTS
  TypeOK
  OutcomeIsDenotation
  PlanIsCertified
  StackInv
  LookedUpAtMostOnce
  LazySlotIsOwn
PROPERTIES
  EvaluationTerminates
