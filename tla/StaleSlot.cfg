SPECIFICATION Spec
CONSTANTS
  Attributes <- MCAttributes
  IntMax = 4
  Identifiers <- MCIdentifiers
  ListenerChoices = {FALSE}
  MaxEvaluations = 1
  Functions <- MCFunctions
  MacroAccuVars <- MCMacroAccuVars
  BlockIndexes <- MCBlockIndexes
  Cases <- StaleSlotCases
  Programs <- PlannedPrograms
  Certificates <- InferredCertificates
  Activations <- TwoActivations
INVARIANTS
  LazySlotIsOwn
