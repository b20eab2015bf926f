SPECIFICATION Spec
CONSTANTS
  Attributes <- MCAttributes
  IntMax = 4
  Identifiers <- MCIdentifiers
  ListenerChoices = {TRUE, FALSE}
  MaxEvaluations = 2
  Functions <- MCFunctions
  MacroAccuVars <- MCMacroAccuVars
  BlockIndexes <- MCBlockIndexes
  Cases <- ReuseAndBudgetCases
  Programs <- PlannedAndFaultPrograms
  Certificates <- PlannedCertificates
  Activations <- ReuseActivations
INVARIANTS
  OutcomeIsDenotation
  BudgetIsGlobal
  ReuseKeepsDiscipline
PROPERTY
  AbortIsFinal
