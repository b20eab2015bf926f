SPECIFICATION Spec
CONSTANTS
    Parser <- MCParser
    Grammar <- MCGrammar
    Bases <- OneBase
    Productions = {"neg", "paren", "select", "add", "not"}
    MaxGrow = 3
    Slips = {}
    MaxSlipGrow = 0
    OptionSets <- OneOptionSet
INVARIANTS
    EveryPrintedParsesBack
CHECK_DEADLOCK FALSE
