SPECIFICATION Spec
CONSTANTS
    Parser <- MCParser
    Grammar <- MCGrammar
    Bases <- MCBases
    Productions <- MCProductions
    MaxGrow = 3
    Slips <- MCSlips
    MaxSlipGrow = 1
    OptionSets <- MCOptionSets
INVARIANTS
    ParsersAgree
    TreeIsWhole
    PrintedParsesBack
CHECK_DEADLOCK FALSE
