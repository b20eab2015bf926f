\* Two threads, two variables bound to values or to providers, which look up either.
SPECIFICATION FairSpec
CONSTANTS
    Threads = {"t1", "t2"}
    NoOne = "no one"
    Names = {"x", "y"}
    Lazies = {"x", "y"}
    Needs <- AnyNeeds
    Vals = {"p", "q"}
    NoValue = "none"
    MaxAssigns = 3
    MaxLookups = 2
INVARIANTS
    NoRace
    DeadlockOnlyByReentry
PROPERTIES
    IsActivation
    LookupReturns
