SPECIFICATION Spec
CONSTANTS
    FunctionNames = {"f"}
    Kinds = {"any", "int", "string"}
    Descriptors <- SmallDescriptors
    MaxOverloads = 3
    MaxPlannedOverloads = 0
    Planners = {"p1", "p2"}
    NoOne = "no one"
    Enums = {"E", "F"}
    Keys = {"M", "N"}
    KnownKeys = {"M"}
    MaxObjects = 4
    MaxPlans = 2
INVARIANTS
    CallIsUnambiguous
    NonStrictIsAlone
    AmbiguousOnlyByAny
    PointersStayValid
PROPERTY TableIsCurrent
