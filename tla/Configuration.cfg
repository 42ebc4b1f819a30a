SPECIFICATION Spec

CONSTANTS
    NULL = NULL
    Words <- MCWordsAndZeros
    Names <- MCNames
    Inputs <- MCInputs
    ConnectedHeads <- MCConnectedHeads
    MaxNesting = 1
    AddLength = 2

INVARIANTS
    TypeOK
    CompactsInPlace
    PlainLinesExact
    HeadsFollowSameAs
    NeverConfiguredOff
    ConfiguredAsAsked
    CrashesOnlyOn
PROPERTIES
    Settles

CHECK_DEADLOCK FALSE
