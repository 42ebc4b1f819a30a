SPECIFICATION Spec

CONSTANTS
    NULL = NULL
    Words <- MCWordsAndZeros
    Names <- MCNames
    Inputs <- MCInputs
    ConnectedHeads <- MCConnectedHeads
    MaxNesting = 1
    AddLength = 2

INVARIANTS
    BooleansAreHandled

CHECK_DEADLOCK FALSE
