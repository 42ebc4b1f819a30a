SPECIFICATION Spec

CONSTANTS
    h1 = h1
    h2 = h2
    h3 = h3
    h4 = h4
    h5 = h5
    o1 = o1
    o2 = o2
    o3 = o3
    NULL = NULL
    Heads = {h1, h2, h3, h4, h5}
    Outputs = {o1, o2, o3}
    NonDesktop = {}
    AddLength = 3
    MayNotCreate = {o1, o3}
    MayMisconfigure = {o3}
    MayNotEnable = {o1, o3}
    MayRefuse = {h1, h5}
    Removable = {h2, h4, h5}
    Controls <- MCControls

INVARIANTS
    TypeOK
    EnabledHasHead
    NotHalfAttached
    ConnectedIffEnabled
PROPERTIES
    ShownStaysShown

CHECK_DEADLOCK FALSE
