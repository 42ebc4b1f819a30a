SPECIFICATION ScreensSpec

CONSTANTS
    h1 = h1
    h2 = h2
    h3 = h3
    h4 = h4
    h5 = h5
    o1 = o1
    o2 = o2
    o3 = o3
    NULL = NULL
    Heads = {h1, h2, h5}
    Outputs = {o1, o3}
    NonDesktop = {}
    AddLength = 3
    MayNotCreate = {o3}
    MayMisconfigure = {}
    MayNotEnable = {o3}
    MayRefuse = {}
    Removable = {h2, h5}
    Controls <- MCControls

INVARIANTS
    BlackUntilReady
    LastingAreSafe

CHECK_DEADLOCK FALSE
