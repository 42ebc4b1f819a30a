SPECIFICATION Spec

CONSTANTS
    bg = bg
    panel = panel
    app1 = app1
    app2 = app2
    shell = shell
    client = client
    o1 = o1
    o2 = o2
    a1 = a1
    a2 = a2
    NULL = NULL
    Surfaces = {bg, panel, app1}
    Clients = {shell, client}
    Outputs = {o1}
    AppIds = {a1}
    Edges = {"top", "left"}
    Quirk = FALSE
    Mortal = {shell, client}
    Closable = {bg, panel, app1}
    OutOfMemory = TRUE
    Owner <- MCOwner
    AppOf <- MCAppOf
    Width <- MCWidth
    Height <- MCHeight
    FreeSizes <- MCFreeSizes

INVARIANTS
    TypeOK
    BlackUntilReady
    SlotsAgree
    ListsMatchRoles
    LiveHaveStructs
    MappedIffInLayer
    NoOrphanOnScreen
    HiddenOnlyWhilePending
PROPERTIES
    ImplementsPresentation

CHECK_DEADLOCK FALSE
