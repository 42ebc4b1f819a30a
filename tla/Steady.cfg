SPECIFICATION Spec

CONSTANTS
    bg = bg
    panel = panel
    app1 = app1
    app2 = app2
    shell = shell
    client = client
    o1 = o1
    o2 = o2
    a1 = a1
    a2 = a2
    NULL = NULL
    Surfaces = {bg, panel, app1, app2}
    Clients = {shell, client}
    Outputs = {o1}
    AppIds = {a1, a2}
    Edges = {"top", "bottom", "left", "right"}
    Quirk = FALSE
    Mortal = {}
    Closable = {}
    OutOfMemory = FALSE
    Owner <- MCOwner
    AppOf <- MCAppOf
    Width <- MCWidth
    Height <- MCHeight
    FreeSizes <- MCFreeSizes

INVARIANTS
    ActiveIsShown
    ActiveFillsArea
    DelayedNotLost
PROPERTIES
    ReadyReservesPanels

CHECK_DEADLOCK FALSE
