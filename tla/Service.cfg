SPECIFICATION FairLaunchSpec

CONSTANTS
    MayFail = {"config", "display", "signals", "compositor", "backend", "desktop",
               "socket", "global", "client", "notifier", "systemd sockets", "timer"}
    IntMax = 9999
    HandlerTime = 2
    Usecs <- MCUsecs

INVARIANTS
    TypeOK
    NothingOutlives
    EndsClean
    EndAnnounced
    PingsInTime
    EndsAreOwned
PROPERTIES
    StopsWhenTold
    LossNoticed

CHECK_DEADLOCK FALSE
