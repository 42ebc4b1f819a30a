-------------------------- MODULE MCIviCompositor --------------------------
(***************************************************************************)
(* Small instances of IviCompositor for TLC.  The names of the surfaces    *)
(* say what their client means them for; the model lets the shell client   *)
(* use any of its own for anything.                                        *)
(***************************************************************************)
EXTENDS IviCompositor

CONSTANTS
    bg, panel,      \* the shell client's surfaces
    app1, app2,     \* the applications' surfaces
    shell, client,  \* the clients
    o1, o2,         \* the outputs
    a1, a2          \* the app_ids

Size(width, height) == [w |-> width, h |-> height]

ASSUME SurfacesAreNamed == Surfaces \subseteq {bg, panel, app1, app2}

MCOwner == [s \in Surfaces |-> IF s \in {bg, panel} THEN shell ELSE client]
MCAppOf == [s \in Surfaces |->
               IF s = app1 THEN a1 ELSE IF s = app2 THEN a2 ELSE NULL]

\* The two outputs differ in one dimension, so that what fits one does not fit the other.
MCWidth  == [o \in Outputs |-> 3]
MCHeight == [o \in Outputs |-> IF o = o1 THEN 3 ELSE 4]

\* A panel has no geometry yet, or is one thick; an application has the size that
\* one panel on the left or the right leaves, without being maximized.
MCFreeSizes ==
    [s \in Surfaces |->
        IF s = bg THEN {Size(0, 0)}
        ELSE IF s = panel THEN {Size(0, 0), Size(1, 1)} ELSE {Size(2, 3)}]

=============================================================================
