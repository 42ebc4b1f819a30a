---------------------------- MODULE Presentation ----------------------------
(***************************************************************************)
(* What the compositor promises, without views, lists, layers, commits and *)
(* outputs: which part each toplevel has in the interface, and which       *)
(* applications are on screen.  IviCompositor is shown to implement it.    *)
(*                                                                         *)
(* A part is given once.  Before the shell client is ready a toplevel      *)
(* waits; the shell client may make it a background or a panel, and        *)
(* otherwise it becomes an application, at the latest when the shell       *)
(* client is ready.  Losing the shell client loses its backgrounds and     *)
(* panels, empties the screen, and orphans everything else: nothing that   *)
(* the next shell client does gives the orphans back.                      *)
(***************************************************************************)
EXTENDS Integers, FiniteSets

CONSTANTS
    Surfaces,
    Outputs      \* each shows at most one application

VARIABLES
    shell,       \* how far the shell client is
    part,        \* of each surface
    visible      \* the applications on screen

vars == <<shell, part, visible>>

Parts == {"none", "waiting", "application", "background", "panel",
          "forgotten",    \* it waited when the shell client went away
          "stranded"}     \* it was an application then

Init ==
    /\ shell = "absent"
    /\ part = [s \in Surfaces |-> "none"]
    /\ visible = {}

Becomes(s, p) == part' = [part EXCEPT ![s] = p]

ShellBinds ==
    /\ shell = "absent"
    /\ shell' = "arranging"
    /\ UNCHANGED <<part, visible>>

Appears(s) ==
    /\ part[s] = "none"
    /\ Becomes(s, IF shell = "ready" THEN "application" ELSE "waiting")
    /\ UNCHANGED <<shell, visible>>

Arranged(s) ==
    /\ shell # "absent"
    /\ part[s] \in {"waiting", "forgotten"}
    /\ Becomes(s, "background") \/ Becomes(s, "panel")
    /\ UNCHANGED <<shell, visible>>

\* All that still wait become applications in the same step.
ShellReady ==
    /\ shell = "arranging"
    /\ shell' = "ready"
    /\ part' = [s \in Surfaces |-> IF part[s] = "waiting" THEN "application" ELSE part[s]]
    /\ UNCHANGED visible

\* An application comes on screen in the place of at most one other, and there
\* are never more of them than outputs.
Shows(s) ==
    /\ part[s] \in {"application", "stranded"}
    /\ \E t \in SUBSET (visible \ {s}) :
          /\ \A x, y \in t : x = y
          /\ visible' = (visible \cup {s}) \ t
    /\ Cardinality(visible') <= Cardinality(Outputs)
    /\ UNCHANGED <<shell, part>>

\* An application goes, and may take what its last output shows with it.
Closes(s) ==
    /\ part[s] \in {"application", "stranded"}
    /\ Becomes(s, "none")
    /\ \E t \in SUBSET (visible \ {s}) :
          /\ \A x, y \in t : x = y
          /\ visible' = visible \ (t \cup {s})
    /\ UNCHANGED shell

Orphaned(p) ==
    IF p \in {"background", "panel"} THEN "none"
    ELSE IF p = "waiting" THEN "forgotten"
    ELSE IF p = "application" THEN "stranded" ELSE p

ShellGone ==
    /\ shell # "absent"
    /\ shell' = "absent"
    /\ part' = [s \in Surfaces |-> Orphaned(part[s])]
    /\ visible' = {}

Next ==
    \/ ShellBinds \/ ShellReady \/ ShellGone
    \/ \E s \in Surfaces : Appears(s) \/ Arranged(s) \/ Shows(s) \/ Closes(s)

Spec == Init /\ [][Next]_vars

=============================================================================
