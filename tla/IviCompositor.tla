--------------------------- MODULE IviCompositor ---------------------------
(***************************************************************************)
(* The compositor while it runs: clients create, commit and destroy        *)
(* toplevels, one of them binds agl_shell and arranges them, and any of    *)
(* them may go away.  Desktop and Shell each add the handlers of their     *)
(* part; a step is one handler.                                            *)
(***************************************************************************)
EXTENDS Desktop, Shell

\* After ivi_shell_init_black_fs: no client, and every output black.
Init ==
    /\ resource = NULL /\ ready = FALSE
    /\ black = [o \in Outputs |-> TRUE]
    /\ surfaces = {} /\ pending = {}
    /\ slot = [o \in Outputs |-> [k \in Slots |-> NULL]]
    /\ anchor = [s \in Surfaces |-> NULL]
    /\ area = [o \in Outputs |-> [x |-> 0, y |-> 0, w |-> 0, h |-> 0]]
    /\ active = [o \in Outputs |-> NULL]
    /\ allocated = {} /\ role = [s \in Surfaces |-> "none"]
    /\ pendingOutput = [s \in Surfaces |-> NULL]
    /\ lastOutput = [s \in Surfaces |-> NULL]
    /\ bare = {} /\ toplevels = {}
    /\ geom = [s \in Surfaces |-> NoSize]
    /\ maximized = [s \in Surfaces |-> FALSE]
    /\ conf = [s \in Surfaces |-> NULL]
    /\ mapped = {} /\ layer = [s \in Surfaces |-> "none"]
    /\ pos = [s \in Surfaces |-> Origin]
    /\ dying = NULL /\ error = NULL /\ fault = "none"

DesktopNext ==
    \E s \in Surfaces :
        \/ ToplevelCreated(s) \/ ToplevelWithdrawn(s)
        \/ SurfaceAdded(s) \/ SurfaceAddedNoMemory(s)
        \/ SurfaceRemoved(s)
        \/ Committed(s)

ShellNext ==
    \/ \E c \in Clients : Bind(c) \/ Disconnect(c)
    \/ \E o \in Outputs, s \in Surfaces :
          SetBackground(o, s) \/ \E e \in Edges : SetPanel(o, e, s)
    \/ \E s \in Surfaces : SetPanelNowhere(s)
    \/ \E o \in Outputs, a \in AppIds : ActivateApp(o, a)
    \/ Ready
    \/ Unbind
    \/ Reaped

Next == DesktopNext \/ ShellNext

Spec == Init /\ [][Next]_vars

\* wl_client_destroy runs to its end.
FinishDestroy == dying # NULL /\ Next

\* A client that draws acknowledges the size it is told.  Between two of its
\* chances others may disconnect, so weak fairness is not enough.
FairSpec ==
    /\ Spec
    /\ WF_vars(FinishDestroy)
    /\ \A s \in Surfaces : SF_vars(Acknowledge(s))

-----------------------------------------------------------------------------
TypeOK ==
    /\ resource \in Clients \cup {NULL}
    /\ ready \in BOOLEAN
    /\ surfaces \in SUBSET Surfaces
    /\ pending \in SUBSET Surfaces
    /\ slot \in [Outputs -> [Slots -> Surfaces \cup {NULL}]]
    /\ active \in [Outputs -> Surfaces \cup {NULL}]
    /\ area \in [Outputs -> Areas]
    /\ black \in [Outputs -> BOOLEAN]
    /\ allocated \in SUBSET Surfaces
    /\ role \in [Surfaces -> Roles]
    /\ anchor \in [Surfaces -> (Outputs \X Slots) \cup {NULL}]
    /\ pendingOutput \in [Surfaces -> Outputs \cup {NULL}]
    /\ lastOutput \in [Surfaces -> Outputs \cup {NULL}]
    /\ bare \in SUBSET Surfaces
    /\ toplevels \in SUBSET Surfaces
    /\ geom \in [Surfaces -> DrawableSizes]
    /\ maximized \in [Surfaces -> BOOLEAN]
    /\ conf \in [Surfaces -> Sizes \cup {NULL}]
    /\ mapped \in SUBSET Surfaces
    /\ layer \in [Surfaces -> Layers]
    /\ pos \in [Surfaces -> Points]
    /\ dying \in Clients \cup {NULL}
    /\ error \in Errors \cup {NULL}
    /\ fault \in Faults

\* Every output is black exactly until the shell client says it is ready, and
\* again once it is gone; remove_black_surface asserts it (shell.c:237), and
\* agl-shell.xml promises it of start-up.
BlackUntilReady == \A o \in Outputs : black[o] = ~ready

\* The two ways the code keeps track of the shell's surfaces agree: what an
\* output's slot holds is a live struct of the shell client that knows the
\* slot, and a struct that thinks it has a slot is in it.  So unbind_agl_shell
\* frees each of them once, and no list still holds one (shell.c:451-464).
SlotsAgree ==
    /\ \A o \in Outputs, k \in Slots :
          LET s == slot[o][k] IN
          s # NULL => /\ s \in allocated /\ Owner[s] = resource
                      /\ anchor[s] = <<o, k>>
                      /\ role[s] = IF k = "background" THEN "background" ELSE "panel"
    /\ \A s \in Surfaces :
          /\ anchor[s] # NULL => slot[anchor[s][1]][anchor[s][2]] = s
          /\ role[s] \in {"background", "panel"} => anchor[s] # NULL

\* The list a struct is linked into is the one its role calls for; nothing
\* waits for a role once the shell is ready, and nothing is an application in
\* the list before; ivi_set_desktop_surface asserts the role (shell.c:52).
ListsMatchRoles ==
    /\ \A s \in pending : s \in allocated /\ role[s] = "none"
    /\ \A s \in surfaces : s \in allocated /\ role[s] = "desktop"
    /\ ready => pending = {} /\ resource # NULL
    /\ ~ready => surfaces = {}

\* The user data of a toplevel is a struct that exists, except while its client
\* is being destroyed: no commit or request reaches a freed struct, or one that
\* could not be allocated (desktop.c:66-70, 132; shell.c:313, 451-464).
LiveHaveStructs == \A s \in toplevels : s \in allocated \/ dying = Owner[s]

\* A view's is_mapped flag and its place in a layer change together: code
\* that checks the flag before it links a view never links one twice, or
\* unlinks one that is in no layer (layout.c:190, 379; shell.c:237).
MappedIffInLayer == \A s \in Surfaces : s \in mapped <=> layer[s] # "none"

\* A view in the normal layer is the active one of some output, so that the
\* next activation there hides it: no application is left on screen with
\* nothing pointing to it (layout.c:202-208).
NoOrphanOnScreen ==
    \A s \in Surfaces : layer[s] = "normal" => \E o \in Outputs : active[o] = s

\* A view is in the hidden layer only while an activation waits for its
\* client; what is finished or given up does not stay mapped there
\* (layout.c:374-389).
HiddenOnlyWhilePending ==
    \A s \in Surfaces : layer[s] = "hidden" => pendingOutput[s] # NULL

\* An activation never waits on the output that already shows the surface:
\* ivi_layout_activate_complete would hide the view it has just mapped.
NeverReplacesItself ==
    \A s \in Surfaces : \A o \in Outputs : pendingOutput[s] = o => active[o] # s

\* A view enters the normal layer only once its client has committed, at
\* maximized, the size of the usable area of the output it becomes active on:
\* nobody sees an application at the wrong size (layout.c:265-268, 362-364).
NeverShownMisfit ==
    [][\A s \in Surfaces : layer'[s] = "normal" /\ layer[s] # "normal" =>
          /\ maximized'[s]
          /\ \E o \in Outputs : active'[o] = s /\ geom'[s] = AreaSize(o)]_vars

\* The usable area changes only when the shell becomes ready, when no output
\* shows an application: none is left with a size that no longer fits.
\* With it, what an output shows fills the area the panels leave.
ActiveFillsArea ==
    \A o \in Outputs : active[o] # NULL =>
        /\ geom[active[o]] = AreaSize(o)
        /\ pos[active[o]] = [x |-> area[o].x, y |-> area[o].y]

\* What an output takes for its active surface is on screen
\* (agl-shell.xml:102: activate_app makes a toplevel the current window).
ActiveIsShown ==
    \A o \in Outputs : active[o] # NULL =>
        active[o] \in mapped /\ layer[active[o]] = "normal"

\* output->active never points to a struct that was freed
\* (desktop.c:111: "reset the active surface as well").
NoStaleActive == \A o \in Outputs : ~Dangling(active[o])

\* Once the shell is ready every toplevel has a role: creating the surfaces
\* of applications was only delayed (desktop.c:88-92).
DelayedNotLost == ready => \A s \in toplevels \cap allocated : role[s] # "none"

\* A panel on screen that does not reach into the area applications are given.
Overlap(o, s) ==
    /\ pos[s].x < area[o].x + area[o].w /\ area[o].x < pos[s].x + geom[s].w
    /\ pos[s].y < area[o].y + area[o].h /\ area[o].y < pos[s].y + geom[s].h
PanelClear(o, e) ==
    LET s == slot[o][e] IN s # NULL /\ layer[s] = "panel" => ~Overlap(o, s)

\* At the moment the shell is ready no panel covers the area, for every
\* combination of edges: the position of each panel and what is taken off the
\* area agree (layout.c:88-105; agl-shell.xml:85-86).
ReadyReservesPanels ==
    [][~ready /\ ready' =>
          \A o \in Outputs, e \in Slots \ {"background"} : PanelClear(o, e)']_vars

\* An activation that waits for its client completes, or is given up with the
\* surface: a view nothing shows is kept in the hidden layer so that its client
\* can act on the configure event (layout.c:374-378).
ActivationSettles ==
    \A s \in Surfaces : pendingOutput[s] # NULL ~> pendingOutput[s] = NULL \/ fault # "none"

-----------------------------------------------------------------------------
(***************************************************************************)
(* The refinement mapping to Presentation.  The part of a surface is its   *)
(* role where it has one; the list its struct is in, or is missing from,   *)
(* tells the rest.                                                         *)
(***************************************************************************)
ShellStage ==
    IF resource = NULL THEN "absent" ELSE IF ready THEN "ready" ELSE "arranging"

PartOf(s) ==
    IF s \notin allocated THEN "none"
    ELSE IF role[s] = "none" THEN (IF s \in pending THEN "waiting" ELSE "forgotten")
    ELSE IF role[s] = "desktop" THEN (IF s \in surfaces THEN "application" ELSE "stranded")
    ELSE role[s]

OnScreen == {s \in Surfaces : layer[s] = "normal"}

P == INSTANCE Presentation
        WITH shell <- ShellStage, part <- [s \in Surfaces |-> PartOf(s)], visible <- OnScreen

\* Through every interleaving, refusal, restart and crash, what can be seen of
\* the compositor is what Presentation allows: an application comes on screen
\* in the place of one other at most, and nothing leaves it unless it is
\* replaced, closes or loses the shell client; a part is given once, and all
\* that wait get theirs with the ready request (shell.c:286-289, 442-494;
\* layout.c:202-216; desktop.c:111-125).
ImplementsPresentation == P!Spec

=============================================================================
