------------------------- MODULE PresentationProofs -------------------------
(***************************************************************************)
(* Proof that IviCompositor implements Presentation, for every value of    *)
(* the constants.  The inductive invariant of IviCompositorProofs does     *)
(* most of it; what it lacks is that only applications are in the normal   *)
(* layer (OnlyApplicationsShown), which is inductive on top of it.         *)
(***************************************************************************)
EXTENDS IviCompositorProofs, FiniteSetTheorems

OnlyApplicationsShown ==
    \A s \in Surfaces : layer[s] = "normal" => role[s] = "desktop"

RInv == IInv /\ OnlyApplicationsShown

Part == [s \in Surfaces |-> PartOf(s)]

\* What Presentation sees does not change.
Unseen == UNCHANGED <<ShellStage, Part, OnScreen>>

-----------------------------------------------------------------------------
\* Facts about the mapping

\* What is on screen after a step is what some output shows (NoOrphanOnScreen),
\* so there is room for it.
LEMMA RoomOnScreen ==
    ASSUME NoOrphanOnScreen'
    PROVE  Cardinality(OnScreen') <= Cardinality(Outputs)
<1> DEFINE Sh == {active'[o] : o \in Outputs}
           f == [o \in Outputs |-> active'[o]]
<1>1. IsFiniteSet(Outputs)
  BY ConstantsAssumption
<1>2. f \in Surjection(Outputs, Sh)
  BY DEF Surjection
<1>3. IsFiniteSet(Sh) /\ Cardinality(Sh) <= Cardinality(Outputs)
  BY <1>1, <1>2, FS_Surjection
<1>4. OnScreen' \subseteq Sh
  BY DEF OnScreen, NoOrphanOnScreen
<1>5. IsFiniteSet(OnScreen') /\ Cardinality(OnScreen') <= Cardinality(Sh)
  BY <1>3, <1>4, FS_Subset
<1>6. /\ Cardinality(OnScreen') \in Nat /\ Cardinality(Sh) \in Nat
      /\ Cardinality(Outputs) \in Nat
  BY <1>1, <1>3, <1>5, FS_CardinalityType
<1> QED BY <1>3, <1>5, <1>6

\* The instance has its own name for the operator.
LEMMA SameCardinality == \A S : P!Cardinality(S) = Cardinality(S)
BY DEF P!Cardinality, Cardinality

LEMMA UnseenStep ==
    ASSUME UNCHANGED <<shellVars, listVars, objectVars, layer>>
    PROVE  Unseen
BY DEF Unseen, ShellStage, Part, PartOf, OnScreen, shellVars, listVars, objectVars

\* A surface with a part to close or to show.
LEMMA ApplicationPart ==
    ASSUME IInv, NEW s \in Surfaces, role[s] = "desktop"
    PROVE  Part[s] \in {"application", "stranded"}
BY DEF IInv, ObjectInv, Lifecycle, Part, PartOf

-----------------------------------------------------------------------------
\* The handlers of Layout: an application comes on screen in the place of one
\* other at most, or nothing changes there.

AtMostOne(T) == \A x, y \in T : x = y

LayoutSeen ==
    \/ OnScreen' = OnScreen
    \/ \E s \in Surfaces :
          /\ role[s] = "desktop"
          /\ \E t \in SUBSET (OnScreen \ {s}) :
                AtMostOne(t) /\ OnScreen' = (OnScreen \cup {s}) \ t

LEMMA ActivateCompleteSeen ==
    ASSUME RInv, NEW o \in Outputs, NEW s \in Surfaces, role[s] = "desktop",
           active[o] # s, ActivateComplete(o, s)
    PROVE  LayoutSeen
<1>1. CASE UNCHANGED layoutVars
  BY <1>1 DEF LayoutSeen, OnScreen, layoutVars
<1>2. CASE Replace(o, s)
  <2> DEFINE t == OnScreen \cap {active[o]}
  <2>1. OnScreen' = (OnScreen \cup {s}) \ t
    BY <1>2 DEF RInv, IInv, TypeOK, Replace, OnScreen
  <2>2. t \in SUBSET (OnScreen \ {s}) /\ AtMostOne(t)
    BY DEF AtMostOne
  <2> QED BY <2>1, <2>2 DEF LayoutSeen
<1> QED BY <1>1, <1>2 DEF ActivateComplete

LEMMA ConfigureSeen ==
    ASSUME RInv, NEW o \in Outputs, NEW s \in Surfaces, Configure(o, s)
    PROVE  LayoutSeen
BY DEF RInv, IInv, TypeOK, Configure, KeepDrawing, LayoutSeen, OnScreen, ViewInv, MappedIffInLayer

LEMMA ActivateSeen ==
    ASSUME RInv, NEW o \in Outputs, NEW a, Activate(o, a)
    PROVE  LayoutSeen
<1>1. CASE UNCHANGED layoutVars
  BY <1>1 DEF LayoutSeen, OnScreen, layoutVars
<1>2. ASSUME NEW s \in Matches(a), ActivateFound(o, s)
      PROVE  LayoutSeen
  <2>1. s \in Surfaces /\ role[s] = "desktop"
    BY DEF Matches, RInv, IInv, ObjectInv, TypeOK, ListsMatchRoles
  <2>2. CASE active[o] # s /\ ActivateComplete(o, s)
    BY <2>1, <2>2, ActivateCompleteSeen
  <2>3. CASE Configure(o, s)
    BY <2>1, <2>3, ConfigureSeen
  <2> QED BY <1>1, <1>2, <2>2, <2>3 DEF ActivateFound
<1> QED BY <1>1, <1>2 DEF Activate

LEMMA CommitSeen ==
    ASSUME RInv, NEW s \in Surfaces, Committed(s)
    PROVE  LayoutSeen
<1>1. PICK g \in CommitSizes(s), m \in BOOLEAN : Commit(s, g, m)
  BY DEF Committed
<1>2. CASE UNCHANGED layoutVars
  BY <1>2 DEF LayoutSeen, OnScreen, layoutVars
<1>3. CASE PanelCommitted(s)
  <2>1. CASE s \notin mapped /\ layer' = [layer EXCEPT ![s] = "panel"]
    BY <2>1 DEF RInv, IInv, TypeOK, ViewInv, MappedIffInLayer, LayoutSeen, OnScreen
  <2> QED BY <1>2, <1>3, <2>1 DEF PanelCommitted
<1>4. CASE role[s] = "desktop" /\ DesktopCommitted(s)
  <2>1. CASE ActivateByDefault(s)
    BY <1>2, <2>1, ActivateSeen DEF ActivateByDefault, BackgroundOutputs
  <2>2. CASE pendingOutput[s] # NULL /\ ActivateComplete(pendingOutput[s], s)
    <3>1. pendingOutput[s] \in Outputs /\ active[pendingOutput[s]] # s
      BY <2>2 DEF RInv, IInv, ViewInv, TypeOK, NeverReplacesItself
    <3> QED BY <1>4, <2>2, <3>1, ActivateCompleteSeen
  <2> QED BY <1>2, <1>4, <2>1, <2>2 DEF DesktopCommitted
<1> QED BY <1>1, <1>2, <1>3, <1>4 DEF Commit

\* An event that ends in a handler of Layout is a step of Presentation.
Implements == RInv' /\ [P!Next]_(P!vars)

LEMMA LayoutImplements ==
    ASSUME RInv, IInv', LayoutSeen, UNCHANGED <<shellVars, listVars, objectVars>>
    PROVE  Implements
<1>1. UNCHANGED <<ShellStage, Part, role>>
  BY DEF ShellStage, Part, PartOf, shellVars, listVars, objectVars
<1>2. CASE OnScreen' = OnScreen
  <2>1. OnlyApplicationsShown'
    BY <1>1, <1>2 DEF RInv, OnlyApplicationsShown, OnScreen
  <2> QED BY <1>1, <1>2, <2>1 DEF Implements, RInv, P!vars, Part
<1>3. ASSUME NEW s \in Surfaces, role[s] = "desktop", NEW t \in SUBSET (OnScreen \ {s}),
             AtMostOne(t), OnScreen' = (OnScreen \cup {s}) \ t
      PROVE  Implements
  <2>1. OnlyApplicationsShown'
    BY <1>1, <1>3 DEF RInv, OnlyApplicationsShown, OnScreen
  <2>2. Part[s] \in {"application", "stranded"}
    BY <1>3, ApplicationPart DEF RInv
  <2>3. Cardinality(OnScreen') <= Cardinality(Outputs)
    <3>1. NoOrphanOnScreen' /\ TypeOK'
      BY DEF IInv, ViewInv
    <3> QED BY <3>1, RoomOnScreen
  <2>4. P!Shows(s)
    <3>1. \E u \in SUBSET (OnScreen \ {s}) :
             /\ \A x, y \in u : x = y
             /\ OnScreen' = (OnScreen \cup {s}) \ u
      BY <1>3 DEF AtMostOne
    <3>2. UNCHANGED <<ShellStage, [u \in Surfaces |-> PartOf(u)]>>
      BY <1>1 DEF Part
    <3> QED BY <2>2, <2>3, <3>1, <3>2, SameCardinality DEF P!Shows, Part
  <2> QED BY <2>1, <2>4 DEF Implements, RInv, P!Next
<1> QED BY <1>2, <1>3 DEF LayoutSeen

-----------------------------------------------------------------------------
\* The events

\* Events of clients that do not concern what is seen, and those that fail.
LEMMA UnseenImplements ==
    ASSUME RInv, IInv', UNCHANGED <<shellVars, listVars, objectVars, layer>>
    PROVE  Implements
<1>1. Unseen
  BY UnseenStep
<1>2. OnlyApplicationsShown'
  BY DEF RInv, OnlyApplicationsShown, objectVars
<1> QED BY <1>1, <1>2 DEF Implements, RInv, Unseen, P!vars, Part

LEMMA AppearsStep ==
    ASSUME RInv, IInv', NEW s \in Surfaces, SurfaceAdded(s)
    PROVE  Implements
<1> USE DEF RInv, IInv, ObjectInv, Lifecycle, SurfaceAdded, Announced, Enlist, shellVars
<1>1. s \notin allocated /\ role[s] = "none" /\ s \notin pending /\ s \notin surfaces
  BY DEF ListsMatchRoles
<1>2. UNCHANGED <<ShellStage, OnScreen>>
  BY DEF ShellStage, OnScreen, layoutVars
<1>3. Part' = [Part EXCEPT ![s] = IF ShellStage = "ready" THEN "application" ELSE "waiting"]
  <2>1. \A t \in Surfaces \ {s} : PartOf(t)' = PartOf(t)
    BY <1>1 DEF PartOf, TypeOK
  <2>2. CASE ready
    <3>1. ShellStage = "ready" /\ PartOf(s)' = "application"
      BY <1>1, <2>2 DEF ShellStage, PartOf, TypeOK, ListsMatchRoles
    <3> QED BY <2>1, <3>1 DEF Part
  <2>3. CASE ~ready
    <3>1. ShellStage # "ready" /\ PartOf(s)' = "waiting"
      BY <1>1, <2>3 DEF ShellStage, PartOf, TypeOK
    <3> QED BY <2>1, <3>1 DEF Part
  <2> QED BY <2>2, <2>3
<1>4. Part[s] = "none"
  BY <1>1 DEF Part, PartOf
<1>5. OnlyApplicationsShown'
  BY <1>1 DEF TypeOK, OnlyApplicationsShown, layoutVars
<1>6. P!Appears(s)
  BY <1>2, <1>3, <1>4 DEF P!Appears, P!Becomes, Part
<1> QED BY <1>5, <1>6 DEF Implements, P!Next

LEMMA ClosesStep ==
    ASSUME RInv, IInv', NEW s \in Surfaces, role[s] = "desktop", RemoveDesktop(s)
    PROVE  Implements
<1> USE DEF RInv, RemoveDesktop, FreeDesktopSurface, Unmap, shellVars
<1> DEFINE shown == IF lastOutput[s] = NULL THEN NULL ELSE active[lastOutput[s]]
           t == (OnScreen \cap {shown}) \ {s}
<1>1. OnScreen' = OnScreen \ (t \cup {s})
  BY DEF OnScreen, IInv, TypeOK
<1>2. t \in SUBSET (OnScreen \ {s}) /\ \A x, y \in t : x = y
  OBVIOUS
<1>3. Part[s] \in {"application", "stranded"}
  BY ApplicationPart
<1>4. Part' = [Part EXCEPT ![s] = "none"]
  BY DEF Part, PartOf, IInv, TypeOK
<1>5. UNCHANGED ShellStage
  BY DEF ShellStage
<1>6. OnlyApplicationsShown'
  BY DEF IInv, TypeOK, OnlyApplicationsShown
<1>7. P!Closes(s)
  BY <1>1, <1>2, <1>3, <1>4, <1>5 DEF P!Closes, P!Becomes, Part
<1> QED BY <1>6, <1>7 DEF Implements, P!Next

\* A surface with another role, or none, was not in the normal layer.
LEMMA OtherRemovedStep ==
    ASSUME RInv, IInv', NEW s \in Surfaces, role[s] # "desktop", RemoveOther(s)
    PROVE  Implements
<1> USE DEF RInv, RemoveOther, Unmap
<1>1. OnScreen' = OnScreen
  BY DEF OnScreen, OnlyApplicationsShown, IInv, TypeOK
<1> QED BY <1>1, LayoutImplements DEF LayoutSeen

LEMMA ArrangedStep ==
    ASSUME RInv, IInv', NEW o \in Outputs, NEW k \in Slots, NEW s \in Surfaces,
           NEW p \in {"background", "panel"}, resource # NULL,
           Vacant(o, k, s), s \in allocated, role' = [role EXCEPT ![s] = p],
           Occupy(o, k, s), UNCHANGED <<shellVars, layer>>
    PROVE  Implements
<1> USE DEF RInv, Vacant, Occupy, shellVars
<1>1. UNCHANGED <<ShellStage, OnScreen>> /\ ShellStage # "absent"
  BY DEF ShellStage, OnScreen
<1>2. Part[s] \in {"waiting", "forgotten"}
  BY DEF Part, PartOf
<1>3. Part' = [Part EXCEPT ![s] = p]
  <2>1. role'[s] = p /\ \A t \in Surfaces \ {s} : role'[t] = role[t]
    BY DEF IInv, TypeOK
  <2>2. PartOf(s)' = p
    BY <2>1 DEF PartOf
  <2>3. \A t \in Surfaces \ {s} : PartOf(t)' = PartOf(t)
    BY <2>1 DEF PartOf
  <2> QED BY <2>2, <2>3 DEF Part
<1>4. OnlyApplicationsShown'
  BY DEF OnlyApplicationsShown, IInv, TypeOK
<1>5. P!Arranged(s)
  BY <1>1, <1>2, <1>3 DEF P!Arranged, P!Becomes, Part
<1> QED BY <1>4, <1>5 DEF Implements, P!Next

LEMMA SlotStep ==
    ASSUME RInv, IInv', NEW o \in Outputs, NEW s \in Surfaces,
           SetBackground(o, s) \/ \E e \in Edges : SetPanel(o, e, s)
    PROVE  Implements
<1>1. resource # NULL /\ dying = NULL /\ UNCHANGED <<shellVars, layer>>
  BY DEF SetBackground, SetPanel, Request, Running, layoutVars
<1>2. CASE UNCHANGED <<listVars, objectVars>>
  BY <1>1, <1>2, UnseenImplements
<1>3. ASSUME s \in toplevels
      PROVE  s \in allocated
  BY <1>1, <1>3, ConstantsAssumption DEF RInv, IInv, ObjectInv, Lifecycle, LiveHaveStructs
<1>4. CASE SetBackground(o, s)
  <2>1. CASE /\ Vacant(o, "background", s)
             /\ role' = [role EXCEPT ![s] = "background"]
             /\ Occupy(o, "background", s)
    BY <1>1, <1>3, <2>1, ArrangedStep DEF Vacant, Slots
  <2> QED BY <1>2, <1>4, <2>1 DEF SetBackground, Refused
<1>5. ASSUME NEW e \in Edges, SetPanel(o, e, s)
      PROVE  Implements
  <2>1. CASE /\ Vacant(o, e, s)
             /\ role' = [role EXCEPT ![s] = "panel"]
             /\ Occupy(o, e, s)
    <3>1. e \in Slots
      BY ConstantsAssumption
    <3> QED BY <1>1, <1>3, <2>1, <3>1, ArrangedStep DEF Vacant
  <2> QED BY <1>2, <1>5, <2>1 DEF SetPanel, Refused
<1> QED BY <1>4, <1>5

LEMMA NowhereStep ==
    ASSUME RInv, IInv', NEW s \in Surfaces, SetPanelNowhere(s)
    PROVE  Implements
BY UnseenImplements DEF SetPanelNowhere, Refused, layoutVars

LEMMA BindsStep ==
    ASSUME RInv, IInv', NEW c \in Clients, Bind(c)
    PROVE  Implements
<1> USE DEF Bind, shellVars
<1>1. CASE resource' = resource
  BY <1>1, UnseenImplements DEF layoutVars
<1>2. CASE resource = NULL /\ resource' = c
  <2>1. ~ready
    BY <1>2 DEF RInv, IInv, ObjectInv, ListsMatchRoles
  <2>2. ShellStage = "absent" /\ ShellStage' = "arranging"
    BY <1>2, <2>1, ConstantsAssumption DEF ShellStage
  <2>3. UNCHANGED <<Part, OnScreen>>
    BY DEF Part, PartOf, OnScreen, listVars, objectVars, layoutVars
  <2>4. OnlyApplicationsShown'
    BY DEF RInv, OnlyApplicationsShown, objectVars, layoutVars
  <2>5. P!ShellBinds
    BY <2>2, <2>3 DEF P!ShellBinds, Part
  <2> QED BY <2>4, <2>5 DEF Implements, RInv, P!Next
<1> QED BY <1>1, <1>2 DEF BindRefused, BindNoMemory

LEMMA ShellReadyStep ==
    ASSUME RInv, IInv', Ready
    PROVE  Implements
<1>1. CASE UNCHANGED <<shellVars, listVars, objectVars, layer>>
  BY <1>1, UnseenImplements
<1>2. CASE /\ ~ready
           /\ ready' = TRUE
           /\ LayoutInit
           /\ PromotePending
           /\ UNCHANGED <<resource, allocated>>
  <2> USE <1>2 DEF RInv, PromotePending
  <2>1. ShellStage = "arranging" /\ ShellStage' = "ready"
    BY DEF ShellStage, Ready, Request
  <2>2. \A s \in pending : s \in allocated /\ role[s] = "none" /\ s \notin surfaces
    BY DEF IInv, ObjectInv, ListsMatchRoles
  <2>3. Part' = [s \in Surfaces |-> IF Part[s] = "waiting" THEN "application" ELSE Part[s]]
    <3>1. ASSUME NEW s \in Surfaces
          PROVE  PartOf(s)' = IF PartOf(s) = "waiting" THEN "application" ELSE PartOf(s)
      <4>1. CASE s \in pending
        BY <2>2, <4>1 DEF PartOf
      <4>2. CASE s \notin pending
        BY <4>2 DEF PartOf, IInv, TypeOK, Roles
      <4> QED BY <4>1, <4>2
    <3> QED BY <3>1 DEF Part
  <2>4. \A s \in Backgrounds \cup Panels : role[s] \in {"background", "panel"}
    BY DEF IInv, ObjectInv, SlotsAgree, Backgrounds, Panels, Occupants, Slots
  <2>5. OnScreen' = OnScreen
    BY <2>4 DEF LayoutInit, OnScreen, OnlyApplicationsShown
  <2>6. OnlyApplicationsShown'
    <3>1. \A s \in Surfaces : role[s] = "desktop" => role'[s] = "desktop"
      OBVIOUS
    <3> QED BY <2>5, <3>1 DEF OnScreen, OnlyApplicationsShown
  <2>7. P!ShellReady
    BY <2>1, <2>3, <2>5 DEF P!ShellReady, Part
  <2> QED BY <2>6, <2>7 DEF Implements, P!Next
<1> QED BY <1>1, <1>2
  DEF Ready, vars, shellVars, listVars, objectVars, layoutVars

LEMMA ShellGoneStep ==
    ASSUME RInv, IInv', Unbind
    PROVE  Implements
<1>1. CASE UNCHANGED <<shellVars, listVars, objectVars, layoutVars>>
  BY <1>1, UnseenImplements DEF layoutVars
<1>2. CASE /\ FreeOccupants /\ TakeOffScreen /\ ResetShell
           /\ surfaces' = {} /\ pending' = {}
  <2> USE <1>2 DEF RInv, FreeOccupants, TakeOffScreen, ResetShell
  <2>1. ShellStage # "absent" /\ ShellStage' = "absent"
    BY DEF ShellStage, Unbind, Unbinds
  <2>2. OnScreen' = {}
    <3>1. \A s \in OnScreen : s \in Shown
      BY ConstantsAssumption DEF OnScreen, Shown, IInv, ViewInv, NoOrphanOnScreen
    <3> QED BY <3>1 DEF OnScreen
  <2>3. \A s \in Surfaces : s \in Freed <=> role[s] \in {"background", "panel"}
    <3>1. \A s \in Freed : role[s] \in {"background", "panel"}
      BY DEF IInv, ObjectInv, SlotsAgree, Freed
    <3>2. ASSUME NEW s \in Surfaces, role[s] \in {"background", "panel"}
          PROVE  s \in Freed
      <4>1. anchor[s] \in Outputs \X Slots
        BY <3>2 DEF IInv, TypeOK, ObjectInv, SlotsAgree
      <4>2. slot[anchor[s][1]][anchor[s][2]] = s /\ s # NULL
        BY <3>2, ConstantsAssumption DEF IInv, ObjectInv, SlotsAgree
      <4> QED BY <4>1, <4>2 DEF Freed
    <3> QED BY <3>1, <3>2
  <2>4. Part' = [s \in Surfaces |-> P!Orphaned(Part[s])]
    <3>1. ASSUME NEW s \in Surfaces
          PROVE  PartOf(s)' = P!Orphaned(PartOf(s))
      <4>1. CASE s \notin allocated
        BY <4>1 DEF PartOf, P!Orphaned
      <4>2. CASE s \in Freed
        <5>1. s \in allocated /\ role[s] \in {"background", "panel"}
          BY <2>3, <4>2 DEF IInv, ObjectInv, Lifecycle
        <5> QED BY <4>2, <5>1 DEF PartOf, P!Orphaned
      <4>3. CASE s \in allocated /\ s \notin Freed
        <5>1. role[s] \in {"none", "desktop"}
          BY <2>3, <4>3 DEF IInv, TypeOK, Roles
        <5> QED BY <4>3, <5>1 DEF PartOf, P!Orphaned
      <4> QED BY <4>1, <4>2, <4>3
    <3> QED BY <3>1 DEF Part
  <2>5. OnlyApplicationsShown'
    BY <2>2 DEF OnScreen, OnlyApplicationsShown
  <2>6. P!ShellGone
    BY <2>1, <2>2, <2>4 DEF P!ShellGone, Part
  <2> QED BY <2>5, <2>6 DEF Implements, P!Next
<1> QED BY <1>1, <1>2 DEF Unbind

-----------------------------------------------------------------------------
LEMMA InitImplements == Init => OnlyApplicationsShown /\ P!Init
BY DEF Init, OnlyApplicationsShown, P!Init, ShellStage, PartOf, OnScreen

LEMMA NextImplements == RInv /\ [Next]_vars => Implements
<1> SUFFICES ASSUME RInv, [Next]_vars PROVE Implements
  OBVIOUS
<1> USE DEF shellVars, listVars, objectVars, layoutVars
<1>1. IInv'
  BY NextIInv DEF RInv
<1>2. CASE UNCHANGED <<shellVars, listVars, objectVars, layer>>
  BY <1>1, <1>2, UnseenImplements
<1>3. ASSUME NEW s \in Surfaces, SurfaceRemoved(s)
      PROVE  Implements
  BY <1>1, <1>2, <1>3, ClosesStep, OtherRemovedStep DEF SurfaceRemoved, RemoveFails
<1>4. ASSUME NEW s \in Surfaces, Committed(s)
      PROVE  Implements
  <2>1. UNCHANGED <<shellVars, listVars, objectVars>>
    BY <1>4 DEF Committed, Commit
  <2> QED BY <1>1, <1>4, <2>1, CommitSeen, LayoutImplements
<1>5. CASE DesktopNext
  BY <1>1, <1>2, <1>3, <1>4, <1>5, AppearsStep
  DEF DesktopNext, ToplevelCreated, ToplevelWithdrawn, SurfaceAddedNoMemory, Announced
<1>6. ASSUME NEW o \in Outputs, NEW a \in AppIds, ActivateApp(o, a)
      PROVE  Implements
  BY <1>1, <1>6, ActivateSeen, LayoutImplements DEF ActivateApp
<1>7. CASE ShellNext
  BY <1>1, <1>2, <1>6, <1>7, BindsStep, SlotStep, NowhereStep, ShellReadyStep, ShellGoneStep
  DEF ShellNext, Disconnect, Reaped
<1>8. CASE UNCHANGED vars
  BY <1>2, <1>8 DEF vars
<1> QED BY <1>5, <1>7, <1>8 DEF Next

\* The compositor implements Presentation: every step of it, a client's
\* disconnection and a crash among them, is a step of Presentation or changes
\* nothing that Presentation sees (shell.c:268-290, 442-494; layout.c:182-217;
\* desktop.c:79-126).
THEOREM Refinement == Spec => ImplementsPresentation
<1>1. Init => RInv /\ P!Init
  BY InitIInv, InitImplements DEF RInv
<1>2. RInv /\ [Next]_vars => RInv' /\ [P!Next]_(P!vars)
  BY NextImplements DEF Implements
<1> QED BY <1>1, <1>2, PTL DEF Spec, ImplementsPresentation, P!Spec

=============================================================================
