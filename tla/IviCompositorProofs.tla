------------------------ MODULE IviCompositorProofs ------------------------
(***************************************************************************)
(* Proofs, for every value of the constants, of the type invariant of      *)
(* IviCompositor and of its invariants that hold whatever clients do.      *)
(*                                                                         *)
(* The inductive invariant has two parts.  ObjectInv relates the structs,  *)
(* the lists and the slots; ViewInv relates the views, their layers and    *)
(* the outputs.  The handlers of Layout change only what ViewInv speaks    *)
(* of, so a lemma for each of them covers the events that call it.         *)
(***************************************************************************)
EXTENDS IviCompositor, TLAPS

\* Which struct can have which state, beyond the invariants of the runs: a
\* toplevel not announced has no struct, a struct that was freed has no role,
\* and only an application waits for an activation.
Lifecycle ==
    /\ \A s \in bare : s \notin toplevels \cup allocated
    /\ \A s \in Surfaces : role[s] # "none" => s \in allocated
    /\ \A s \in Surfaces : pendingOutput[s] # NULL => role[s] = "desktop"
    /\ LiveHaveStructs

ObjectInv == SlotsAgree /\ ListsMatchRoles /\ Lifecycle
ViewInv == MappedIffInLayer /\ NoOrphanOnScreen /\ HiddenOnlyWhilePending /\ NeverReplacesItself

IInv == TypeOK /\ BlackUntilReady /\ ObjectInv /\ ViewInv

\* The part of TypeOK that the handlers of Layout can change.
LayoutTypeOK ==
    /\ active \in [Outputs -> Surfaces \cup {NULL}]
    /\ pendingOutput \in [Surfaces -> Outputs \cup {NULL}]
    /\ lastOutput \in [Surfaces -> Outputs \cup {NULL}]
    /\ mapped \in SUBSET Surfaces
    /\ layer \in [Surfaces -> Layers]
    /\ pos \in [Surfaces -> Points]
    /\ conf \in [Surfaces -> Sizes \cup {NULL}]

\* What the lemmas about a handler of Layout establish: the types and ViewInv
\* hold again, only applications wait, and no client is taken down.
LayoutOK ==
    /\ LayoutTypeOK'
    /\ ViewInv'
    /\ \A t \in Surfaces : pendingOutput'[t] # NULL => role[t] = "desktop"
    /\ fault' \in Faults
    /\ UNCHANGED <<dying, error>>

-----------------------------------------------------------------------------
\* The handlers of Layout

\* A handler that leaves the views alone, because it has nothing to do or
\* because it follows a pointer to a freed struct.
LEMMA LayoutUnchanged ==
    ASSUME IInv, UNCHANGED layoutVars, fault' \in Faults, UNCHANGED <<dying, error>>
    PROVE  LayoutOK
BY DEF IInv, ObjectInv, Lifecycle, TypeOK, ViewInv, LayoutOK, LayoutTypeOK, layoutVars,
       MappedIffInLayer, NoOrphanOnScreen, HiddenOnlyWhilePending, NeverReplacesItself

LEMMA LayoutCrash ==
    ASSUME IInv, NEW f \in Faults, Crash(f), UNCHANGED layoutVars
    PROVE  LayoutOK
BY LayoutUnchanged DEF Crash

LEMMA LayoutNothing ==
    ASSUME IInv, UNCHANGED <<layoutVars, loopVars>>
    PROVE  LayoutOK
BY LayoutUnchanged DEF IInv, TypeOK, loopVars

\* ivi_layout_activate_complete, called for a surface the output does not show
\* yet: the replaced view leaves its layer, so each view is still in the layer
\* its flag says.
LEMMA ActivateCompleteOK ==
    ASSUME IInv, NEW o \in Outputs, NEW s \in Surfaces, role[s] = "desktop",
           active[o] # s, ActivateComplete(o, s)
    PROVE  LayoutOK
<1> USE DEF IInv, ViewInv
<1>1. CASE Dangling(active[o]) /\ Crash("ivi_layout_activate_complete") /\ UNCHANGED layoutVars
  BY <1>1, LayoutCrash DEF Faults
<1>2. CASE /\ Replace(o, s) /\ Activated(s)
           /\ pos' = [pos EXCEPT ![s] = [x |-> area[o].x, y |-> area[o].y]]
           /\ UNCHANGED <<conf, loopVars>>
  <2>1. LayoutTypeOK'
    BY <1>2 DEF TypeOK, LayoutTypeOK, Replace, Activated, Layers, Areas, Points
  <2>2. MappedIffInLayer'
    BY <1>2 DEF TypeOK, MappedIffInLayer, Replace
  <2>3. NoOrphanOnScreen'
    BY <1>2 DEF TypeOK, NoOrphanOnScreen, Replace
  <2>4. HiddenOnlyWhilePending'
    BY <1>2 DEF TypeOK, HiddenOnlyWhilePending, Replace, Activated
  <2>5. NeverReplacesItself'
    BY <1>2, ConstantsAssumption DEF TypeOK, NeverReplacesItself, Replace, Activated
  <2>6. \A t \in Surfaces : pendingOutput'[t] # NULL => role[t] = "desktop"
    BY <1>2 DEF TypeOK, Activated, ObjectInv, Lifecycle
  <2>7. fault' \in Faults /\ UNCHANGED <<dying, error>>
    BY <1>2 DEF TypeOK, loopVars
  <2> QED BY <2>1, <2>2, <2>3, <2>4, <2>5, <2>6, <2>7 DEF LayoutOK
<1> QED BY <1>1, <1>2 DEF ActivateComplete

\* The other half of ivi_layout_activate: the surface is told the size of the
\* area, and its view goes to the hidden layer if it was in none.
LEMMA ConfigureOK ==
    ASSUME IInv, NEW o \in Outputs, NEW s \in Surfaces, role[s] = "desktop",
           active[o] # s, Configure(o, s)
    PROVE  LayoutOK
<1> USE DEF IInv, ViewInv, Configure
<1>1. LayoutTypeOK'
  BY DEF TypeOK, LayoutTypeOK, KeepDrawing, AreaSize, Layers, Areas, Sizes
<1>2. MappedIffInLayer'
  BY DEF TypeOK, MappedIffInLayer, KeepDrawing
<1>3. NoOrphanOnScreen'
  BY DEF TypeOK, NoOrphanOnScreen, KeepDrawing
<1>4. HiddenOnlyWhilePending'
  BY ConstantsAssumption DEF TypeOK, HiddenOnlyWhilePending, KeepDrawing
<1>5. NeverReplacesItself'
  BY DEF TypeOK, NeverReplacesItself
<1>6. \A t \in Surfaces : pendingOutput'[t] # NULL => role[t] = "desktop"
  BY DEF TypeOK, ObjectInv, Lifecycle, LiveHaveStructs
<1>7. fault' \in Faults /\ UNCHANGED <<dying, error>>
  BY DEF TypeOK, loopVars
<1> QED BY <1>1, <1>2, <1>3, <1>4, <1>5, <1>6, <1>7 DEF LayoutOK

\* ivi_layout_activate: whatever surface is found is an application.
LEMMA ActivateOK ==
    ASSUME IInv, NEW o \in Outputs, NEW a, Activate(o, a)
    PROVE  LayoutOK
<1>1. CASE Crash("ivi_find_app") /\ UNCHANGED layoutVars
  BY <1>1, LayoutCrash DEF Faults
<1>2. CASE UNCHANGED <<layoutVars, loopVars>>
  BY <1>2, LayoutNothing
<1>3. ASSUME NEW s \in Matches(a), ActivateFound(o, s)
      PROVE  LayoutOK
  <2>1. s \in Surfaces /\ role[s] = "desktop"
    BY DEF Matches, IInv, ObjectInv, TypeOK, ListsMatchRoles
  <2>2. CASE active[o] = s /\ UNCHANGED <<layoutVars, loopVars>>
    BY <2>2, LayoutNothing
  <2>3. CASE active[o] # s /\ ActivateComplete(o, s)
    BY <2>1, <2>3, ActivateCompleteOK
  <2>4. CASE active[o] # s /\ Configure(o, s)
    BY <2>1, <2>4, ConfigureOK
  <2> QED BY <1>3, <2>2, <2>3, <2>4 DEF ActivateFound
<1> QED BY <1>1, <1>2, <1>3 DEF Activate

\* ivi_layout_desktop_committed: an activation that waited cannot be for the
\* surface the output shows.
LEMMA DesktopCommittedOK ==
    ASSUME IInv, NEW s \in Surfaces, role[s] = "desktop", DesktopCommitted(s)
    PROVE  LayoutOK
<1>1. CASE pendingOutput[s] = NULL /\ ActivateByDefault(s)
  <2>1. CASE UNCHANGED <<layoutVars, loopVars>>
    BY <2>1, LayoutNothing
  <2>2. CASE \E o \in BackgroundOutputs : Activate(o, AppOf[s])
    BY <2>2, ActivateOK DEF BackgroundOutputs
  <2> QED BY <1>1, <2>1, <2>2 DEF ActivateByDefault
<1>2. CASE UNCHANGED <<layoutVars, loopVars>>
  BY <1>2, LayoutNothing
<1>3. CASE pendingOutput[s] # NULL /\ ActivateComplete(pendingOutput[s], s)
  <2>1. pendingOutput[s] \in Outputs /\ active[pendingOutput[s]] # s
    BY <1>3 DEF IInv, ViewInv, TypeOK, NeverReplacesItself
  <2> QED BY <1>3, <2>1, ActivateCompleteOK
<1> QED BY <1>1, <1>2, <1>3 DEF DesktopCommitted

\* The position ivi_panel_init and ivi_layout_panel_committed compute.
LEMMA PanelPositionType ==
    ASSUME NEW o \in Outputs, NEW e, NEW g \in DrawableSizes
    PROVE  PanelPosition(o, e, g) \in Points
BY ConstantsAssumption DEF PanelPosition, Points, DrawableSizes

\* ivi_layout_panel_committed: only a view in no layer is linked into one.
LEMMA PanelCommittedOK ==
    ASSUME IInv, NEW s \in Surfaces, role[s] = "panel", geom'[s] \in DrawableSizes,
           PanelCommitted(s)
    PROVE  LayoutOK
<1>1. CASE UNCHANGED <<layoutVars, loopVars>>
  BY <1>1, LayoutNothing
<1>2. CASE /\ s \notin mapped
           /\ mapped' = mapped \cup {s}
           /\ layer' = [layer EXCEPT ![s] = "panel"]
           /\ pos' = [pos EXCEPT ![s] = PanelPosition(anchor[s][1], anchor[s][2], geom'[s])]
           /\ UNCHANGED <<active, pendingOutput, lastOutput, conf, loopVars>>
  <2>1. PanelPosition(anchor[s][1], anchor[s][2], geom'[s]) \in Points
    <3>1. anchor[s] \in Outputs \X Slots
      BY DEF IInv, TypeOK, ObjectInv, SlotsAgree
    <3> QED BY <3>1, PanelPositionType
  <2>2. LayoutTypeOK'
    BY <1>2, <2>1 DEF IInv, TypeOK, LayoutTypeOK, Layers
  <2>3. ViewInv'
    BY <1>2 DEF IInv, TypeOK, ViewInv, MappedIffInLayer, NoOrphanOnScreen,
                HiddenOnlyWhilePending, NeverReplacesItself
  <2>4. /\ \A t \in Surfaces : pendingOutput'[t] # NULL => role[t] = "desktop"
        /\ fault' \in Faults /\ UNCHANGED <<dying, error>>
    BY <1>2 DEF IInv, TypeOK, ObjectInv, Lifecycle, loopVars
  <2> QED BY <2>2, <2>3, <2>4 DEF LayoutOK
<1> QED BY <1>1, <1>2 DEF PanelCommitted

\* ivi_layout_init: no background or panel waits for an activation, and what
\* leaves the normal or the hidden layer here was in neither.
LEMMA LayoutInitOK ==
    ASSUME IInv, LayoutInit
    PROVE  /\ area' \in [Outputs -> Areas]
           /\ LayoutTypeOK'
           /\ ViewInv'
           /\ UNCHANGED pendingOutput
<1>1. \A o \in Outputs, e \in Slots : Thickness(o, e) \in Int
  BY DEF IInv, TypeOK, Thickness, DrawableSizes
<1>2. area' \in [Outputs -> Areas]
  <2>1. \A o \in Outputs : UsableArea(o) \in Areas
    BY <1>1, ConstantsAssumption DEF UsableArea, Areas, Slots
  <2> QED BY <2>1 DEF LayoutInit
<1>3. Backgrounds \subseteq Surfaces /\ Panels \subseteq Surfaces
  BY DEF IInv, TypeOK, Backgrounds, Panels, Occupants, Slots
<1>4. \A s \in Panels : anchor[s] \in Outputs \X Slots
  BY DEF IInv, TypeOK, ObjectInv, SlotsAgree, Panels, Occupants, Slots
<1>5. pos' \in [Surfaces -> Points]
  <2>1. \A s \in Panels : PanelPosition(anchor[s][1], anchor[s][2], geom[s]) \in Points
    BY <1>3, <1>4, PanelPositionType DEF IInv, TypeOK
  <2>2. Origin \in Points
    BY DEF Origin, Points
  <2> QED BY <2>1, <2>2 DEF LayoutInit, IInv, TypeOK
<1>6. LayoutTypeOK'
  BY <1>3, <1>5 DEF LayoutInit, IInv, TypeOK, LayoutTypeOK, ShownAtReady, Layers
<1>7. MappedIffInLayer'
  BY <1>3 DEF LayoutInit, IInv, TypeOK, ViewInv, MappedIffInLayer, ShownAtReady
<1>8. NoOrphanOnScreen' /\ HiddenOnlyWhilePending' /\ NeverReplacesItself'
  BY DEF LayoutInit, IInv, TypeOK, ViewInv, NoOrphanOnScreen, HiddenOnlyWhilePending,
         NeverReplacesItself
<1> QED BY <1>2, <1>6, <1>7, <1>8 DEF LayoutInit, ViewInv

-----------------------------------------------------------------------------
\* The events of Desktop

\* An event that ends in a handler of Layout, and changes no list, slot or role.
LEMMA LayoutStep ==
    ASSUME IInv, LayoutOK,
           UNCHANGED <<shellVars, listVars, slotVars, objectVars, bare, toplevels>>,
           geom' \in [Surfaces -> DrawableSizes], maximized' \in [Surfaces -> BOOLEAN]
    PROVE  IInv'
<1> USE DEF IInv, LayoutOK, shellVars, listVars, slotVars, objectVars
<1>1. TypeOK'
  BY DEF TypeOK, LayoutTypeOK
<1>2. BlackUntilReady'
  BY DEF BlackUntilReady
<1>3. SlotsAgree'
  BY DEF ObjectInv, SlotsAgree
<1>4. ListsMatchRoles'
  BY DEF ObjectInv, ListsMatchRoles
<1>5. Lifecycle'
  BY DEF ObjectInv, Lifecycle, LiveHaveStructs
<1> QED BY <1>1, <1>2, <1>3, <1>4, <1>5 DEF ObjectInv

\* An event that changes no view: ViewInv is about the views alone.
LEMMA ViewUnchanged ==
    ASSUME ViewInv, UNCHANGED layoutVars
    PROVE  ViewInv'
BY DEF ViewInv, layoutVars, MappedIffInLayer, NoOrphanOnScreen, HiddenOnlyWhilePending,
       NeverReplacesItself

\* A handler that changes nothing but where the process failed.
LEMMA CrashStep ==
    ASSUME IInv, NEW f \in Faults, Crash(f),
           UNCHANGED <<shellVars, listVars, slotVars, objectVars, layoutVars, clientVars>>
    PROVE  IInv'
BY LayoutCrash, LayoutStep DEF IInv, TypeOK, clientVars

LEMMA ToplevelCreatedStep ==
    ASSUME IInv, NEW s \in Surfaces, ToplevelCreated(s) \/ ToplevelWithdrawn(s)
    PROVE  IInv'
<1> USE DEF IInv, ToplevelCreated, ToplevelWithdrawn, shellVars, listVars, slotVars,
            objectVars, loopVars
<1>1. TypeOK'
  BY DEF TypeOK, layoutVars
<1>2. SlotsAgree'
  BY DEF ObjectInv, SlotsAgree
<1>3. BlackUntilReady' /\ ListsMatchRoles'
  BY DEF BlackUntilReady, ObjectInv, ListsMatchRoles
<1>4. Lifecycle'
  BY DEF ObjectInv, Lifecycle, LiveHaveStructs, layoutVars
<1> QED BY <1>1, <1>2, <1>3, <1>4, ViewUnchanged DEF ObjectInv

\* A new struct: none of the slots and lists holds its address, for they only
\* hold structs that exist.
LEMMA SurfaceAddedStep ==
    ASSUME IInv, NEW s \in Surfaces, SurfaceAdded(s)
    PROVE  IInv'
<1> USE DEF IInv, SurfaceAdded, Announced, Enlist, shellVars, slotVars
<1>1. TypeOK'
  BY DEF TypeOK, layoutVars, Roles
<1>2. BlackUntilReady'
  BY DEF BlackUntilReady
<1>3. s \notin allocated /\ role[s] = "none"
  BY DEF ObjectInv, Lifecycle, LiveHaveStructs
<1>4. SlotsAgree'
  BY <1>3 DEF TypeOK, ObjectInv, SlotsAgree
<1>5. ListsMatchRoles'
  BY <1>3 DEF TypeOK, ObjectInv, ListsMatchRoles
<1>6. Lifecycle'
  BY <1>3 DEF TypeOK, ObjectInv, Lifecycle, LiveHaveStructs, layoutVars
<1> QED BY <1>1, <1>2, <1>4, <1>5, <1>6, ViewUnchanged DEF ObjectInv

LEMMA SurfaceAddedNoMemoryStep ==
    ASSUME IInv, NEW s \in Surfaces, SurfaceAddedNoMemory(s)
    PROVE  IInv'
<1> USE DEF IInv, SurfaceAddedNoMemory, Announced, Post, shellVars, listVars, slotVars,
            objectVars
<1>1. TypeOK'
  BY ConstantsAssumption DEF TypeOK, layoutVars, Errors
<1>2. SlotsAgree'
  BY DEF ObjectInv, SlotsAgree
<1>3. BlackUntilReady' /\ ListsMatchRoles'
  BY DEF BlackUntilReady, ObjectInv, ListsMatchRoles
<1>4. Lifecycle'
  BY ConstantsAssumption DEF TypeOK, ObjectInv, Lifecycle, LiveHaveStructs, layoutVars, Running
<1> QED BY <1>1, <1>2, <1>3, <1>4, ViewUnchanged DEF ObjectInv

\* A view that leaves its layer keeps its flag in step; that an application was
\* shown by an output is then no longer true of any output.
LEMMA RemoveDesktopStep ==
    ASSUME IInv, NEW s \in Surfaces, s \in toplevels, role[s] = "desktop", RemoveDesktop(s)
    PROVE  IInv'
<1> USE DEF IInv, RemoveDesktop, ToplevelGone, FreeDesktopSurface, Unmap, shellVars, slotVars,
            loopVars
<1>1. TypeOK'
  <2>1. NoSize \in DrawableSizes /\ Origin \in Points
    BY DEF NoSize, Origin, DrawableSizes, Points
  <2> QED BY <2>1 DEF TypeOK, Roles, Layers
<1>2. BlackUntilReady'
  BY DEF BlackUntilReady
<1>3. SlotsAgree'
  BY DEF TypeOK, ObjectInv, SlotsAgree
<1>4. ListsMatchRoles'
  BY DEF TypeOK, ObjectInv, ListsMatchRoles
<1>5. Lifecycle'
  BY DEF TypeOK, ObjectInv, Lifecycle, LiveHaveStructs
<1>6. MappedIffInLayer'
  BY DEF TypeOK, ViewInv, MappedIffInLayer
<1>7. NoOrphanOnScreen'
  BY DEF TypeOK, ViewInv, NoOrphanOnScreen
<1>8. HiddenOnlyWhilePending'
  BY DEF TypeOK, ViewInv, HiddenOnlyWhilePending
<1>9. NeverReplacesItself'
  BY ConstantsAssumption DEF TypeOK, ViewInv, NeverReplacesItself
<1> QED BY <1>1, <1>2, <1>3, <1>4, <1>5, <1>6, <1>7, <1>8, <1>9 DEF ObjectInv, ViewInv

\* The early return: what is left is a struct whose toplevel is gone.
LEMMA RemoveOtherStep ==
    ASSUME IInv, NEW s \in Surfaces, s \in toplevels, RemoveOther(s)
    PROVE  IInv'
<1> USE DEF IInv, RemoveOther, ToplevelGone, Unmap, shellVars, listVars, slotVars, objectVars,
            loopVars
<1>1. TypeOK'
  <2>1. NoSize \in DrawableSizes /\ Origin \in Points
    BY DEF NoSize, Origin, DrawableSizes, Points
  <2> QED BY <2>1 DEF TypeOK, Layers
<1>2. SlotsAgree'
  BY DEF ObjectInv, SlotsAgree
<1>3. BlackUntilReady' /\ ListsMatchRoles'
  BY DEF BlackUntilReady, ObjectInv, ListsMatchRoles
<1>4. Lifecycle'
  BY DEF ObjectInv, Lifecycle, LiveHaveStructs
<1>5. ViewInv'
  BY DEF TypeOK, ViewInv, MappedIffInLayer, NoOrphanOnScreen, HiddenOnlyWhilePending,
         NeverReplacesItself
<1> QED BY <1>1, <1>2, <1>3, <1>4, <1>5 DEF ObjectInv

LEMMA SurfaceRemovedStep ==
    ASSUME IInv, NEW s \in Surfaces, SurfaceRemoved(s)
    PROVE  IInv'
<1>1. CASE RemoveFails(s)
  BY <1>1, CrashStep DEF RemoveFails, Faults
<1> QED BY <1>1, RemoveDesktopStep, RemoveOtherStep DEF SurfaceRemoved

LEMMA CommittedStep ==
    ASSUME IInv, NEW s \in Surfaces, Committed(s)
    PROVE  IInv'
<1>1. PICK g \in CommitSizes(s), m \in BOOLEAN : Commit(s, g, m)
  BY DEF Committed
<1>2. g \in DrawableSizes
  <2>1. CASE g \in FreeSizes[s] \/ g = geom[s]
    BY <2>1, ConstantsAssumption DEF IInv, TypeOK
  <2>2. CASE conf[s] # NULL /\ conf[s].w > 0 /\ conf[s].h > 0 /\ g = conf[s]
    <3>1. g \in Sizes
      BY <2>2 DEF IInv, TypeOK
    <3>2. g.w \in Nat /\ g.h \in Nat
      BY <2>2, <3>1 DEF Sizes
    <3> QED BY <3>1, <3>2 DEF Sizes, DrawableSizes
  <2> QED BY <1>1, <2>1, <2>2 DEF Commit, LegalCommit
<1>3. /\ geom' \in [Surfaces -> DrawableSizes] /\ geom'[s] \in DrawableSizes
      /\ maximized' \in [Surfaces -> BOOLEAN]
  BY <1>1, <1>2 DEF Commit, IInv, TypeOK
<1>4. LayoutOK
  BY <1>1, <1>3, DesktopCommittedOK, PanelCommittedOK, LayoutNothing DEF Commit
<1> QED BY <1>1, <1>3, <1>4, LayoutStep DEF Commit

-----------------------------------------------------------------------------
\* The events of Shell

\* No slot is taken while no shell client is bound, so binding one makes no
\* surface another client's.
LEMMA BindStep ==
    ASSUME IInv, NEW c \in Clients, Bind(c) \/ Disconnect(c)
    PROVE  IInv'
<1> USE DEF IInv, Bind, BindRefused, BindNoMemory, Disconnect, Post, shellVars, listVars,
            slotVars, objectVars, clientVars, loopVars
<1>1. TypeOK'
  BY DEF TypeOK, layoutVars, Errors
<1>2. SlotsAgree'
  BY ConstantsAssumption DEF TypeOK, ObjectInv, SlotsAgree
<1>3. BlackUntilReady' /\ ListsMatchRoles'
  BY ConstantsAssumption DEF BlackUntilReady, ObjectInv, ListsMatchRoles
<1>4. Lifecycle'
  BY ConstantsAssumption DEF TypeOK, ObjectInv, Lifecycle, LiveHaveStructs, layoutVars, Running
<1> QED BY <1>1, <1>2, <1>3, <1>4, ViewUnchanged DEF ObjectInv

\* A surface with no role takes a free slot and becomes the shell's.
LEMMA OccupyStep ==
    ASSUME IInv, NEW o \in Outputs, NEW k \in Slots, NEW s \in Surfaces,
           Owner[s] = resource, Vacant(o, k, s), s \in allocated,
           role' = [role EXCEPT ![s] = IF k = "background" THEN "background" ELSE "panel"],
           Occupy(o, k, s), conf' \in [Surfaces -> Sizes \cup {NULL}],
           UNCHANGED <<shellVars, clientVars, active, pendingOutput, lastOutput, mapped, layer, pos>>
    PROVE  IInv'
<1> USE DEF IInv, Vacant, Occupy, shellVars, clientVars, loopVars
<1>1. TypeOK'
  <2>1. slot' \in [Outputs -> [Slots -> Surfaces \cup {NULL}]]
    BY DEF TypeOK
  <2>2. anchor' \in [Surfaces -> (Outputs \X Slots) \cup {NULL}]
    BY DEF TypeOK
  <2>3. role' \in [Surfaces -> Roles]
    BY DEF TypeOK, Roles
  <2> QED BY <2>1, <2>2, <2>3 DEF TypeOK
<1>2. BlackUntilReady'
  BY DEF BlackUntilReady
<1>3. SlotsAgree'
  <2>1. anchor[s] = NULL
    <3>1. SUFFICES ASSUME anchor[s] # NULL  PROVE FALSE
      OBVIOUS
    <3>2. anchor[s][1] \in Outputs /\ anchor[s][2] \in Slots
      BY <3>1 DEF TypeOK
    <3>3. slot[anchor[s][1]][anchor[s][2]] = s /\ s # NULL
      BY <3>1, ConstantsAssumption DEF ObjectInv, SlotsAgree
    <3> QED BY <3>2, <3>3 DEF ObjectInv, SlotsAgree
  <2>2. \A p \in Outputs, j \in Slots : slot[p][j] # s
    BY <2>1, ConstantsAssumption DEF TypeOK, ObjectInv, SlotsAgree
  <2>3. \A p \in Outputs, j \in Slots :
           slot'[p][j] = IF p = o /\ j = k THEN s ELSE slot[p][j]
    BY DEF TypeOK
  <2>4. anchor'[s] = <<o, k>> /\ \A t \in Surfaces : t # s => anchor'[t] = anchor[t]
    BY DEF TypeOK
  <2>5. \A t \in Surfaces : anchor[t] # NULL => anchor[t] \in Outputs \X Slots
    BY DEF TypeOK
  <2>6. ASSUME NEW p \in Outputs, NEW j \in Slots, slot'[p][j] # NULL
        PROVE  /\ slot'[p][j] \in allocated' /\ Owner[slot'[p][j]] = resource'
               /\ anchor'[slot'[p][j]] = <<p, j>>
               /\ role'[slot'[p][j]] = IF j = "background" THEN "background" ELSE "panel"
    <3>1. CASE p = o /\ j = k
      BY <2>3, <2>4, <3>1 DEF TypeOK
    <3>2. CASE ~(p = o /\ j = k)
      <4>1. slot'[p][j] = slot[p][j] /\ slot[p][j] # s /\ slot[p][j] \in Surfaces
        BY <2>2, <2>3, <2>6, <3>2 DEF TypeOK
      <4> QED BY <2>4, <2>6, <4>1 DEF TypeOK, ObjectInv, SlotsAgree
    <3> QED BY <3>1, <3>2
  <2>7. ASSUME NEW t \in Surfaces, anchor'[t] # NULL
        PROVE  slot'[anchor'[t][1]][anchor'[t][2]] = t
    <3>1. CASE t = s
      BY <2>3, <2>4, <3>1
    <3>2. CASE t # s
      <4>1. anchor'[t] = anchor[t] /\ anchor[t] \in Outputs \X Slots
            /\ slot[anchor[t][1]][anchor[t][2]] = t
        BY <2>4, <2>5, <2>7, <3>2 DEF ObjectInv, SlotsAgree
      <4>2. ~(anchor[t][1] = o /\ anchor[t][2] = k)
        BY <4>1, ConstantsAssumption
      <4> QED BY <2>3, <4>1, <4>2
    <3> QED BY <3>1, <3>2
  <2>8. \A t \in Surfaces : role'[t] \in {"background", "panel"} => anchor'[t] # NULL
    BY <2>4, ConstantsAssumption DEF TypeOK, ObjectInv, SlotsAgree
  <2> QED BY <2>6, <2>7, <2>8 DEF SlotsAgree
<1>4. ListsMatchRoles'
  BY DEF TypeOK, ObjectInv, ListsMatchRoles
<1>5. Lifecycle'
  BY DEF TypeOK, ObjectInv, Lifecycle, LiveHaveStructs
<1>6. ViewInv'
  BY DEF ViewInv, MappedIffInLayer, NoOrphanOnScreen, HiddenOnlyWhilePending,
         NeverReplacesItself
<1> QED BY <1>1, <1>2, <1>3, <1>4, <1>5, <1>6 DEF ObjectInv

\* A request that is refused takes its client down and changes nothing else.
LEMMA RefusedStep ==
    ASSUME IInv, NEW request \in {"set_background", "set_panel"},
           NEW code \in {"invalid_argument", "background_exists"},
           resource # NULL, dying = NULL, Refused(request, code),
           UNCHANGED <<shellVars, clientVars, layoutVars>>
    PROVE  IInv'
<1> USE DEF IInv, Refused, Post, shellVars, slotVars, listVars, objectVars, clientVars
<1>1. TypeOK'
  BY DEF TypeOK, layoutVars, Errors
<1>2. SlotsAgree'
  BY DEF ObjectInv, SlotsAgree
<1>3. BlackUntilReady' /\ ListsMatchRoles'
  BY DEF BlackUntilReady, ObjectInv, ListsMatchRoles
<1>4. Lifecycle'
  BY ConstantsAssumption DEF TypeOK, ObjectInv, Lifecycle, LiveHaveStructs, layoutVars
<1> QED BY <1>1, <1>2, <1>3, <1>4, ViewUnchanged DEF ObjectInv

\* The surface that takes a slot has a struct: its client is not being
\* destroyed.
LEMMA SetBackgroundStep ==
    ASSUME IInv, NEW o \in Outputs, NEW s \in Surfaces, SetBackground(o, s)
    PROVE  IInv'
<1>1. resource # NULL /\ dying = NULL /\ UNCHANGED <<shellVars, clientVars>>
      /\ UNCHANGED <<active, pendingOutput, lastOutput, mapped, layer, pos>>
  BY DEF SetBackground, Request, Running
<1>2. CASE /\ Crash("shell_set_background")
           /\ UNCHANGED <<slotVars, listVars, objectVars, conf>>
  BY <1>1, <1>2, CrashStep DEF Faults, layoutVars
<1>3. CASE \E code \in {"invalid_argument", "background_exists"} :
              Refused("set_background", code) /\ UNCHANGED conf
  BY <1>1, <1>3, RefusedStep DEF layoutVars
<1>4. CASE /\ Vacant(o, "background", s)
           /\ role' = [role EXCEPT ![s] = "background"]
           /\ Occupy(o, "background", s)
           /\ conf' = [conf EXCEPT ![s] = [w |-> Width[o], h |-> Height[o]]]
  <2>1. s \in allocated
    BY <1>1, <1>4, ConstantsAssumption DEF Vacant, IInv, ObjectInv, Lifecycle, LiveHaveStructs
  <2>2. conf' \in [Surfaces -> Sizes \cup {NULL}]
    BY <1>4, ConstantsAssumption DEF IInv, TypeOK, Sizes
  <2> QED BY <1>1, <1>4, <2>1, <2>2, OccupyStep DEF SetBackground, Slots
<1> QED BY <1>2, <1>3, <1>4 DEF SetBackground

LEMMA SetPanelStep ==
    ASSUME IInv, NEW o \in Outputs, NEW e \in Edges, NEW s \in Surfaces, SetPanel(o, e, s)
    PROVE  IInv'
<1>1. resource # NULL /\ dying = NULL /\ UNCHANGED <<shellVars, clientVars, layoutVars>>
  BY DEF SetPanel, Request, Running
<1>2. CASE Crash("shell_set_panel") /\ UNCHANGED <<slotVars, listVars, objectVars>>
  BY <1>1, <1>2, CrashStep DEF Faults
<1>3. CASE \E code \in {"invalid_argument", "background_exists"} : Refused("set_panel", code)
  BY <1>1, <1>3, RefusedStep
<1>4. CASE /\ Vacant(o, e, s)
           /\ role' = [role EXCEPT ![s] = "panel"]
           /\ Occupy(o, e, s)
  <2>1. s \in allocated
    BY <1>1, <1>4, ConstantsAssumption DEF Vacant, IInv, ObjectInv, Lifecycle, LiveHaveStructs
  <2>2. e \in Slots /\ e # "background"
    BY ConstantsAssumption DEF Slots
  <2>3. conf' \in [Surfaces -> Sizes \cup {NULL}]
    BY <1>1 DEF IInv, TypeOK, layoutVars
  <2> QED BY <1>1, <1>4, <2>1, <2>2, <2>3, OccupyStep DEF SetPanel, layoutVars
<1> QED BY <1>2, <1>3, <1>4 DEF SetPanel

LEMMA SetPanelNowhereStep ==
    ASSUME IInv, NEW s \in Surfaces, SetPanelNowhere(s)
    PROVE  IInv'
<1>1. resource # NULL /\ dying = NULL /\ UNCHANGED <<shellVars, clientVars, layoutVars>>
  BY DEF SetPanelNowhere, Request, Running
<1>2. CASE Crash("shell_set_panel") /\ UNCHANGED <<slotVars, listVars, objectVars>>
  BY <1>1, <1>2, CrashStep DEF Faults
<1>3. CASE Refused("set_panel", "invalid_argument")
  BY <1>1, <1>3, RefusedStep
<1> QED BY <1>2, <1>3 DEF SetPanelNowhere

\* Every struct that waited becomes an application and is in one list.
LEMMA ReadyStep ==
    ASSUME IInv, Ready
    PROVE  IInv'
<1>1. CASE UNCHANGED vars
  BY <1>1, CrashStep, LayoutNothing, LayoutStep
  DEF IInv, TypeOK, vars, shellVars, listVars, slotVars, objectVars, clientVars
<1>2. CASE /\ Crash("ivi_layout_init")
           /\ UNCHANGED <<shellVars, listVars, slotVars, objectVars, layoutVars, clientVars>>
  BY <1>2, CrashStep DEF Faults
<1>3. CASE /\ ~ready
           /\ ready' = TRUE
           /\ black' = [o \in Outputs |-> FALSE]
           /\ LayoutInit
           /\ PromotePending
           /\ UNCHANGED <<resource, slot, anchor, allocated, clientVars, loopVars>>
  <2> USE <1>3 DEF IInv, PromotePending, clientVars, loopVars
  <2>1. area' \in [Outputs -> Areas] /\ LayoutTypeOK' /\ ViewInv' /\ UNCHANGED pendingOutput
    BY LayoutInitOK
  <2>2. TypeOK'
    BY <2>1 DEF TypeOK, LayoutTypeOK, Roles
  <2>3. BlackUntilReady'
    BY DEF BlackUntilReady
  <2>4. \A s \in pending : s \in Surfaces /\ s \in allocated /\ role[s] = "none"
    BY DEF TypeOK, ObjectInv, ListsMatchRoles
  <2>5. SlotsAgree'
    BY <2>4 DEF TypeOK, ObjectInv, SlotsAgree
  <2>6. ListsMatchRoles'
    BY <2>4 DEF TypeOK, ObjectInv, ListsMatchRoles, Ready, Request
  <2>7. Lifecycle'
    BY <2>1, <2>4 DEF TypeOK, ObjectInv, Lifecycle, LiveHaveStructs
  <2> QED BY <2>1, <2>2, <2>3, <2>5, <2>6, <2>7 DEF ObjectInv
<1> QED BY <1>1, <1>2, <1>3 DEF Ready

LEMMA ActivateAppStep ==
    ASSUME IInv, NEW o \in Outputs, NEW a \in AppIds, ActivateApp(o, a)
    PROVE  IInv'
BY ActivateOK, LayoutStep DEF ActivateApp, clientVars, IInv, TypeOK

\* The structs that are freed are those of the client being destroyed, once
\* each, and none of them is in a list.
LEMMA UnbindStep ==
    ASSUME IInv, Unbind
    PROVE  IInv'
<1>1. CASE /\ Crash("unbind_agl_shell")
           /\ UNCHANGED <<shellVars, listVars, slotVars, objectVars, layoutVars>>
  BY <1>1, CrashStep DEF Faults, Unbind
<1>2. CASE /\ FreeOccupants /\ TakeOffScreen /\ ResetShell
           /\ surfaces' = {} /\ pending' = {}
           /\ UNCHANGED loopVars
  <2> USE <1>2 DEF IInv, FreeOccupants, TakeOffScreen, ResetShell, loopVars
  <2>1. UNCHANGED clientVars /\ dying = resource /\ resource # NULL
    BY DEF Unbind, Unbinds
  <2>2. \A s \in Freed : /\ s \in allocated /\ Owner[s] = resource
                         /\ role[s] \in {"background", "panel"}
    BY DEF TypeOK, ObjectInv, SlotsAgree, Freed
  <2>3. TypeOK'
    BY <2>1 DEF TypeOK, clientVars, Roles, Layers
  <2>4. BlackUntilReady'
    BY DEF BlackUntilReady
  <2>5. \A s \in Surfaces : role[s] \in {"background", "panel"} \/ anchor[s] # NULL => s \in Freed
    <3>1. ASSUME NEW s \in Surfaces, anchor[s] # NULL
          PROVE  s \in Freed
      <4>1. anchor[s][1] \in Outputs /\ anchor[s][2] \in Slots
        BY <3>1 DEF TypeOK
      <4>2. slot[anchor[s][1]][anchor[s][2]] = s /\ s # NULL
        BY <3>1, ConstantsAssumption DEF ObjectInv, SlotsAgree
      <4> QED BY <4>1, <4>2 DEF Freed
    <3> QED BY <3>1 DEF ObjectInv, SlotsAgree
  <2>6. SlotsAgree'
    BY <2>5 DEF TypeOK, ObjectInv, SlotsAgree
  <2>7. ListsMatchRoles'
    BY DEF ListsMatchRoles
  <2>8. Lifecycle'
    BY <2>1, <2>2 DEF TypeOK, ObjectInv, Lifecycle, LiveHaveStructs, clientVars
  <2>9. ViewInv'
    <3>1. MappedIffInLayer'
      BY DEF TypeOK, ViewInv, MappedIffInLayer, Shown
    <3>2. NoOrphanOnScreen'
      BY ConstantsAssumption DEF TypeOK, ViewInv, NoOrphanOnScreen, Shown
    <3>3. HiddenOnlyWhilePending' /\ NeverReplacesItself'
      BY ConstantsAssumption DEF TypeOK, ViewInv, HiddenOnlyWhilePending, NeverReplacesItself
    <3> QED BY <3>1, <3>2, <3>3 DEF ViewInv
  <2> QED BY <2>3, <2>4, <2>6, <2>7, <2>8, <2>9 DEF ObjectInv
<1> QED BY <1>1, <1>2 DEF Unbind

LEMMA ReapedStep ==
    ASSUME IInv, Reaped
    PROVE  IInv'
<1> USE DEF IInv, Reaped, shellVars, listVars, slotVars, objectVars, clientVars
<1>1. TypeOK'
  BY DEF TypeOK, layoutVars
<1>2. SlotsAgree'
  BY DEF ObjectInv, SlotsAgree
<1>3. BlackUntilReady' /\ ListsMatchRoles'
  BY DEF BlackUntilReady, ObjectInv, ListsMatchRoles
<1>4. Lifecycle'
  BY DEF ObjectInv, Lifecycle, LiveHaveStructs, layoutVars
<1> QED BY <1>1, <1>2, <1>3, <1>4, ViewUnchanged DEF ObjectInv

-----------------------------------------------------------------------------
\* The invariants of the specification

LEMMA InitIInv == Init => IInv
<1> SUFFICES ASSUME Init PROVE IInv
  OBVIOUS
<1>1. TypeOK
  <2>1. /\ NoSize \in DrawableSizes /\ Origin \in Points
        /\ [x |-> 0, y |-> 0, w |-> 0, h |-> 0] \in Areas
    BY DEF NoSize, DrawableSizes, Origin, Points, Areas
  <2>2. slot \in [Outputs -> [Slots -> Surfaces \cup {NULL}]]
    BY DEF Init
  <2> QED BY <2>1, <2>2 DEF Init, TypeOK, Roles, Layers, Faults
<1>2. BlackUntilReady /\ ObjectInv /\ ViewInv
  BY ConstantsAssumption
  DEF Init, BlackUntilReady, ObjectInv, SlotsAgree, ListsMatchRoles, Lifecycle,
      LiveHaveStructs, ViewInv, MappedIffInLayer, NoOrphanOnScreen, HiddenOnlyWhilePending,
      NeverReplacesItself
<1> QED BY <1>1, <1>2 DEF IInv

LEMMA NextIInv == IInv /\ [Next]_vars => IInv'
<1> SUFFICES ASSUME IInv, [Next]_vars PROVE IInv'
  OBVIOUS
<1>1. CASE DesktopNext
  BY <1>1, ToplevelCreatedStep, SurfaceAddedStep, SurfaceAddedNoMemoryStep,
     SurfaceRemovedStep, CommittedStep DEF DesktopNext
<1>2. CASE ShellNext
  BY <1>2, BindStep, SetBackgroundStep, SetPanelStep, SetPanelNowhereStep, ActivateAppStep,
     ReadyStep, UnbindStep, ReapedStep DEF ShellNext
<1>3. CASE UNCHANGED vars
  BY <1>3, LayoutNothing, LayoutStep
  DEF IInv, TypeOK, vars, shellVars, listVars, slotVars, objectVars, clientVars
<1> QED BY <1>1, <1>2, <1>3 DEF Next

\* The inductive invariant holds throughout.
THEOREM Inductive == Spec => []IInv
BY InitIInv, NextIInv, PTL DEF Spec

\* Every variable has its type whatever clients do; so each pointer the code
\* keeps is null or the address of a struct (src/ivi-compositor.h:41-184).
THEOREM TypeCorrect == Spec => []TypeOK
<1>1. IInv => TypeOK
  BY DEF IInv
<1> QED BY <1>1, Inductive, PTL

\* The black surfaces are mapped exactly while the shell client is not ready,
\* through every restart of it: the assertion of remove_black_surface
\* (shell.c:237) never fails.
THEOREM BlackUntilReadyHolds == Spec => []BlackUntilReady
<1>1. IInv => BlackUntilReady
  BY DEF IInv
<1> QED BY <1>1, Inductive, PTL

\* Slots, roles and anchors agree: unbind_agl_shell frees a struct at most once
\* (shell.c:451-464).
THEOREM SlotsAgreeHolds == Spec => []SlotsAgree
<1>1. IInv => SlotsAgree
  BY DEF IInv, ObjectInv
<1> QED BY <1>1, Inductive, PTL

\* The struct in a list exists and has the role the list is for: what is freed
\* was taken out, and ivi_set_desktop_surface's assertion holds (shell.c:52).
THEOREM ListsMatchRolesHolds == Spec => []ListsMatchRoles
<1>1. IInv => ListsMatchRoles
  BY DEF IInv, ObjectInv
<1> QED BY <1>1, Inductive, PTL

\* Only the destruction of its client can find a toplevel without a struct
\* (desktop.c:132; shell.c:313, 365).
THEOREM LiveHaveStructsHolds == Spec => []LiveHaveStructs
<1>1. IInv => LiveHaveStructs
  BY DEF IInv, ObjectInv, Lifecycle
<1> QED BY <1>1, Inductive, PTL

\* A view is linked into a layer exactly when it is flagged as mapped, so no
\* list of views is ever corrupted by linking a view twice (layout.c:190, 379).
THEOREM MappedIffInLayerHolds == Spec => []MappedIffInLayer
<1>1. IInv => MappedIffInLayer
  BY DEF IInv, ViewInv
<1> QED BY <1>1, Inductive, PTL

\* No application stays on screen with no output pointing to it
\* (layout.c:202-216).
THEOREM NoOrphanOnScreenHolds == Spec => []NoOrphanOnScreen
<1>1. IInv => NoOrphanOnScreen
  BY DEF IInv, ViewInv
<1> QED BY <1>1, Inductive, PTL

\* No view stays in the hidden layer with no activation waiting
\* (layout.c:374-389).
THEOREM HiddenOnlyWhilePendingHolds == Spec => []HiddenOnlyWhilePending
<1>1. IInv => HiddenOnlyWhilePending
  BY DEF IInv, ViewInv
<1> QED BY <1>1, Inductive, PTL

\* An activation never waits on the output that shows the surface already
\* (layout.c:202-216, 355).
THEOREM NeverReplacesItselfHolds == Spec => []NeverReplacesItself
<1>1. IInv => NeverReplacesItself
  BY DEF IInv, ViewInv
<1> QED BY <1>1, Inductive, PTL

-----------------------------------------------------------------------------
\* What a step may never do

\* The body of NeverShownMisfit, without its enclosing box.
ShownFits ==
    \A s \in Surfaces : layer'[s] = "normal" /\ layer[s] # "normal" =>
        /\ maximized'[s]
        /\ \E o \in Outputs : active'[o] = s /\ geom'[s] = AreaSize(o)

\* Only the surface that is activated enters the normal layer.
LEMMA ActivateCompleteFits ==
    ASSUME TypeOK, NEW o \in Outputs, NEW s \in Surfaces, Fits(o, s), ActivateComplete(o, s)
    PROVE  ShownFits
BY DEF TypeOK, ActivateComplete, Replace, ShownFits, Fits, layoutVars

LEMMA ActivateFits ==
    ASSUME IInv, NEW o \in Outputs, NEW a, Activate(o, a)
    PROVE  ShownFits
<1>1. CASE UNCHANGED layoutVars
  BY <1>1 DEF ShownFits, layoutVars
<1>2. ASSUME NEW s \in Matches(a), ActivateFound(o, s)
      PROVE  ShownFits
  <2>1. s \in Surfaces
    BY DEF Matches, IInv, TypeOK
  <2>2. CASE Fits(o, s) /\ ActivateComplete(o, s)
    BY <2>1, <2>2, ActivateCompleteFits DEF IInv
  <2>3. CASE Configure(o, s)
    BY <2>1, <2>3 DEF IInv, TypeOK, Configure, KeepDrawing, ShownFits
  <2> QED BY <1>1, <1>2, <2>2, <2>3 DEF ActivateFound
<1> QED BY <1>1, <1>2 DEF Activate

LEMMA CommitFits ==
    ASSUME IInv, NEW s \in Surfaces, Committed(s)
    PROVE  ShownFits
<1>1. PICK g \in CommitSizes(s), m \in BOOLEAN : Commit(s, g, m)
  BY DEF Committed
<1>2. CASE UNCHANGED layoutVars
  BY <1>2 DEF ShownFits, layoutVars
<1>3. CASE PanelCommitted(s)
  BY <1>2, <1>3 DEF PanelCommitted, IInv, TypeOK, ShownFits
<1>4. CASE DesktopCommitted(s)
  <2>1. CASE ActivateByDefault(s)
    BY <1>2, <2>1, ActivateFits DEF ActivateByDefault, BackgroundOutputs
  <2>2. CASE /\ pendingOutput[s] # NULL /\ Fits(pendingOutput[s], s)
             /\ ActivateComplete(pendingOutput[s], s)
    BY <2>2, ActivateCompleteFits DEF IInv, TypeOK
  <2> QED BY <1>2, <1>4, <2>1, <2>2 DEF DesktopCommitted
<1> QED BY <1>1, <1>2, <1>3, <1>4 DEF Commit

\* Every other event takes views out of the normal layer or leaves them there.
LEMMA NextFits == IInv /\ [Next]_vars => ShownFits
<1> SUFFICES ASSUME IInv, [Next]_vars PROVE ShownFits
  OBVIOUS
<1>1. CASE UNCHANGED layoutVars
  BY <1>1 DEF ShownFits, layoutVars
<1>2. ASSUME NEW s \in Surfaces, SurfaceRemoved(s)
      PROVE  ShownFits
  BY <1>1, <1>2 DEF SurfaceRemoved, RemoveFails, RemoveDesktop, RemoveOther, Unmap, ShownFits
<1>3. CASE DesktopNext
  BY <1>1, <1>2, <1>3, CommitFits
  DEF DesktopNext, ToplevelCreated, ToplevelWithdrawn, SurfaceAdded, SurfaceAddedNoMemory,
      Announced
<1>4. ASSUME NEW o \in Outputs, NEW s \in Surfaces,
             SetBackground(o, s) \/ \E e \in Edges : SetPanel(o, e, s)
      PROVE  ShownFits
  BY <1>1, <1>4 DEF SetBackground, SetPanel, ShownFits
<1>5. CASE Ready
  BY <1>1, <1>5 DEF Ready, LayoutInit, ShownFits, vars
<1>6. CASE Unbind
  BY <1>1, <1>6 DEF Unbind, TakeOffScreen, ShownFits
<1>7. CASE ShellNext
  BY <1>1, <1>4, <1>5, <1>6, <1>7, ActivateFits
  DEF ShellNext, Bind, Disconnect, SetPanelNowhere, ActivateApp, Reaped
<1> QED BY <1>1, <1>3, <1>7 DEF Next, vars

\* No step puts an application on screen at another size than the usable area
\* of the output that shows it (layout.c:265-268, 362-364).
THEOREM NeverShownMisfitHolds == Spec => NeverShownMisfit
<1>1. IInv /\ [Next]_vars => [ShownFits]_vars
  BY NextFits
<1> QED BY <1>1, Inductive, PTL DEF Spec, NeverShownMisfit, ShownFits

\* The area ivi_layout_init leaves is beside every panel it has placed.
LEMMA LayoutInitClear ==
    ASSUME IInv, LayoutInit, UNCHANGED <<slot, geom>>,
           NEW o \in Outputs, NEW e \in Slots \ {"background"}
    PROVE  PanelClear(o, e)'
<1>1. SUFFICES ASSUME NEW s \in Surfaces, slot[o][e] = s
               PROVE  ~Overlap(o, s)'
  BY DEF PanelClear, IInv, TypeOK
<1>2. s # NULL /\ anchor[s] = <<o, e>> /\ role[s] = "panel"
  BY <1>1, ConstantsAssumption DEF IInv, ObjectInv, SlotsAgree
<1>3. s \in Panels /\ s \notin Backgrounds
  BY <1>1, <1>2 DEF Panels, Backgrounds, Occupants, Slots, IInv, TypeOK, ObjectInv, SlotsAgree
<1>4. pos'[s] = PanelPosition(o, e, geom[s]) /\ area'[o] = UsableArea(o)
  BY <1>2, <1>3 DEF LayoutInit
<1>5. \A k \in Slots : Thickness(o, k) \in Nat
  BY DEF IInv, TypeOK, Thickness, DrawableSizes
<1>6. geom[s].w \in Nat /\ geom[s].h \in Nat /\ Width[o] \in Nat /\ Height[o] \in Nat
  BY <1>2, ConstantsAssumption DEF IInv, TypeOK, DrawableSizes
<1>7. Thickness(o, e) = IF e \in {"top", "bottom"} THEN geom[s].h ELSE geom[s].w
  BY <1>1, <1>2 DEF Thickness
<1>8. geom'[s] = geom[s]
  OBVIOUS
<1>9. CASE e = "left"
  BY <1>4, <1>5, <1>6, <1>7, <1>8, <1>9 DEF Overlap, PanelPosition, UsableArea, Slots
<1>10. CASE e = "right"
  BY <1>4, <1>5, <1>6, <1>7, <1>8, <1>10 DEF Overlap, PanelPosition, UsableArea, Slots
<1>11. CASE e = "top"
  BY <1>4, <1>5, <1>6, <1>7, <1>8, <1>11 DEF Overlap, PanelPosition, UsableArea, Slots
<1>12. CASE e = "bottom"
  BY <1>4, <1>5, <1>6, <1>7, <1>8, <1>12 DEF Overlap, PanelPosition, UsableArea, Slots
<1> QED BY <1>9, <1>10, <1>11, <1>12 DEF Slots

\* When the shell becomes ready the usable area of each output is clear of its
\* panels, whatever their edges and sizes (layout.c:88-105; agl-shell.xml:85-86).
THEOREM ReadyReservesPanelsHolds == Spec => ReadyReservesPanels
<1> DEFINE Clear ==
      ~ready /\ ready' =>
          \A o \in Outputs, e \in Slots \ {"background"} : PanelClear(o, e)'
<1>1. IInv /\ [Next]_vars => [Clear]_vars
  <2> SUFFICES ASSUME IInv, Next, ~ready, ready'
               PROVE  \A o \in Outputs, e \in Slots \ {"background"} : PanelClear(o, e)'
    OBVIOUS
  <2>1. ~DesktopNext
    BY DEF DesktopNext, ToplevelCreated, ToplevelWithdrawn, SurfaceAdded, SurfaceAddedNoMemory,
           Announced, SurfaceRemoved, RemoveFails, RemoveDesktop, RemoveOther, Committed, Commit,
           shellVars
  <2>2. Ready
    BY <2>1 DEF Next, ShellNext, Bind, Disconnect, SetBackground, SetPanel, SetPanelNowhere,
                ActivateApp, Unbind, ResetShell, Reaped, shellVars
  <2>3. LayoutInit /\ UNCHANGED <<slot, geom>>
    BY <2>2 DEF Ready, vars, shellVars, clientVars
  <2> QED BY <2>3, LayoutInitClear
<1> QED BY <1>1, Inductive, PTL DEF Spec, ReadyReservesPanels

=============================================================================
