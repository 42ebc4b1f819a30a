----------------------------- MODULE SteadyProofs -----------------------------
(***************************************************************************)
(* What holds of IviCompositor as long as no client disconnects: for any   *)
(* surfaces, sizes and edges, the three invariants of the run "steady",    *)
(* each under the weakest of its conditions that it needs.                 *)
(***************************************************************************)
EXTENDS IviCompositorProofs

-----------------------------------------------------------------------------
(* Nothing that was delayed is lost.                                         *)

\* Nobody is being disconnected, and what has no role waits for one.
WaitInv ==
    /\ dying = NULL
    /\ \A s \in toplevels \cap allocated : role[s] = "none" => s \in pending

LEMMA WaitInit == Init => WaitInv
    BY DEF Init, WaitInv

LEMMA WaitDesktop ==
    ASSUME Mortal = {}, IInv, WaitInv, DesktopNext
    PROVE  WaitInv'
<1> PICK s \in Surfaces :
        \/ ToplevelCreated(s) \/ ToplevelWithdrawn(s)
        \/ SurfaceAdded(s) \/ SurfaceAddedNoMemory(s)
        \/ SurfaceRemoved(s) \/ Committed(s)
    BY DEF DesktopNext
<1> USE DEF WaitInv, Post
<1>1. CASE ToplevelCreated(s) \/ ToplevelWithdrawn(s)
    BY <1>1 DEF ToplevelCreated, ToplevelWithdrawn, loopVars, listVars, objectVars
<1>2. CASE SurfaceAdded(s)
    BY <1>2 DEF SurfaceAdded, Announced, Enlist, IInv, TypeOK
<1>3. CASE SurfaceAddedNoMemory(s)
    BY <1>3 DEF SurfaceAddedNoMemory
<1>4. CASE SurfaceRemoved(s)
    <2>1. CASE RemoveFails(s)
        BY <2>1 DEF RemoveFails, Crash, listVars, objectVars, clientVars
    <2>2. CASE RemoveDesktop(s)
        BY <2>2 DEF RemoveDesktop, ToplevelGone, FreeDesktopSurface, loopVars
    <2>3. CASE RemoveOther(s)
        BY <2>3 DEF RemoveOther, ToplevelGone, loopVars, listVars, objectVars
    <2> QED
        BY <1>4, <2>1, <2>2, <2>3 DEF SurfaceRemoved
<1>5. CASE Committed(s)
    <2>1. PICK g \in CommitSizes(s), m \in BOOLEAN : Commit(s, g, m)
        BY <1>5 DEF Committed
    <2>2. dying' = dying
        BY <2>1 DEF Commit, DesktopCommitted, PanelCommitted, ActivateByDefault, Activate,
            ActivateFound, ActivateComplete, Configure, Crash, loopVars
    <2> QED
        BY <2>1, <2>2 DEF Commit, listVars, objectVars
<1> QED
    BY <1>1, <1>2, <1>3, <1>4, <1>5

LEMMA WaitShell ==
    ASSUME Mortal = {}, IInv, WaitInv, ShellNext
    PROVE  WaitInv'
<1> USE DEF WaitInv, Post
<1>1. ASSUME NEW c \in Clients, Bind(c) \/ Disconnect(c) PROVE WaitInv'
    BY <1>1 DEF Bind, BindRefused, BindNoMemory, Disconnect, loopVars, listVars, objectVars,
        clientVars
<1>2. ASSUME NEW o \in Outputs, NEW s \in Surfaces, SetBackground(o, s) PROVE WaitInv'
    BY <1>2 DEF SetBackground, Crash, Refused, Occupy, IInv, TypeOK, loopVars, listVars,
        objectVars, clientVars
<1>3. ASSUME NEW o \in Outputs, NEW s \in Surfaces, NEW e \in Edges, SetPanel(o, e, s)
      PROVE  WaitInv'
    BY <1>3 DEF SetPanel, Crash, Refused, Occupy, IInv, TypeOK, loopVars, listVars,
        objectVars, clientVars
<1>7. ASSUME NEW s \in Surfaces, SetPanelNowhere(s) PROVE WaitInv'
    BY <1>7 DEF SetPanelNowhere, Crash, Refused, loopVars, listVars, objectVars, clientVars
<1>4. ASSUME NEW o \in Outputs, NEW a \in AppIds, ActivateApp(o, a) PROVE WaitInv'
    BY <1>4 DEF ActivateApp, Activate, ActivateFound, ActivateComplete, Configure, Crash,
        loopVars, listVars, objectVars, clientVars
<1>5. CASE Ready
    BY <1>5 DEF Ready, Crash, PromotePending, IInv, TypeOK, vars, loopVars, listVars,
        objectVars, clientVars
<1>6. CASE Unbind \/ Reaped
    BY <1>6 DEF Unbind, Unbinds, Reaped
<1> QED
    BY <1>1, <1>2, <1>3, <1>4, <1>5, <1>6, <1>7 DEF ShellNext

LEMMA WaitStep ==
    ASSUME Mortal = {}
    PROVE  IInv /\ WaitInv /\ [Next]_vars => WaitInv'
<1>1. ASSUME UNCHANGED vars, WaitInv PROVE WaitInv'
    BY <1>1 DEF WaitInv, vars, loopVars, listVars, objectVars, clientVars
<1> QED
    BY <1>1, WaitDesktop, WaitShell DEF Next

\* With no client that goes away, every toplevel has a role from the ready
\* request on: making the applications' surfaces was only delayed
\* (desktop.c:88-92; shell.c:286-289).
THEOREM DelayedNotLostHolds ==
    ASSUME Mortal = {}
    PROVE  Spec => []DelayedNotLost
<1>1. IInv /\ WaitInv => DelayedNotLost
    BY DEF IInv, ObjectInv, ListsMatchRoles, WaitInv, DelayedNotLost
<1>2. IInv /\ WaitInv /\ [Next]_vars => WaitInv'
    BY WaitStep
<1> QED
    BY <1>1, <1>2, WaitInit, Inductive, PTL DEF Spec

-----------------------------------------------------------------------------
(* What an output shows is on screen, and fills what the panels leave.       *)

OneOutput == \A o, p \in Outputs : o = p

ShownOn(o, s) ==
    /\ role[s] = "desktop"
    /\ s \in mapped /\ layer[s] = "normal"
    /\ pos[s] = [x |-> area[o].x, y |-> area[o].y]

FitsOn(o, s) == maximized[s] /\ geom[s] = AreaSize(o)

\* A client can be told no size but that of the area, which changes only while
\* there is no application.
SteadyInv ==
    /\ dying = NULL
    /\ ~ready => \A s \in Surfaces : role[s] # "desktop"
    /\ \A s \in Surfaces : role[s] = "none" => conf[s] = NULL
    /\ \A s \in Surfaces, o \in Outputs : role[s] = "desktop" => conf[s] \in {NULL, AreaSize(o)}
    /\ \A o \in Outputs : active[o] # NULL => ShownOn(o, active[o]) /\ FitsOn(o, active[o])

LEMMA SteadyInit == Init => SteadyInv
    BY DEF Init, SteadyInv

\* The active surface still fits after whatever its client has committed.
ActiveStillFits ==
    \A o \in Outputs : active[o] # NULL => maximized'[active[o]] /\ geom'[active[o]] = AreaSize(o)

\* What the layout keeps of the state it does not change.
Around == UNCHANGED <<role, area, ready>> /\ ActiveStillFits

LEMMA SteadyNothing ==
    ASSUME IInv, SteadyInv, Around, UNCHANGED <<layoutVars, dying>>
    PROVE  SteadyInv'
BY DEF SteadyInv, Around, ActiveStillFits, layoutVars, ShownOn, FitsOn, AreaSize

LEMMA SteadyActivateComplete ==
    ASSUME OneOutput, IInv, SteadyInv, Around,
           NEW o \in Outputs, NEW s \in Surfaces,
           role[s] = "desktop", active[o] # s, Fits(o, s), ActivateComplete(o, s)
    PROVE  SteadyInv'
<1>1. CASE Dangling(active[o]) /\ Crash("ivi_layout_activate_complete") /\ UNCHANGED layoutVars
    BY <1>1, SteadyNothing DEF Crash
<1>2. CASE /\ Replace(o, s) /\ Activated(s)
           /\ pos' = [pos EXCEPT ![s] = [x |-> area[o].x, y |-> area[o].y]]
           /\ UNCHANGED <<conf, loopVars>>
    <2>1. /\ active \in [Outputs -> Surfaces \cup {NULL}] /\ layer \in [Surfaces -> Layers]
          /\ pos \in [Surfaces -> Points] /\ s # NULL
        BY ConstantsAssumption DEF IInv, TypeOK
    <2>2. \A p \in Outputs : p = o
        BY DEF OneOutput
    <2>3. active'[o] = s /\ s \in mapped' /\ layer'[s] = "normal"
        BY <1>2, <2>1 DEF Replace
    <2>4. pos'[s] = [x |-> area[o].x, y |-> area[o].y]
        BY <1>2, <2>1
    <2>5. ShownOn(o, s)' /\ FitsOn(o, s)'
        BY <2>3, <2>4 DEF ShownOn, FitsOn, Fits, Around, AreaSize
    <2>6. /\ conf' = conf /\ dying' = dying /\ role' = role /\ ready' = ready /\ area' = area
        BY <1>2 DEF loopVars, Around
    <2>7. \A p \in Outputs : active'[p] # NULL => ShownOn(p, active[p])' /\ FitsOn(p, active[p])'
        BY <2>2, <2>3, <2>5 DEF ShownOn, FitsOn, AreaSize
    <2> QED
        BY <2>6, <2>7 DEF SteadyInv, AreaSize
<1> QED
    BY <1>1, <1>2 DEF ActivateComplete

LEMMA SteadyConfigure ==
    ASSUME OneOutput, IInv, SteadyInv, Around,
           NEW o \in Outputs, NEW s \in Surfaces,
           role[s] = "desktop", active[o] # s, Configure(o, s)
    PROVE  SteadyInv'
<1>1. /\ conf' = [conf EXCEPT ![s] = AreaSize(o)]
      /\ mapped' = mapped \cup {s}
      /\ layer' = [layer EXCEPT ![s] = IF s \in mapped THEN @ ELSE "hidden"]
      /\ UNCHANGED <<active, pos, dying, role, area, ready>>
    BY DEF Configure, KeepDrawing, loopVars, Around
<1>2. \A p \in Outputs : p = o
    BY DEF OneOutput
<1>3. active[o] # NULL => ShownOn(o, active[o])' /\ FitsOn(o, active[o])'
    BY <1>1 DEF SteadyInv, ShownOn, FitsOn, AreaSize, Around, ActiveStillFits
<1>4. \A t \in Surfaces : conf'[t] = conf[t] \/ (t = s /\ conf'[t] = AreaSize(o))
    BY <1>1 DEF IInv, TypeOK
<1>5. \A t \in Surfaces, p \in Outputs : role'[t] = "desktop" => conf'[t] \in {NULL, AreaSize(p)'}
    BY <1>1, <1>2, <1>4 DEF SteadyInv, AreaSize
<1>6. \A t \in Surfaces : role'[t] = "none" => conf'[t] = NULL
    BY <1>1, <1>4 DEF SteadyInv
<1>7. \A p \in Outputs : active'[p] # NULL => ShownOn(p, active[p])' /\ FitsOn(p, active[p])'
    BY <1>1, <1>2, <1>3
<1> QED
    BY <1>1, <1>5, <1>6, <1>7 DEF SteadyInv

LEMMA SteadyActivate ==
    ASSUME OneOutput, IInv, SteadyInv, Around, NEW o \in Outputs, NEW a, Activate(o, a)
    PROVE  SteadyInv'
<1>1. CASE UNCHANGED <<layoutVars, dying>>
    BY <1>1, SteadyNothing
<1>2. ASSUME NEW s \in Matches(a), ActivateFound(o, s) PROVE SteadyInv'
    <2>1. s \in Surfaces /\ role[s] = "desktop"
        BY DEF Matches, IInv, TypeOK, ObjectInv, ListsMatchRoles
    <2> QED
        BY <1>1, <1>2, <2>1, SteadyActivateComplete, SteadyConfigure DEF ActivateFound, loopVars
<1> QED
    BY <1>1, <1>2 DEF Activate, Crash, loopVars

LEMMA SteadyCommitted ==
    ASSUME OneOutput, IInv, SteadyInv, NEW s \in Surfaces, Committed(s)
    PROVE  SteadyInv'
<1>1. PICK g \in CommitSizes(s), m \in BOOLEAN : Commit(s, g, m)
    BY DEF Committed
<1>2. /\ LegalCommit(s, g, m)
      /\ geom' = [geom EXCEPT ![s] = g] /\ maximized' = [maximized EXCEPT ![s] = m]
      /\ UNCHANGED <<role, area, ready>>
    BY <1>1 DEF Commit, shellVars, slotVars, objectVars
<1>3. ActiveStillFits
    <2> SUFFICES ASSUME NEW o \in Outputs, active[o] # NULL
                 PROVE  maximized'[active[o]] /\ geom'[active[o]] = AreaSize(o)
        BY DEF ActiveStillFits
    <2> DEFINE t == active[o]
    <2>1. t \in Surfaces /\ maximized[t] /\ geom[t] = AreaSize(o) /\ conf[t] \in {NULL, AreaSize(o)}
        BY DEF IInv, TypeOK, SteadyInv, ShownOn, FitsOn
    <2>2. CASE t # s
        BY <1>2, <2>1, <2>2 DEF IInv, TypeOK
    <2>3. CASE t = s
        <3>1. m = TRUE /\ g = AreaSize(o)
            BY <1>2, <2>1, <2>3 DEF LegalCommit
        <3> QED
            BY <1>2, <2>1, <2>3, <3>1 DEF IInv, TypeOK
    <2> QED
        BY <2>2, <2>3
<1>4. Around
    BY <1>2, <1>3 DEF Around
<1>5. CASE role[s] = "desktop" /\ DesktopCommitted(s)
    <2>1. CASE UNCHANGED <<layoutVars, loopVars>>
        BY <1>4, <2>1, SteadyNothing DEF loopVars
    <2>2. ASSUME NEW o \in Outputs, Activate(o, AppOf[s]) PROVE SteadyInv'
        BY <1>4, <2>2, SteadyActivate
    <2>3. CASE /\ pendingOutput[s] # NULL /\ Fits(pendingOutput[s], s)
               /\ ActivateComplete(pendingOutput[s], s)
        <3>1. pendingOutput[s] \in Outputs /\ active[pendingOutput[s]] # s
            BY <2>3 DEF IInv, TypeOK, ViewInv, NeverReplacesItself
        <3> QED
            BY <1>4, <1>5, <2>3, <3>1, SteadyActivateComplete
    <2> QED
        BY <1>5, <2>1, <2>2, <2>3 DEF DesktopCommitted, ActivateByDefault, BackgroundOutputs
<1>6. CASE role[s] = "panel" /\ PanelCommitted(s)
    <2>1. CASE UNCHANGED <<layoutVars, loopVars>>
        BY <1>4, <2>1, SteadyNothing DEF loopVars
    <2>2. CASE /\ mapped' = mapped \cup {s}
               /\ layer' = [layer EXCEPT ![s] = "panel"]
               /\ pos' = [pos EXCEPT ![s] = PanelPosition(anchor[s][1], anchor[s][2], geom'[s])]
               /\ UNCHANGED <<active, conf, loopVars>>
        <3>1. \A o \in Outputs : active[o] # NULL =>
                  active[o] \in Surfaces /\ active[o] # s /\ ShownOn(o, active[o])
            BY <1>6 DEF IInv, TypeOK, SteadyInv, ShownOn
        <3>2. \A o \in Outputs : active[o] # NULL => ShownOn(o, active[o])' /\ FitsOn(o, active[o])'
            BY <1>2, <1>3, <2>2, <3>1 DEF IInv, TypeOK, ShownOn, FitsOn, AreaSize, ActiveStillFits
        <3> QED
            BY <1>2, <2>2, <3>2 DEF SteadyInv, loopVars, ShownOn, FitsOn, AreaSize
    <2> QED
        BY <1>6, <2>1, <2>2 DEF PanelCommitted
<1>7. CASE UNCHANGED <<layoutVars, loopVars>>
    BY <1>4, <1>7, SteadyNothing DEF loopVars
<1> QED
    BY <1>1, <1>5, <1>6, <1>7 DEF Commit

LEMMA SteadyDesktop ==
    ASSUME OneOutput, Mortal = {}, Closable = {}, IInv, SteadyInv, DesktopNext
    PROVE  SteadyInv'
<1> PICK s \in Surfaces :
        \/ ToplevelCreated(s) \/ ToplevelWithdrawn(s)
        \/ SurfaceAdded(s) \/ SurfaceAddedNoMemory(s)
        \/ SurfaceRemoved(s) \/ Committed(s)
    BY DEF DesktopNext
<1>1. CASE ToplevelCreated(s)
    BY <1>1 DEF ToplevelCreated, SteadyInv, ShownOn, FitsOn, AreaSize,
        shellVars, slotVars, objectVars, layoutVars, loopVars
<1>2. CASE SurfaceAdded(s)
    <2>1. /\ UNCHANGED <<ready, geom, maximized, area, layoutVars, dying>>
          /\ \/ ready /\ role' = [role EXCEPT ![s] = "desktop"]
             \/ UNCHANGED role
        BY <1>2 DEF SurfaceAdded, Announced, Enlist, shellVars, slotVars
    <2>2. role[s] = "none"
        BY <1>2 DEF SurfaceAdded, Announced, IInv, TypeOK, ObjectInv, Lifecycle
    <2>3. \A t \in Surfaces : t # s => role'[t] = role[t]
        BY <2>1 DEF IInv, TypeOK
    <2>4. \A t \in Surfaces : role[t] = "desktop" => role'[t] = "desktop"
        BY <2>2, <2>3
    <2>5. \A o \in Outputs : active[o] # NULL => active[o] \in Surfaces
        BY DEF IInv, TypeOK
    <2>6. \A t \in Surfaces, o \in Outputs : role'[t] = "desktop" => conf[t] \in {NULL, AreaSize(o)}
        BY <2>2, <2>3 DEF SteadyInv
    <2>7. \A t \in Surfaces : role'[t] = "none" => conf[t] = NULL
        BY <2>2, <2>3 DEF SteadyInv
    <2>8. ~ready' => \A t \in Surfaces : role'[t] # "desktop"
        BY <2>1 DEF SteadyInv
    <2>9. \A o \in Outputs : active[o] # NULL => ShownOn(o, active[o])' /\ FitsOn(o, active[o])'
        BY <2>1, <2>4, <2>5 DEF SteadyInv, ShownOn, FitsOn, AreaSize, layoutVars
    <2> QED
        BY <2>1, <2>6, <2>7, <2>8, <2>9 DEF SteadyInv, AreaSize, layoutVars
<1>3. CASE ToplevelWithdrawn(s) \/ SurfaceRemoved(s)
    <2>1. Owner[s] # NULL
        BY ConstantsAssumption
    <2> QED
        BY <1>3, <2>1 DEF ToplevelWithdrawn, SurfaceRemoved, SteadyInv
<1>4. CASE SurfaceAddedNoMemory(s)
    BY <1>4 DEF SurfaceAddedNoMemory, Post
<1>5. CASE Committed(s)
    BY <1>5, SteadyCommitted
<1> QED
    BY <1>1, <1>2, <1>3, <1>4, <1>5

\* A request that gives a part to a surface that has none yet.
LEMMA SteadyOccupied ==
    ASSUME IInv, SteadyInv, NEW s \in Surfaces, NEW part \in {"background", "panel"},
           role[s] = "none", role' = [role EXCEPT ![s] = part],
           \A t \in Surfaces : t # s => conf'[t] = conf[t],
           UNCHANGED <<ready, dying, area, geom, maximized, active, mapped, layer, pos>>
    PROVE  SteadyInv'
<1>1. \A t \in Surfaces : role'[t] = IF t = s THEN part ELSE role[t]
    BY DEF IInv, TypeOK
<1>2. \A o \in Outputs : active[o] # NULL =>
          active[o] \in Surfaces /\ active[o] # s /\ role'[active[o]] = "desktop"
    BY <1>1 DEF IInv, TypeOK, SteadyInv, ShownOn
<1>3. \A o \in Outputs : active[o] # NULL => ShownOn(o, active[o])' /\ FitsOn(o, active[o])'
    BY <1>2 DEF SteadyInv, ShownOn, FitsOn, AreaSize
<1>4. \A t \in Surfaces, o \in Outputs : role'[t] = "desktop" => conf'[t] \in {NULL, AreaSize(o)}
    BY <1>1 DEF SteadyInv
<1>5. \A t \in Surfaces : role'[t] = "none" => conf'[t] = NULL
    BY <1>1 DEF SteadyInv
<1>6. ~ready' => \A t \in Surfaces : role'[t] # "desktop"
    BY <1>1 DEF SteadyInv
<1> QED
    BY <1>3, <1>4, <1>5, <1>6 DEF SteadyInv, AreaSize

LEMMA SteadyReady ==
    ASSUME IInv, SteadyInv, Ready
    PROVE  SteadyInv'
<1>1. CASE UNCHANGED <<ready, dying, area, geom, maximized, role, layoutVars>>
    BY <1>1, SteadyNothing DEF Around, ActiveStillFits, SteadyInv, FitsOn
<1>2. CASE ~ready /\ ready' = TRUE /\ LayoutInit /\ PromotePending /\ UNCHANGED <<clientVars, loopVars>>
    <2>1. \A o \in Outputs : active[o] = NULL
        BY <1>2 DEF IInv, TypeOK, SteadyInv, ShownOn
    <2>2. active' = active /\ conf' = conf /\ dying' = dying
        BY <1>2 DEF LayoutInit, loopVars
    <2>3. \A s \in Surfaces : role'[s] = "desktop" => role[s] = "none"
        BY <1>2 DEF PromotePending, IInv, ObjectInv, ListsMatchRoles, SteadyInv
    <2>4. \A s \in Surfaces : role'[s] = "none" => role[s] = "none"
        BY <1>2 DEF PromotePending
    <2> QED
        BY <1>2, <2>1, <2>2, <2>3, <2>4 DEF SteadyInv
<1> QED
    BY <1>1, <1>2 DEF Ready, Crash, vars, shellVars, slotVars, objectVars, clientVars, loopVars

LEMMA SteadyShell ==
    ASSUME OneOutput, Mortal = {}, IInv, SteadyInv, ShellNext
    PROVE  SteadyInv'
<1> DEFINE Same == UNCHANGED <<ready, dying, area, geom, maximized, role, layoutVars>>
<1>1. CASE Same
    BY <1>1, SteadyNothing DEF Around, ActiveStillFits, SteadyInv, FitsOn
<1>2. ASSUME NEW c \in Clients, Bind(c) \/ Disconnect(c) PROVE SteadyInv'
    <2>1. Same
        BY <1>2 DEF Bind, BindRefused, BindNoMemory, Disconnect, Post, slotVars, objectVars,
            clientVars, loopVars
    <2> QED
        BY <1>1, <2>1
<1>3. ASSUME NEW o \in Outputs, NEW s \in Surfaces, SetBackground(o, s) PROVE SteadyInv'
    <2>1. CASE Vacant(o, "background", s) /\ Occupy(o, "background", s)
               /\ role' = [role EXCEPT ![s] = "background"]
               /\ conf' = [conf EXCEPT ![s] = [w |-> Width[o], h |-> Height[o]]]
        <3>1. \A t \in Surfaces : t # s => conf'[t] = conf[t]
            BY <2>1 DEF IInv, TypeOK
        <3>2. role[s] = "none"
            BY <2>1 DEF Vacant
        <3>3. UNCHANGED <<ready, dying, area, geom, maximized, active, mapped, layer, pos>>
            BY <1>3, <2>1 DEF SetBackground, Occupy, shellVars, clientVars, loopVars
        <3> QED
            BY <2>1, <3>1, <3>2, <3>3, SteadyOccupied
    <2> QED
        BY <1>1, <1>3, <2>1 DEF SetBackground, Refused, Post, Crash, shellVars, slotVars,
            objectVars, clientVars, layoutVars
<1>4. ASSUME NEW o \in Outputs, NEW s \in Surfaces, NEW e \in Edges, SetPanel(o, e, s)
      PROVE  SteadyInv'
    <2>1. CASE Vacant(o, e, s) /\ Occupy(o, e, s) /\ role' = [role EXCEPT ![s] = "panel"]
        <3>1. role[s] = "none"
            BY <2>1 DEF Vacant
        <3>2. UNCHANGED <<ready, dying, area, geom, maximized, layoutVars>>
            BY <1>4, <2>1 DEF SetPanel, Occupy, shellVars, clientVars, loopVars
        <3> QED
            BY <2>1, <3>1, <3>2, SteadyOccupied DEF layoutVars
    <2> QED
        BY <1>1, <1>4, <2>1 DEF SetPanel, Refused, Post, Crash, shellVars, slotVars,
            objectVars, clientVars, layoutVars
<1>8. ASSUME NEW s \in Surfaces, SetPanelNowhere(s) PROVE SteadyInv'
    <2>1. Same
        BY <1>8 DEF SetPanelNowhere, Refused, Post, Crash, shellVars, slotVars, objectVars,
            clientVars, layoutVars
    <2> QED
        BY <1>1, <2>1
<1>5. ASSUME NEW o \in Outputs, NEW a \in AppIds, ActivateApp(o, a) PROVE SteadyInv'
    <2>1. Activate(o, a) /\ UNCHANGED <<role, area, ready, geom, maximized>>
        BY <1>5 DEF ActivateApp, shellVars, slotVars, objectVars, clientVars
    <2>2. Around
        BY <2>1 DEF Around, ActiveStillFits, SteadyInv, FitsOn
    <2> QED
        BY <2>1, <2>2, SteadyActivate
<1>6. CASE Ready
    BY <1>6, SteadyReady
<1>7. CASE Unbind \/ Reaped
    BY <1>7 DEF Unbind, Unbinds, Reaped, SteadyInv
<1> QED
    BY <1>2, <1>3, <1>4, <1>5, <1>6, <1>7, <1>8 DEF ShellNext

LEMMA SteadyStep ==
    ASSUME OneOutput, Mortal = {}, Closable = {}
    PROVE  IInv /\ SteadyInv /\ [Next]_vars => SteadyInv'
<1>1. ASSUME UNCHANGED vars, IInv, SteadyInv PROVE SteadyInv'
    BY <1>1, SteadyNothing
    DEF vars, shellVars, slotVars, objectVars, clientVars, loopVars,
        Around, ActiveStillFits, SteadyInv, FitsOn
<1> QED
    BY <1>1, SteadyDesktop, SteadyShell DEF Next

LEMMA SteadyInductive ==
    ASSUME OneOutput, Mortal = {}, Closable = {}
    PROVE  Spec => [](IInv /\ SteadyInv)
<1>1. IInv /\ SteadyInv /\ [Next]_vars => SteadyInv'
    BY SteadyStep
<1> QED
    BY <1>1, SteadyInit, Inductive, PTL DEF Spec

\* On a single output, with no client or surface that goes away, what the output
\* takes for its active surface is on screen (agl-shell.xml:102).
THEOREM ActiveIsShownHolds ==
    ASSUME OneOutput, Mortal = {}, Closable = {}
    PROVE  Spec => []ActiveIsShown
<1>1. IInv /\ SteadyInv => ActiveIsShown
    BY DEF SteadyInv, ActiveIsShown, ShownOn
<1>2. Spec => [](IInv /\ SteadyInv)
    BY SteadyInductive
<1> QED
    BY <1>1, <1>2, PTL

\* And it fills the area that the panels leave, through every commit of its
\* client and every activation of another (layout.c:202-216, 265-268, 362-364).
THEOREM ActiveFillsAreaHolds ==
    ASSUME OneOutput, Mortal = {}, Closable = {}
    PROVE  Spec => []ActiveFillsArea
<1>1. IInv /\ SteadyInv => ActiveFillsArea
    BY DEF SteadyInv, ActiveFillsArea, ShownOn, FitsOn
<1>2. Spec => [](IInv /\ SteadyInv)
    BY SteadyInductive
<1> QED
    BY <1>1, <1>2, PTL

=============================================================================
