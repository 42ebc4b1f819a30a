------------------------------- MODULE Layout -------------------------------
(***************************************************************************)
(* src/layout.c: where the background, the panels and the applications go, *)
(* and which application each output shows.                                *)
(*                                                                         *)
(* These are not events of their own but what the handlers of Desktop and  *)
(* Shell call.  Each says what happens to layoutVars and to fault.         *)
(*                                                                         *)
(* Coordinates are relative to the output, and a window geometry starts at *)
(* (0, 0).  ivi->surfaces is a set: its order, newest first, only decides  *)
(* which of several surfaces with one app_id is found, and that is left    *)
(* open.                                                                   *)
(***************************************************************************)
EXTENDS IviState

AreaSize(o) == [w |-> area[o].w, h |-> area[o].h]

\* The comparison that both ways into ivi_layout_activate_complete make.
\* Primed, for it comes after the client's commit when there is one.
MutFitsWidth(o, s) == maximized'[s] /\ geom'[s].w = area[o].w
Fits(o, s) == maximized'[s] /\ geom'[s] = AreaSize(o)

-----------------------------------------------------------------------------
\* ivi_layout_init

Occupants(k) == {slot[o][k] : o \in Outputs} \ {NULL}
Backgrounds == Occupants("background")
Panels == UNION {Occupants(e) : e \in Slots \ {"background"}}

\* What ivi_panel_init takes off the usable area on one edge.
Thickness(o, e) ==
    LET s == slot[o][e] IN
    IF s = NULL THEN 0 ELSE IF e \in {"top", "bottom"} THEN geom[s].h ELSE geom[s].w

MutUsableAreaIgnoresTop(o) ==
    [x |-> Thickness(o, "left"),
     y |-> 0,
     w |-> Width[o] - Thickness(o, "left") - Thickness(o, "right"),
     h |-> Height[o] - Thickness(o, "bottom")]
UsableArea(o) ==
    [x |-> Thickness(o, "left"),
     y |-> Thickness(o, "top"),
     w |-> Width[o] - Thickness(o, "left") - Thickness(o, "right"),
     h |-> Height[o] - Thickness(o, "top") - Thickness(o, "bottom")]

PanelPosition(o, e, g) ==
    [x |-> IF e = "right" THEN Width[o] - g.w ELSE 0,
     y |-> IF e = "bottom" THEN Height[o] - g.h ELSE 0]

\* Panels without a geometry are left to ivi_layout_panel_committed, except
\* the top one.
ShownAtReady ==
    Backgrounds \cup {s \in Panels : geom[s] # NoSize \/ anchor[s][2] = "top"}

LayoutInit ==
    /\ area' = [o \in Outputs |-> UsableArea(o)]
    /\ mapped' = (mapped \ Panels) \cup ShownAtReady
    /\ layer' = [s \in Surfaces |->
                    IF s \in Backgrounds THEN "background"
                    ELSE IF s \in Panels
                         THEN IF s \in ShownAtReady THEN "panel" ELSE "none"
                         ELSE layer[s]]
    /\ pos' = [s \in Surfaces |->
                    IF s \in Backgrounds THEN Origin
                    ELSE IF s \in Panels
                         THEN PanelPosition(anchor[s][1], anchor[s][2], geom[s])
                         ELSE pos[s]]
    /\ UNCHANGED <<active, pendingOutput, lastOutput, conf>>

\* The views and toplevels that ivi_layout_init goes through, some destroyed.
LayoutInitFails == (Backgrounds \cup Panels) \ toplevels # {}

-----------------------------------------------------------------------------
\* ivi_layout_activate_complete and ivi_layout_activate

MutReplaceKeepsOld(o, s) ==
    /\ active' = [active EXCEPT ![o] = s]
    /\ mapped' = mapped \cup {s}
    /\ layer' = [layer EXCEPT ![s] = "normal"]
MutReplaceStaysHidden(o, s) ==
    /\ active' = [active EXCEPT ![o] = s]
    /\ mapped' = (mapped \cup {s}) \ {active[o]}
    /\ layer' = [t \in Surfaces |-> IF t = s /\ s \notin mapped THEN "normal"
                                    ELSE IF t = active[o] THEN "none" ELSE layer[t]]
Replace(o, s) ==
    /\ active' = [active EXCEPT ![o] = s]
    /\ mapped' = (mapped \cup {s}) \ {active[o]}
    /\ layer' = [t \in Surfaces |-> IF t = s THEN "normal"
                                    ELSE IF t = active[o] THEN "none" ELSE layer[t]]

Activated(s) ==
    /\ lastOutput' = [lastOutput EXCEPT ![s] = pendingOutput[s]]
    /\ pendingOutput' = [pendingOutput EXCEPT ![s] = NULL]

\* The surface to replace may have been freed: then its view is not there to
\* be hidden.
ActivateComplete(o, s) ==
    \/ /\ Dangling(active[o])
       /\ Crash("ivi_layout_activate_complete")
       /\ UNCHANGED layoutVars
    \/ /\ ~Dangling(active[o])
       /\ Replace(o, s)
       /\ Activated(s)
       /\ pos' = [pos EXCEPT ![s] = [x |-> area[o].x, y |-> area[o].y]]
       /\ UNCHANGED <<conf, loopVars>>

\* A surface that does not fit yet is told the size and, when nothing shows
\* it, put where it still gets frame events.
MutKeepDrawingNot(s) == UNCHANGED <<mapped, layer>>
KeepDrawing(s) ==
    /\ mapped' = mapped \cup {s}
    /\ layer' = [layer EXCEPT ![s] = IF s \in mapped THEN @ ELSE "hidden"]

Configure(o, s) ==
    /\ conf' = [conf EXCEPT ![s] = AreaSize(o)]
    /\ KeepDrawing(s)
    /\ pendingOutput' = [pendingOutput EXCEPT ![s] = o]
    /\ UNCHANGED <<active, lastOutput, pos, loopVars>>

\* ivi_find_app goes through ivi->surfaces and asks each toplevel for its
\* app_id; what a destroyed one answers is undefined.
Matches(a) == {s \in surfaces \cap toplevels : AppOf[s] = a}
Stale == surfaces \ toplevels

\* The rest of ivi_layout_activate, once the surface is found.
MutActivateFoundAgain(o, s) ==
    \/ Fits(o, s) /\ ActivateComplete(o, s)
    \/ ~Fits(o, s) /\ Configure(o, s)
ActivateFound(o, s) ==
    \/ active[o] = s /\ UNCHANGED <<layoutVars, loopVars>>
    \/ active[o] # s /\ Fits(o, s) /\ ActivateComplete(o, s)
    \/ active[o] # s /\ ~Fits(o, s) /\ Configure(o, s)

Activate(o, a) ==
    \/ /\ Stale # {}
       /\ Crash("ivi_find_app")
       /\ UNCHANGED layoutVars
    \/ /\ Stale = {} /\ Matches(a) = {}
       /\ UNCHANGED <<layoutVars, loopVars>>
    \/ \E s \in Matches(a) : ActivateFound(o, s)

-----------------------------------------------------------------------------
\* What a commit of an application or of a panel leads to

BackgroundOutputs == {o \in Outputs : slot[o]["background"] # NULL}

\* With the quirk, the commit of a surface nobody asked for asks for it.
ActivateByDefault(s) ==
    \/ /\ ~Quirk \/ BackgroundOutputs = {} \/ AppOf[s] = NULL
       /\ UNCHANGED <<layoutVars, loopVars>>
    \/ /\ Quirk /\ AppOf[s] # NULL
       /\ \E o \in BackgroundOutputs : Activate(o, AppOf[s])

MutDesktopCommittedAnySize(s) ==
    \/ pendingOutput[s] = NULL /\ ActivateByDefault(s)
    \/ pendingOutput[s] # NULL /\ ActivateComplete(pendingOutput[s], s)
DesktopCommitted(s) ==
    LET o == pendingOutput[s] IN
    \/ o = NULL /\ ActivateByDefault(s)
    \/ o # NULL /\ ~Fits(o, s) /\ UNCHANGED <<layoutVars, loopVars>>
    \/ o # NULL /\ Fits(o, s) /\ ActivateComplete(o, s)

\* A panel that is not on screen yet is put there, whatever its geometry and
\* whether the shell is ready or not.
PanelCommitted(s) ==
    \/ /\ s \in mapped
       /\ UNCHANGED <<layoutVars, loopVars>>
    \/ /\ s \notin mapped
       /\ mapped' = mapped \cup {s}
       /\ layer' = [layer EXCEPT ![s] = "panel"]
       /\ pos' = [pos EXCEPT ![s] = PanelPosition(anchor[s][1], anchor[s][2], geom'[s])]
       /\ UNCHANGED <<active, pendingOutput, lastOutput, conf, loopVars>>

=============================================================================
