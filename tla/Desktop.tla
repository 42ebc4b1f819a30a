------------------------------ MODULE Desktop ------------------------------
(***************************************************************************)
(* src/desktop.c: the callbacks libweston-desktop makes when a toplevel is *)
(* announced, committed and destroyed.  The other callbacks of desktop_api *)
(* have empty bodies.                                                      *)
(***************************************************************************)
EXTENDS Layout

(***************************************************************************)
(* A client gives a wl_surface the xdg_toplevel role.  libweston has its   *)
(* weston_desktop_surface now, with no user data, and announces it at the  *)
(* client's first commit.  The struct allocated for it may have the        *)
(* address of one that was freed.                                          *)
(***************************************************************************)
ToplevelCreated(s) ==
    /\ Running
    /\ s \notin bare \cup toplevels \cup allocated
    /\ bare' = bare \cup {s}
    /\ UNCHANGED <<shellVars, listVars, slotVars, objectVars, layoutVars, loopVars,
                   toplevels, geom, maximized>>

\* It is destroyed again before that.
ToplevelWithdrawn(s) ==
    /\ fault = "none"
    /\ s \in bare
    /\ dying = Owner[s] \/ (dying = NULL /\ s \in Closable)
    /\ bare' = bare \ {s}
    /\ UNCHANGED <<shellVars, listVars, slotVars, objectVars, layoutVars, loopVars,
                   toplevels, geom, maximized>>

-----------------------------------------------------------------------------
\* desktop_surface_added

Announced(s) ==
    /\ Running
    /\ s \in bare
    /\ bare' = bare \ {s}
    /\ toplevels' = toplevels \cup {s}
    /\ UNCHANGED <<geom, maximized, shellVars, slotVars, layoutVars, fault>>

\* Once the shell is ready a new surface is an application's; before, it
\* waits in case the shell makes it a background or a panel.
Enlist(s) ==
    \/ /\ ready
       /\ role' = [role EXCEPT ![s] = "desktop"]
       /\ surfaces' = surfaces \cup {s}
       /\ UNCHANGED pending
    \/ /\ ~ready
       /\ pending' = pending \cup {s}
       /\ UNCHANGED <<role, surfaces>>

SurfaceAdded(s) ==
    /\ Announced(s)
    /\ allocated' = allocated \cup {s}
    /\ Enlist(s)
    /\ UNCHANGED <<dying, error>>

\* zalloc or weston_desktop_surface_create_view failed.
SurfaceAddedNoMemory(s) ==
    /\ OutOfMemory
    /\ Announced(s)
    /\ Post(Owner[s], "surface_added", "no_memory")
    /\ UNCHANGED <<listVars, objectVars>>

-----------------------------------------------------------------------------
\* desktop_surface_removed

\* What libweston does after the callback: the toplevel and its views go.
ToplevelGone(s) ==
    /\ toplevels' = toplevels \ {s}
    /\ geom' = [geom EXCEPT ![s] = NoSize]
    /\ maximized' = [maximized EXCEPT ![s] = FALSE]
    /\ conf' = [conf EXCEPT ![s] = NULL]
    /\ pos' = [pos EXCEPT ![s] = Origin]
    /\ UNCHANGED bare

MutUnmapFlagOnly(S) ==
    /\ mapped' = mapped \ S
    /\ UNCHANGED layer
Unmap(S) ==
    /\ mapped' = mapped \ S
    /\ layer' = [t \in Surfaces |-> IF t \in S THEN "none" ELSE layer[t]]

\* The struct of an application goes with its toplevel.
FreeDesktopSurface(s) ==
    /\ surfaces' = surfaces \ {s}
    /\ allocated' = allocated \ {s}
    /\ role' = [role EXCEPT ![s] = "none"]
    /\ pendingOutput' = [pendingOutput EXCEPT ![s] = NULL]
    /\ lastOutput' = [lastOutput EXCEPT ![s] = NULL]

\* It takes what its last output shows, be that this surface or another, off
\* the screen.
RemoveDesktop(s) ==
    LET o == lastOutput[s]
        shown == IF o = NULL THEN NULL ELSE active[o] IN
    /\ ~Dangling(shown)
    /\ ToplevelGone(s)
    /\ FreeDesktopSurface(s)
    /\ Unmap({s, shown})
    /\ active' = IF o = NULL THEN active ELSE [active EXCEPT ![o] = NULL]
    /\ UNCHANGED <<shellVars, pending, slotVars, loopVars>>

\* A surface with another role, or none, returns early: the struct stays, in
\* the list or the slot it is in.
RemoveOther(s) ==
    /\ ToplevelGone(s)
    /\ Unmap({s})
    /\ UNCHANGED <<shellVars, listVars, slotVars, objectVars, loopVars,
                   active, pendingOutput, lastOutput>>

\* The user data was freed with the shell, or never set for want of memory;
\* or the surface to take off the screen is gone.
RemoveFails(s) ==
    /\ \/ s \notin allocated
       \/ role[s] = "desktop" /\ lastOutput[s] # NULL /\ Dangling(active[lastOutput[s]])
    /\ Crash("desktop_surface_removed")
    /\ UNCHANGED <<shellVars, listVars, slotVars, objectVars, layoutVars, clientVars>>

\* A toplevel is destroyed by its client, or with it.
SurfaceRemoved(s) ==
    /\ fault = "none"
    /\ s \in toplevels
    /\ dying = Owner[s] \/ (dying = NULL /\ s \in Closable)
    /\ \/ RemoveFails(s)
       \/ s \in allocated /\ role[s] = "desktop" /\ RemoveDesktop(s)
       \/ s \in allocated /\ role[s] # "desktop" /\ RemoveOther(s)

-----------------------------------------------------------------------------
\* desktop_committed

(***************************************************************************)
(* What libweston lets a client commit: a surface not maximized has the    *)
(* size its client likes; one that acknowledges a maximized configure must *)
(* have the size that said, and keep it after.                             *)
(***************************************************************************)
LegalCommit(s, g, m) ==
    \/ ~maximized[s] /\ ~m /\ g \in FreeSizes[s]
    \/ maximized[s] /\ m /\ g = geom[s]
    \/ conf[s] # NULL /\ conf[s].w > 0 /\ conf[s].h > 0 /\ m /\ g = conf[s]

Commit(s, g, m) ==
    /\ Running
    /\ s \in toplevels
    /\ LegalCommit(s, g, m)
    /\ geom' = [geom EXCEPT ![s] = g]
    /\ maximized' = [maximized EXCEPT ![s] = m]
    /\ \/ role[s] = "desktop" /\ DesktopCommitted(s)
       \/ role[s] = "panel" /\ PanelCommitted(s)
       \/ role[s] \in {"none", "background"} /\ UNCHANGED <<layoutVars, loopVars>>
    /\ UNCHANGED <<shellVars, listVars, slotVars, objectVars, bare, toplevels>>

CommitSizes(s) ==
    FreeSizes[s] \cup {geom[s]} \cup (IF conf[s] = NULL THEN {} ELSE {conf[s]})

Committed(s) ==
    \E g \in CommitSizes(s), m \in BOOLEAN : Commit(s, g, m)

\* The commit that acknowledges the configure, by a client that draws: one
\* whose view is mapped, and so gets frame events.
Acknowledge(s) ==
    /\ conf[s] # NULL
    /\ s \in mapped
    /\ Commit(s, conf[s], TRUE)

=============================================================================
