------------------------------- MODULE Shell -------------------------------
(***************************************************************************)
(* src/shell.c: the agl_shell interface, its requests, the black surfaces  *)
(* that hide the outputs until the shell client is ready, and what is left *)
(* when that client goes away.                                             *)
(***************************************************************************)
EXTENDS Layout

Request == Running /\ resource # NULL

-----------------------------------------------------------------------------
\* bind_agl_shell

BindRefused(c) ==
    /\ resource # NULL
    /\ Post(c, "bind", "invalid_object")
    /\ UNCHANGED <<resource, fault>>

BindNoMemory(c) ==
    /\ OutOfMemory
    /\ Post(c, "bind", "no_memory")
    /\ UNCHANGED <<resource, fault>>

Bind(c) ==
    /\ Running
    /\ \/ resource = NULL /\ resource' = c /\ UNCHANGED loopVars
       \/ BindRefused(c)
       \/ BindNoMemory(c)
    /\ UNCHANGED <<ready, black, listVars, slotVars, objectVars, layoutVars, clientVars>>

-----------------------------------------------------------------------------
\* shell_set_background and shell_set_panel.  Both change the same things:
\* a slot of the output takes the surface, which leaves the pending list.

MutOccupySwapped(o, k, s) ==
    /\ slot' = [slot EXCEPT ![o][k] = s]
    /\ anchor' = [anchor EXCEPT ![s] = <<k, o>>]
    /\ pending' = pending \ {s}
    /\ UNCHANGED <<area, surfaces, allocated, loopVars>>
MutOccupyStaysPending(o, k, s) ==
    /\ slot' = [slot EXCEPT ![o][k] = s]
    /\ anchor' = [anchor EXCEPT ![s] = <<o, k>>]
    /\ UNCHANGED <<area, listVars, allocated, loopVars>>
Occupy(o, k, s) ==
    /\ slot' = [slot EXCEPT ![o][k] = s]
    /\ anchor' = [anchor EXCEPT ![s] = <<o, k>>]
    /\ pending' = pending \ {s}
    /\ UNCHANGED <<area, surfaces, allocated, loopVars>>

\* A surface that has no desktop surface, or has a role.  One with a desktop
\* surface that is not announced has no user data to ask for the role.
WrongSurface(s) ==
    \/ s \notin bare \cup toplevels
    \/ s \in toplevels /\ role[s] # "none"
NoUserData(s) == s \in bare
MutVacant(o, k, s) == s \in toplevels /\ role[s] = "none"
Vacant(o, k, s) == s \in toplevels /\ role[s] = "none" /\ slot[o][k] = NULL
Taken(o, k, s) == s \in toplevels /\ role[s] = "none" /\ slot[o][k] # NULL

Refused(request, code) ==
    /\ Post(resource, request, code)
    /\ UNCHANGED <<slotVars, listVars, objectVars, fault>>

SetBackground(o, s) ==
    /\ Request /\ Owner[s] = resource
    /\ \/ /\ NoUserData(s)
          /\ Crash("shell_set_background")
          /\ UNCHANGED <<slotVars, listVars, objectVars, conf>>
       \/ /\ WrongSurface(s)
          /\ Refused("set_background", "invalid_argument")
          /\ UNCHANGED conf
       \/ /\ Taken(o, "background", s)
          /\ Refused("set_background", "background_exists")
          /\ UNCHANGED conf
       \/ /\ Vacant(o, "background", s)
          /\ role' = [role EXCEPT ![s] = "background"]
          /\ Occupy(o, "background", s)
          /\ conf' = [conf EXCEPT ![s] = [w |-> Width[o], h |-> Height[o]]]
    /\ UNCHANGED <<shellVars, clientVars, active, pendingOutput, lastOutput, mapped, layer, pos>>

\* The size a panel is told is not binding: it is not maximized.
SetPanel(o, e, s) ==
    /\ Request /\ Owner[s] = resource
    /\ \/ /\ NoUserData(s)
          /\ Crash("shell_set_panel")
          /\ UNCHANGED <<slotVars, listVars, objectVars>>
       \/ WrongSurface(s) /\ Refused("set_panel", "invalid_argument")
       \/ Taken(o, e, s) /\ Refused("set_panel", "background_exists")
       \/ /\ Vacant(o, e, s)
          /\ role' = [role EXCEPT ![s] = "panel"]
          /\ Occupy(o, e, s)
    /\ UNCHANGED <<shellVars, clientVars, layoutVars>>

\* An edge outside the enumeration is refused as a surface with a role is.
SetPanelNowhere(s) ==
    /\ Request /\ Owner[s] = resource
    /\ \/ /\ NoUserData(s)
          /\ Crash("shell_set_panel")
          /\ UNCHANGED <<slotVars, listVars, objectVars>>
       \/ ~NoUserData(s) /\ Refused("set_panel", "invalid_argument")
    /\ UNCHANGED <<shellVars, clientVars, layoutVars>>

-----------------------------------------------------------------------------
\* shell_ready

MutPromotePendingNot == UNCHANGED <<role, listVars>>
PromotePending ==
    /\ role' = [s \in Surfaces |-> IF s \in pending THEN "desktop" ELSE role[s]]
    /\ surfaces' = surfaces \cup pending
    /\ pending' = {}

\* The black surfaces go, the background and the panels are placed, and every
\* surface still pending becomes an application's, its toplevel alive or not.
Ready ==
    /\ Request
    /\ \/ /\ ready
          /\ UNCHANGED vars
       \/ /\ ~ready /\ LayoutInitFails
          /\ Crash("ivi_layout_init")
          /\ UNCHANGED <<shellVars, listVars, slotVars, objectVars, layoutVars, clientVars>>
       \/ /\ ~ready /\ ~LayoutInitFails
          /\ ready' = TRUE
          /\ black' = [o \in Outputs |-> FALSE]
          /\ LayoutInit
          /\ PromotePending
          /\ UNCHANGED <<resource, slot, anchor, allocated, clientVars, loopVars>>

-----------------------------------------------------------------------------
\* shell_activate_app

ActivateApp(o, a) ==
    /\ Request
    /\ UNCHANGED clientVars
    /\ Activate(o, a)
    /\ UNCHANGED <<shellVars, listVars, slotVars, objectVars>>

-----------------------------------------------------------------------------
\* unbind_agl_shell, the destructor of the agl_shell resource.  The interface
\* has no request that destroys it: it runs when its client goes.

Freed == {slot[o][k] : o \in Outputs, k \in Slots} \ {NULL}
Shown == {active[o] : o \in Outputs} \ {NULL}

FreeOccupants ==
    /\ slot' = [o \in Outputs |-> [k \in Slots |-> NULL]]
    /\ anchor' = [s \in Surfaces |-> IF s \in Freed THEN NULL ELSE anchor[s]]
    /\ allocated' = allocated \ Freed
    /\ role' = [s \in Surfaces |-> IF s \in Freed THEN "none" ELSE role[s]]
    /\ UNCHANGED area

MutTakeOffScreenActiveOnly ==
    /\ active' = [o \in Outputs |-> NULL]
    /\ UNCHANGED <<mapped, layer, pendingOutput, lastOutput, pos, conf>>
TakeOffScreen ==
    /\ active' = [o \in Outputs |-> NULL]
    /\ mapped' = mapped \ Shown
    /\ layer' = [s \in Surfaces |-> IF s \in Shown THEN "none" ELSE layer[s]]
    /\ UNCHANGED <<pendingOutput, lastOutput, pos, conf>>

MutResetShellKeepsReady ==
    /\ black' = [o \in Outputs |-> TRUE]
    /\ resource' = NULL
    /\ UNCHANGED ready
ResetShell ==
    /\ black' = [o \in Outputs |-> TRUE]
    /\ ready' = FALSE
    /\ resource' = NULL

\* A client whose bind was refused has a resource without this destructor.
MutUnbinds == dying # NULL /\ resource # NULL
Unbinds == dying # NULL /\ dying = resource

Unbind ==
    /\ fault = "none"
    /\ Unbinds
    /\ \/ /\ ~(Shown \subseteq allocated)
          /\ Crash("unbind_agl_shell")
          /\ UNCHANGED <<shellVars, listVars, slotVars, objectVars, layoutVars>>
       \/ /\ Shown \subseteq allocated
          /\ FreeOccupants
          /\ TakeOffScreen
          /\ ResetShell
          /\ surfaces' = {} /\ pending' = {}
          /\ UNCHANGED loopVars
    /\ UNCHANGED clientVars

-----------------------------------------------------------------------------
\* The rest of wl_client_destroy, for any client.

Disconnect(c) ==
    /\ Running
    /\ c \in Mortal
    /\ dying' = c
    /\ UNCHANGED <<shellVars, listVars, slotVars, objectVars, layoutVars, clientVars,
                   error, fault>>

Reaped ==
    /\ fault = "none"
    /\ dying # NULL /\ dying # resource
    /\ \A s \in bare \cup toplevels : Owner[s] # dying
    /\ dying' = NULL
    /\ error' = NULL
    /\ UNCHANGED <<shellVars, listVars, slotVars, objectVars, layoutVars, clientVars, fault>>

=============================================================================
