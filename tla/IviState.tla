------------------------------ MODULE IviState ------------------------------
(***************************************************************************)
(* The state the compositor keeps while it runs: struct ivi_compositor,    *)
(* struct ivi_output and struct ivi_surface of src/ivi-compositor.h, the   *)
(* part of libweston-desktop's state those point into, and the state of    *)
(* the event loop.  The handlers that change it are in Layout, Desktop and *)
(* Shell; IviCompositor composes them.                                     *)
(*                                                                         *)
(* A member of Surfaces names three things that live and die at different  *)
(* times: a client's toplevel (bare, toplevels: libweston's                *)
(* weston_desktop_surface), the struct ivi_surface the compositor          *)
(* allocates for it (allocated), and the address of that struct, which     *)
(* outlives it in pointers nobody cleared and is used again for the next   *)
(* one.                                                                    *)
(***************************************************************************)
EXTENDS Integers, FiniteSets

CONSTANTS
    Surfaces,     \* toplevels, and the ivi_surface objects made for them
    Clients,      \* Wayland clients: applications and the shell client
    Outputs,      \* configured outputs
    AppIds,       \* xdg_toplevel application identifiers
    NULL,         \* the null pointer
    Owner,        \* the client a surface belongs to
    AppOf,        \* the app_id a surface sets, or NULL
    Width,        \* of each output
    Height,       \* of each output
    FreeSizes,    \* the sizes a surface's client picks when not maximized
    Edges,        \* the panel edges the shell client asks for
    Quirk,        \* quirks.activate_apps_by_default
    Mortal,       \* the clients that may disconnect or break the protocol
    Closable,     \* the surfaces whose client may destroy them while it runs
    OutOfMemory   \* whether an allocation may fail

Slots == {"background", "top", "bottom", "left", "right"}
Sizes == [w : Int, h : Int]
Areas == [x : Int, y : Int, w : Int, h : Int]
Points == [x : Int, y : Int]

\* The sizes a client can really have: a window geometry is never negative.
DrawableSizes == [w : Nat, h : Nat]

ASSUME ConstantsAssumption ==
    /\ NULL \notin Surfaces \cup Clients \cup Outputs \cup AppIds
    /\ NULL \notin (Outputs \X Slots) \cup Sizes
    /\ IsFiniteSet(Outputs)
    /\ Owner \in [Surfaces -> Clients]
    /\ AppOf \in [Surfaces -> AppIds \cup {NULL}]
    /\ Width \in [Outputs -> Nat]
    /\ Height \in [Outputs -> Nat]
    /\ FreeSizes \in [Surfaces -> SUBSET DrawableSizes]
    /\ Edges \subseteq Slots \ {"background"}
    /\ Quirk \in BOOLEAN
    /\ OutOfMemory \in BOOLEAN
    /\ Mortal \subseteq Clients
    /\ Closable \subseteq Surfaces

VARIABLES
    \* struct ivi_compositor
    resource,       \* the client whose agl_shell is bound, or NULL
    ready,          \* shell_client.ready
    surfaces,       \* the list of desktop surfaces
    pending,        \* the list of surfaces that wait for a role
    \* struct ivi_output, one per output
    slot,           \* its background and its four panels
    active,         \* the surface it shows
    area,           \* what the panels leave of it
    black,          \* whether its black surface is mapped
    \* struct ivi_surface
    allocated,      \* the structs that exist
    role,
    anchor,         \* bg.output, or panel.output and panel.edge
    pendingOutput,  \* desktop.pending_output
    lastOutput,     \* desktop.last_output
    \* libweston: toplevels and their views
    bare,           \* toplevels libweston has not announced yet
    toplevels,      \* toplevels announced to the compositor and still alive
    geom,           \* the window geometry of the last commit
    maximized,      \* the maximized state of the last commit
    conf,           \* the size of the last maximized configure, or NULL
    mapped,         \* the views with is_mapped
    layer,          \* the weston_layer a view is linked into
    pos,            \* the position of a view on its output
    \* the event loop
    dying,          \* the client that wl_client_destroy is taking down, or NULL
    error,          \* the protocol error posted to it, or NULL
    fault           \* the C function that used a dead object, or "none"

shellVars  == <<resource, ready, black>>
listVars   == <<surfaces, pending>>
slotVars   == <<slot, anchor, area>>
objectVars == <<allocated, role>>
layoutVars == <<active, pendingOutput, lastOutput, mapped, layer, pos, conf>>
clientVars == <<bare, toplevels, geom, maximized>>
loopVars   == <<dying, error, fault>>

vars == <<shellVars, listVars, slotVars, objectVars, layoutVars, clientVars, loopVars>>

NoSize == [w |-> 0, h |-> 0]
Origin == [x |-> 0, y |-> 0]

Roles  == {"none", "desktop", "background", "panel"}
Layers == {"none", "hidden", "background", "normal", "panel"}
Faults == {"none", "desktop_surface_removed", "ivi_find_app", "ivi_layout_init",
           "ivi_layout_activate_complete", "unbind_agl_shell", "shell_set_background",
           "shell_set_panel"}
Errors == [request : {"bind", "set_background", "set_panel", "surface_added"},
           code : {"invalid_object", "invalid_argument", "background_exists",
                   "panel_exists", "no_memory"}]

(***************************************************************************)
(* The process is single-threaded: wl_event_loop_dispatch runs one handler *)
(* to its end, and wl_client_destroy runs the destructors of one client's  *)
(* resources with nothing in between.  A handler that follows a pointer to *)
(* a freed object, or a null one, has no defined outcome: the model stops  *)
(* there and records where.                                                *)
(***************************************************************************)
Running == fault = "none" /\ dying = NULL

Dangling(s) == s # NULL /\ s \notin allocated

\* wl_resource_post_error and wl_client_post_no_memory: the client is
\* destroyed before any other request of its is dispatched.
Post(c, request, code) ==
    /\ c \in Mortal
    /\ dying' = c
    /\ error' = [request |-> request, code |-> code]

Crash(function) ==
    /\ fault' = function
    /\ UNCHANGED <<dying, error>>

=============================================================================
