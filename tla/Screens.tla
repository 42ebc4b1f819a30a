------------------------------- MODULE Screens -------------------------------
(***************************************************************************)
(* The black surfaces of src/src/shell.c on the outputs of src/src/main.c: *)
(* every output is covered from startup until the shell client is ready,   *)
(* and again when it is gone.  They are made once, for the outputs there   *)
(* are at startup; the outputs come and go as in Outputs.                  *)
(*                                                                         *)
(* The surface of an output is freed with its weston_output, and nothing   *)
(* clears the pointer to it.  Whether libweston already says so when it    *)
(* disables the output is left open.                                       *)
(***************************************************************************)
EXTENDS Outputs

VARIABLES
    phase,      \* of main: "loading" the backend, "flushing" its heads, "running"
    ready,      \* ivi->shell_client.ready
    bound,      \* whether ivi->shell_client.resource is set
    black,      \* output->fullscreen_view.fs: its view is "mapped" or "unmapped"
    shellFault, \* the C function that followed a bad pointer of the above
    lasting     \* history: the outputs that are enabled since before startup

screenVars == <<phase, ready, bound, black, shellFault, lasting>>
allVars == <<vars, screenVars>>

ScreensInit ==
    /\ Init
    /\ phase = "loading"
    /\ ready = FALSE /\ bound = FALSE
    /\ black = [o \in Outputs |-> "none"]
    /\ shellFault = "none"
    /\ lasting = {}

-----------------------------------------------------------------------------
\* main: the backend adds its heads, which are then looked at once before the
\* event loop runs (weston_compositor_flush_heads_changed).

LoadHead ==
    /\ phase = "loading"
    /\ \E h \in Heads : HeadAdded(h)
    /\ UNCHANGED screenVars

Flush ==
    /\ phase = "loading" /\ phase' = "flushing"
    /\ HeadsChanged
    /\ UNCHANGED <<ready, bound, black, shellFault, lasting>>

\* ivi_shell_init_black_fs: create_black_surface_view and insert_black_surface
MutStartup ==
    /\ phase \in {"loading", "flushing"} /\ phase' = "running"
    /\ Running /\ ~changed
    /\ black' = [o \in Outputs |-> IF o \in outputs THEN "unmapped" ELSE "none"]
    /\ lasting' = {o \in Outputs : weston[o] = "enabled"}
    /\ UNCHANGED <<vars, ready, bound, shellFault>>

Startup ==
    /\ phase \in {"loading", "flushing"} /\ phase' = "running"
    /\ Running /\ ~changed
    /\ black' = [o \in Outputs |-> IF o \in outputs THEN "mapped" ELSE "none"]
    /\ lasting' = {o \in Outputs : weston[o] = "enabled"}
    /\ UNCHANGED <<vars, ready, bound, shellFault>>

-----------------------------------------------------------------------------
\* The outputs change.  destroy_black_view hears of an output that goes.

HasBlack(o) == black[o] \in {"mapped", "unmapped"}

Destroyed == {o \in Outputs : weston'[o] = "null" /\ weston[o] # "null"}
Disabled  == {o \in Outputs : weston'[o] = "disabled" /\ weston[o] = "enabled"}

destroy_black_view ==
    \E gone \in SUBSET Disabled :
        black' = [o \in Outputs |->
                     IF HasBlack(o) /\ o \in Destroyed \cup gone THEN "freed" ELSE black[o]]

OutputsChange ==
    /\ shellFault = "none"
    /\ \/ /\ phase = "running"
          /\ \/ HeadsChanged
             \/ \E h \in Heads : HeadAdded(h) \/ ConnectionChanged(h) \/ HeadDestroyed(h)
       \/ \E o \in Outputs : ProcessOutput(o)
    /\ destroy_black_view
    /\ lasting' = lasting \cap {o \in Outputs : weston'[o] = "enabled"}
    /\ UNCHANGED <<phase, ready, bound, shellFault>>

-----------------------------------------------------------------------------
\* The shell client

ShellStep == phase = "running" /\ shellFault = "none" /\ Running

\* bind_agl_shell
Bind ==
    /\ ShellStep
    /\ ~bound /\ bound' = TRUE
    /\ UNCHANGED <<vars, phase, ready, black, shellFault, lasting>>

\* remove_black_surface and insert_black_surface for all of ivi->outputs: they
\* follow the pointer of each.
CrashIn(function) ==
    /\ shellFault' = function
    /\ UNCHANGED <<vars, phase, ready, bound, black, lasting>>

Followable == \A o \in outputs : HasBlack(o)

MutAlreadyReady == FALSE
AlreadyReady == ready

\* shell_ready.  The surface that is removed is asserted to be mapped.
Ready ==
    /\ ShellStep
    /\ bound /\ ~AlreadyReady
    /\ \/ /\ Followable /\ \A o \in outputs : black[o] = "mapped"
          /\ ready' = TRUE
          /\ black' = [o \in Outputs |-> IF o \in outputs THEN "unmapped" ELSE black[o]]
          /\ UNCHANGED <<vars, phase, bound, shellFault, lasting>>
       \/ /\ \E o \in outputs : black[o] # "mapped"
          /\ CrashIn("remove_black_surface")

Reset == bound' = FALSE /\ ready' = FALSE

\* unbind_agl_shell
Unbind ==
    /\ ShellStep
    /\ bound
    /\ \/ /\ Followable
          /\ black' = [o \in Outputs |-> IF o \in outputs THEN "mapped" ELSE black[o]]
          /\ Reset
          /\ UNCHANGED <<vars, phase, shellFault, lasting>>
       \/ ~Followable /\ CrashIn("insert_black_surface")

ScreensNext == LoadHead \/ Flush \/ Startup \/ OutputsChange \/ Bind \/ Ready \/ Unbind

ScreensSpec == ScreensInit /\ [][ScreensNext]_allVars

-----------------------------------------------------------------------------
\* The types, and which outputs can have a black surface at all.
ScreensTypeOK ==
    /\ phase \in {"loading", "flushing", "running"}
    /\ ready \in BOOLEAN /\ bound \in BOOLEAN
    /\ ready => bound
    /\ shellFault \in {"none", "remove_black_surface", "insert_black_surface"}
    /\ black \in [Outputs -> {"none", "mapped", "unmapped", "freed"}]
    /\ \A o \in Outputs : black[o] # "none" => o \in outputs
    /\ lasting \subseteq outputs

\* An output that is enabled since startup is black exactly while no shell is
\* ready, however often shells come, are ready or go, and whatever becomes of
\* the other outputs (shell.c:58-67, 281-284, 475).
BlackUntilReady ==
    phase = "running" =>
        \A o \in lasting : black[o] = (IF ready THEN "unmapped" ELSE "mapped")

\* Only when an output has come or gone since startup does a shell that is
\* ready, or gone, meet a black surface that is not there: with the monitors
\* left alone no order of its requests does (shell.c:235, 241, 256).
LastingAreSafe ==
    shellFault # "none" => outputs # lasting

=============================================================================
