------------------------------ MODULE Service ------------------------------
(***************************************************************************)
(* The life of the process: main's initialisations with their two error    *)
(* labels, wl_display_run, and what systemd is told (src/main.c,           *)
(* src/systemd-notify.c, built with HAVE_SYSTEMD).                         *)
(*                                                                         *)
(* Each action is what main does up to the next statement that can fail.   *)
(* Time is counted in milliseconds and only while the watchdog is armed.   *)
(***************************************************************************)
EXTENDS Integers

CONSTANTS
    MayFail,       \* the steps of Steps that may fail
    Usecs,         \* values of WATCHDOG_USEC; 0 stands for none and for no number
    IntMax,        \* INT32_MAX
    HandlerTime    \* how long the handlers of one dispatch take, at most

Steps == {"config", "display", "signals", "compositor", "backend", "desktop",
          "socket", "global", "client", "notifier", "systemd sockets", "timer"}

ASSUME ServiceAssumption ==
    /\ MayFail \subseteq Steps
    /\ Usecs \subseteq Int
    /\ IntMax \in Nat
    /\ HandlerTime \in Nat

VARIABLES
    phase,       \* the next statement of main, or its label
    live,        \* what has been made and not been released
    run,         \* display->run
    signalled,   \* a signal waits in a signalfd
    usec,        \* WATCHDOG_USEC
    due,         \* milliseconds until the watchdog's timer expires
    silence,     \* milliseconds since systemd heard last
    ready,       \* READY=1 was sent,
    stopping,    \* and STOPPING=1
    fault        \* the function that was given a null pointer, or "none"

told == <<ready, stopping>>
timing == <<due, silence>>
vars == <<phase, live, run, signalled, usec, timing, told, fault>>

Phases == {"load_config", "wl_display_create", "signals", "weston_compositor_create",
           "load_backend", "ivi_desktop_init", "create_listening_socket",
           "create_global", "systemd_notify", "wl_display_run",
           "error_compositor", "error_signals", "wl_display_destroy", "ended"}
Signals == {"SIGTERM", "SIGINT", "SIGQUIT"}
Things == Signals \cup {"config", "display", "compositor", "socket", "global",
                        "client", "notifier", "watchdog"}
Faults == {"none", "wl_display_get_event_loop", "wl_display_destroy",
           "wl_event_source_timer_update"}

Init ==
    /\ phase = "load_config"
    /\ live = {}
    /\ run = FALSE /\ signalled = FALSE
    /\ usec \in Usecs
    /\ due = 0 /\ silence = 0
    /\ ready = FALSE /\ stopping = FALSE
    /\ fault = "none"

Goes(from, to) ==
    /\ fault = "none" /\ phase = from
    /\ phase' = to

-----------------------------------------------------------------------------
\* main, up to wl_display_run

Makes(from, thing, to) ==
    /\ Goes(from, to)
    /\ live' = live \cup {thing}
    /\ UNCHANGED <<run, signalled, usec, timing, told, fault>>

Fails(from, step, label) ==
    /\ step \in MayFail
    /\ Goes(from, label)
    /\ UNCHANGED <<live, run, signalled, usec, timing, told, fault>>

\* Without a file the compositor starts with no configuration, unless the file
\* was asked for.
LoadConfig ==
    \/ Makes("load_config", "config", "wl_display_create")
    \/ /\ Goes("load_config", "wl_display_create")
       /\ UNCHANGED <<live, run, signalled, usec, timing, told, fault>>
    \/ Fails("load_config", "config", "error_signals")

CreateDisplay ==
    \/ Makes("wl_display_create", "display", "signals")
    \/ /\ fault = "none" /\ phase = "wl_display_create" /\ "display" \in MayFail
       /\ fault' = "wl_display_get_event_loop"
       /\ UNCHANGED <<phase, live, run, signalled, usec, timing, told>>

\* All three sources are asked for before any of them is looked at.
InstallSignals ==
    \E made \in SUBSET Signals :
        /\ made # Signals => "signals" \in MayFail
        /\ Goes("signals", IF made = Signals THEN "weston_compositor_create"
                                             ELSE "error_signals")
        /\ live' = live \cup made
        /\ UNCHANGED <<run, signalled, usec, timing, told, fault>>

CreateCompositor ==
    \/ Makes("weston_compositor_create", "compositor", "load_backend")
    \/ Fails("weston_compositor_create", "compositor", "error_signals")

\* compositor_init_config and load_backend
LoadBackend ==
    \/ /\ Goes("load_backend", "ivi_desktop_init")
       /\ UNCHANGED <<live, run, signalled, usec, timing, told, fault>>
    \/ Fails("load_backend", "backend", "error_compositor")

\* ivi_shell_init cannot fail, and main does not ask whether an output works.
InitDesktop ==
    \/ /\ Goes("ivi_desktop_init", "create_listening_socket")
       /\ UNCHANGED <<live, run, signalled, usec, timing, told, fault>>
    \/ Fails("ivi_desktop_init", "desktop", "error_compositor")

Listen ==
    \/ Makes("create_listening_socket", "socket", "create_global")
    \/ Fails("create_listening_socket", "socket", "error_compositor")

\* ivi_shell_create_global and ivi_launch_shell_client, whose failures main
\* ignores.
CreateGlobal ==
    \E made \in SUBSET {"global", "client"} :
        /\ {"global", "client"} \ made \subseteq MayFail
        /\ Goes("create_global", "systemd_notify")
        /\ live' = live \cup made
        /\ UNCHANGED <<run, signalled, usec, timing, told, fault>>

-----------------------------------------------------------------------------
\* ivi_agl_systemd_notify

\* safe_strtoint, and "/= 1000 * 2" on what it returns; 0 is no watchdog.
MutPeriodAnySize == usec \div 2000
MutPeriodWhole == IF usec <= IntMax THEN usec \div 1000 ELSE 0
Period == IF usec <= IntMax /\ usec >= 2000 THEN usec \div 2000 ELSE 0

\* The notifier is registered before anything that can fail.
MutNotifies == IF Period > 0 THEN {"notifier", "watchdog"} ELSE {}
Notifies == IF Period > 0 THEN {"notifier", "watchdog"} ELSE {"notifier"}

\* main ignores what it returns, and wl_display_run sets display->run.
SystemdNotify ==
    /\ Goes("systemd_notify", "wl_display_run")
    /\ run' = TRUE
    /\ \/ /\ "notifier" \in MayFail
          /\ UNCHANGED <<live, timing, ready, fault>>
       \/ /\ "systemd sockets" \in MayFail
          /\ live' = live \cup {"notifier"}
          /\ UNCHANGED <<timing, ready, fault>>
       \/ /\ live' = live \cup Notifies
          /\ ready' = TRUE
          /\ due' = Period
          /\ silence' = 0
          /\ UNCHANGED fault
       \/ /\ Period > 0 /\ "timer" \in MayFail
          /\ live' = live \cup {"notifier"}
          /\ ready' = TRUE
          /\ fault' = "wl_event_source_timer_update"
          /\ UNCHANGED timing
    /\ UNCHANGED <<signalled, usec, stopping>>

-----------------------------------------------------------------------------
\* wl_display_run.  The events of the dispatch in which the loop is told to end
\* are still handled.

Looping == fault = "none" /\ phase = "wl_display_run"

Tick ==
    /\ Looping
    /\ "watchdog" \in live
    /\ due > -HandlerTime
    /\ due' = due - 1
    /\ silence' = silence + 1
    /\ UNCHANGED <<phase, live, run, signalled, usec, told, fault>>

WatchdogHandler ==
    /\ Looping
    /\ "watchdog" \in live
    /\ due <= 0
    /\ due' = Period
    /\ silence' = 0
    /\ UNCHANGED <<phase, live, run, signalled, usec, told, fault>>

\* A signal that has a source is blocked, and kept in its signalfd.
Signal ==
    /\ fault = "none" /\ Signals \cap live # {}
    /\ signalled' = TRUE
    /\ UNCHANGED <<phase, live, run, usec, timing, told, fault>>

MutOnTermSignal ==
    /\ Looping /\ signalled
    /\ signalled' = FALSE
    /\ UNCHANGED <<phase, live, run, usec, timing, told, fault>>
OnTermSignal ==
    /\ Looping /\ signalled
    /\ signalled' = FALSE
    /\ run' = FALSE
    /\ UNCHANGED <<phase, live, usec, timing, told, fault>>

\* handle_exit, which the backend calls.
HandleExit ==
    /\ Looping
    /\ run' = FALSE
    /\ UNCHANGED <<phase, live, signalled, usec, timing, told, fault>>

\* The shell client disconnects.
ClientGoes ==
    /\ Looping
    /\ live' = live \ {"client"}
    /\ UNCHANGED <<phase, run, signalled, usec, timing, told, fault>>

-----------------------------------------------------------------------------
\* main, after wl_display_run

DestroyClients ==
    /\ ~run
    /\ Goes("wl_display_run", "error_compositor")
    /\ live' = live \ {"client"}
    /\ UNCHANGED <<run, signalled, usec, timing, told, fault>>

\* weston_compositor_destroy and the notifier's
\* weston_compositor_destroy_listener
MutReleased == {"compositor", "notifier"}
Released == {"compositor", "notifier", "watchdog"}

DestroyCompositor ==
    /\ Goes("error_compositor", "error_signals")
    /\ live' = live \ Released
    /\ stopping' = ("notifier" \in live)
    /\ UNCHANGED <<run, signalled, usec, timing, ready, fault>>

\* The sources go, each that was made, before the loop they are in.
MutSources == IF Signals \subseteq live THEN Signals ELSE {}
Sources == Signals

RemoveSignals ==
    /\ Goes("error_signals", "wl_display_destroy")
    /\ live' = live \ Sources
    /\ UNCHANGED <<run, signalled, usec, timing, told, fault>>

\* The display takes its sockets and globals with it.
DestroyDisplay ==
    \/ /\ "display" \in live
       /\ Goes("wl_display_destroy", "ended")
       /\ live' = live \ {"display", "socket", "global", "config"}
       /\ UNCHANGED <<run, signalled, usec, timing, told, fault>>
    \/ /\ fault = "none" /\ phase = "wl_display_destroy" /\ "display" \notin live
       /\ fault' = "wl_display_destroy"
       /\ UNCHANGED <<phase, live, run, signalled, usec, timing, told>>

-----------------------------------------------------------------------------
Startup ==
    \/ LoadConfig \/ CreateDisplay \/ InstallSignals \/ CreateCompositor
    \/ LoadBackend \/ InitDesktop \/ Listen \/ CreateGlobal \/ SystemdNotify
Shutdown == DestroyClients \/ DestroyCompositor \/ RemoveSignals \/ DestroyDisplay

Next ==
    \/ Startup \/ Shutdown
    \/ Tick \/ WatchdogHandler
    \/ Signal \/ OnTermSignal \/ HandleExit \/ ClientGoes

Spec == Init /\ [][Next]_vars

-----------------------------------------------------------------------------
\* The timer's period is an int.
TypeOK ==
    /\ phase \in Phases
    /\ live \in SUBSET Things
    /\ run \in BOOLEAN /\ signalled \in BOOLEAN
    /\ usec \in Usecs
    /\ due \in Int /\ due <= IntMax
    /\ silence \in Nat
    /\ ready \in BOOLEAN /\ stopping \in BOOLEAN
    /\ fault \in Faults

\* What a thing uses until it is released: an event source its loop and the
\* data of its handler, a global the display, a client the compositor too, whose
\* objects its resources refer to.
Uses(thing) ==
    CASE thing \in Signals \cup {"socket", "global", "compositor"} -> {"display"}
      [] thing = "client" -> {"display", "compositor"}
      [] thing = "notifier" -> {"compositor"}
      [] thing = "watchdog" -> {"notifier", "display"}
      [] OTHER -> {}

\* Whichever initialisation fails and whenever the process is told to stop,
\* nothing is released before what uses it (main.c:1227-1237,
\* systemd-notify.c:125-140).
NothingOutlives == \A thing \in live : Uses(thing) \subseteq live

\* The label that main jumps to releases everything that was made
\* (main.c:1229-1241).
EndsClean == phase = "ended" => live = {}

\* systemd hears of the end of a service that it was told is ready, whether or
\* not it has a watchdog (systemd-notify.c:130, 156-167).
EndAnnounced == phase = "ended" /\ ready => stopping

\* With the handlers done in half the time of the watchdog, systemd hears from
\* the compositor in time, however late the timer is each time
\* (systemd-notify.c:112-122, 175-190).
PingsInTime ==
    "watchdog" \in live /\ HandlerTime <= Period => silence * 1000 <= usec

\* A signal ends the process in good order whenever it comes, before the loop
\* runs too (main.c:1046-1055, 1171-1182).
StopsWhenTold == signalled ~> phase = "ended" \/ fault # "none"

=============================================================================
