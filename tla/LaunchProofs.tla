----------------------------- MODULE LaunchProofs -----------------------------
(***************************************************************************)
(* The launch of the shell client takes nothing from what Service says,    *)
(* and each process has the ends of the socket pair it should have, for    *)
(* any steps that fail, any WATCHDOG_USEC and any interleaving of the two. *)
(***************************************************************************)
EXTENDS Launch, ServiceProofs

LEMMA StepRefines == ASSUME [LaunchNext]_allVars PROVE [Next]_vars
<1>1. CASE LaunchShellClient \/ Child
    BY <1>1 DEF LaunchShellClient, NotLaunched, SocketPair, Fork, ForkFails, CreateClient,
                CreateClientFails, Child, ClientExec, ChildExits, ChildStep
<1>2. CASE MainStartup
    BY <1>2 DEF MainStartup, Compositor, Next
<1>3. CASE \/ Compositor(Shutdown) \/ Compositor(Tick) \/ Compositor(WatchdogHandler)
           \/ Compositor(Signal) \/ Compositor(OnTermSignal) \/ Compositor(HandleExit)
           \/ Compositor(ClientGoes)
    BY <1>3 DEF Compositor, Next
<1>4. CASE UNCHANGED allVars
    BY <1>4 DEF allVars
<1> QED
    BY <1>1, <1>2, <1>3, <1>4 DEF LaunchNext

\* Whatever main and the shell client's process do, Service has a step for it
\* or does not see it: its theorems hold of the two together.
THEOREM LaunchImplementsService == LaunchSpec => Spec
<1>1. LaunchInit => Init
    BY DEF LaunchInit
<1> QED
    BY <1>1, StepRefines, PTL DEF LaunchSpec, Spec

-----------------------------------------------------------------------------
\* How far the launch is in each phase of main.  The labels are reached from
\* before it and from after it.
Before == {"load_config", "wl_display_create", "signals", "weston_compositor_create",
           "load_backend", "ivi_desktop_init", "create_listening_socket"}
After == {"systemd_notify", "wl_display_run"}
Labels == {"error_compositor", "error_signals", "wl_display_destroy", "ended"}

Owned == IF "client" \in live THEN {"server"} ELSE {}

StageInv ==
    /\ phase \in Before => launch = "socketpair"
    /\ phase \in After => launch \in Outcomes
    /\ phase \in Labels => launch \in {"socketpair"} \cup Outcomes
    /\ phase = "create_global" =>
           /\ launch = "fork" => holds["compositor"] = Ends
           /\ launch \in {"wl_client_create", "client"} => holds["compositor"] = {"server"}
           /\ launch \in {"socketpair", "failed"} => holds["compositor"] = {}
    /\ launch = "fork" => phase = "create_global"
    /\ launch \in {"socketpair", "fork"} => child = "none"
    /\ child = "forked" => holds["child"] = Ends

LaunchInv == LaunchTypeOK /\ StageInv /\ EndsAreOwned

LEMMA LaunchShellClientPreserves ==
    ASSUME IInv, LaunchInv, LaunchShellClient
    PROVE  LaunchInv'
<1> USE DEF LaunchInv, LaunchTypeOK, StageInv, EndsAreOwned, Launching, Outcomes,
            Before, After, Labels, Processes, Ends, vars
<1>1. CASE NotLaunched
    BY <1>1 DEF NotLaunched
<1>2. CASE SocketPair
    BY <1>2 DEF SocketPair
<1>3. CASE Fork
    BY <1>3 DEF Fork, KeptByParent
<1>4. CASE ForkFails
    BY <1>4 DEF ForkFails
<1>5. CASE CreateClient
    BY <1>5 DEF CreateClient
<1>6. CASE CreateClientFails
    BY <1>6 DEF CreateClientFails, ClosedWithoutClient
<1> QED
    BY <1>1, <1>2, <1>3, <1>4, <1>5, <1>6 DEF LaunchShellClient

LEMMA ChildPreserves ==
    ASSUME IInv, LaunchInv, Child
    PROVE  LaunchInv'
<1> USE DEF LaunchInv, LaunchTypeOK, StageInv, EndsAreOwned, Outcomes, ChildStep,
            Before, After, Labels, Processes, Ends, vars
<1>1. CASE ClientExec
    BY <1>1 DEF ClientExec, CloseOnExec
<1>2. CASE ChildExits
    BY <1>2 DEF ChildExits
<1> QED
    BY <1>1, <1>2 DEF Child

\* There is a client from the end of the launch to the end of the loop.
LEMMA ClientLives ==
    ASSUME IInv
    PROVE  "client" \in live => phase \in After
BY DEF IInv, PhaseInv, After

LEMMA MainStartupPreserves ==
    ASSUME IInv, LaunchInv, MainStartup
    PROVE  LaunchInv'
<1> USE DEF LaunchInv, LaunchTypeOK, StageInv, EndsAreOwned, Outcomes,
            Before, After, Labels, Processes, Ends, Goes, Makes, Fails
<1>1. launch' = launch /\ child' = child /\ CloseWithClient
    BY DEF MainStartup, Compositor
<1>2. CASE phase = "create_global"
    <2>1. Startup => phase' = "systemd_notify"
        BY <1>2 DEF Startup, LoadConfig, CreateDisplay, InstallSignals, CreateCompositor,
                    LoadBackend, InitDesktop, Listen, CreateGlobal, SystemdNotify
    <2>2. "client" \notin live
        BY <1>2, ClientLives
    <2> QED
        BY <1>1, <1>2, <2>1, <2>2 DEF MainStartup, Compositor, CloseWithClient
<1>3. CASE phase # "create_global"
    <2>1. /\ phase' = phase \/ phase' \in Before \cup After \cup Labels \cup {"create_global"}
          /\ phase' \in After => phase \in After
          /\ phase \in Before \/ phase = "systemd_notify"
          /\ phase = "systemd_notify" => phase' = "wl_display_run"
        BY <1>3 DEF MainStartup, Compositor, Startup, LoadConfig, CreateDisplay,
                    InstallSignals, CreateCompositor, LoadBackend, InitDesktop, Listen,
                    CreateGlobal, SystemdNotify
    <2>2. "client" \in live' <=> "client" \in live
        BY <1>3 DEF MainStartup, Compositor, Startup, LoadConfig, CreateDisplay,
                    InstallSignals, CreateCompositor, LoadBackend, InitDesktop, Listen,
                    CreateGlobal, SystemdNotify, Notifies, Signals
    <2>3. holds' = holds
        BY <1>1, <2>2 DEF CloseWithClient
    <2> QED
        BY <1>1, <1>3, <2>1, <2>2, <2>3, ClientLives
<1> QED
    BY <1>2, <1>3

\* The steps of the loop and of the end: a client may go, none comes.
LEMMA RunningPreserves ==
    ASSUME IInv, LaunchInv,
           \/ Compositor(Shutdown) \/ Compositor(Tick) \/ Compositor(WatchdogHandler)
           \/ Compositor(Signal) \/ Compositor(OnTermSignal) \/ Compositor(HandleExit)
           \/ Compositor(ClientGoes)
    PROVE  LaunchInv'
<1>1. launch' = launch /\ child' = child /\ CloseWithClient
    BY DEF Compositor
<1>2. /\ phase' = phase \/ (phase \in {"wl_display_run", "error_compositor", "error_signals", "wl_display_destroy"}
                            /\ phase' \in Labels)
      /\ "client" \in live' => "client" \in live
    BY DEF Compositor, Shutdown, DestroyClients, DestroyCompositor, RemoveSignals, DestroyDisplay, Tick,
           WatchdogHandler, Signal, OnTermSignal, HandleExit, ClientGoes, Goes, Labels
<1>3. \/ "client" \in live \ live' /\ holds' = [holds EXCEPT !["compositor"] = {}]
      \/ ("client" \in live' <=> "client" \in live) /\ holds' = holds
    BY <1>1, <1>2 DEF CloseWithClient, LaunchInv, LaunchTypeOK
<1> QED
    BY <1>1, <1>2, <1>3, ClientLives
    DEF LaunchInv, LaunchTypeOK, StageInv, EndsAreOwned, Outcomes, Before, After, Labels,
        Processes, Ends

LEMMA LaunchInductive == LaunchSpec => []LaunchInv
<1>1. LaunchInit => LaunchInv
    BY DEF LaunchInit, Init, LaunchInv, LaunchTypeOK, StageInv, EndsAreOwned, Processes,
           Ends, Before, After, Labels
<1>2. IInv /\ LaunchInv /\ [LaunchNext]_allVars => LaunchInv'
    <2> SUFFICES ASSUME IInv, LaunchInv, [LaunchNext]_allVars
                 PROVE  LaunchInv'
        OBVIOUS
    <2>1. CASE UNCHANGED allVars
        BY <2>1 DEF allVars, vars, launchVars, LaunchInv, LaunchTypeOK, StageInv, EndsAreOwned
    <2>2. CASE LaunchNext
        BY <2>2, LaunchShellClientPreserves, ChildPreserves, MainStartupPreserves,
           RunningPreserves DEF LaunchNext
    <2> QED
        BY <2>1, <2>2
<1> QED
    BY <1>1, <1>2, LaunchImplementsService, ServiceInductive, PTL DEF LaunchSpec

\* The launch and both processes keep their types, and the parent closes the
\* child's end (shell.c:152).
THEOREM LaunchTypeCorrect == LaunchSpec => []LaunchTypeOK
<1>1. LaunchInv => LaunchTypeOK
    BY DEF LaunchInv
<1> QED
    BY <1>1, LaunchInductive, PTL

\* Each process has the ends of the socket pair it should have, whatever fails
\* and whoever goes first (shell.c:125-163).
THEOREM EndsAreOwnedHolds == LaunchSpec => []EndsAreOwned
<1>1. LaunchInv => EndsAreOwned
    BY DEF LaunchInv
<1> QED
    BY <1>1, LaunchInductive, PTL

=============================================================================
