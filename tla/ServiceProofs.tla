---------------------------- MODULE ServiceProofs ----------------------------
(***************************************************************************)
(* The safety properties of Service, for any steps that fail, any value of *)
(* WATCHDOG_USEC and any size of an int.                                   *)
(***************************************************************************)
EXTENDS Service, TLAPS

\* The phases in which there is a compositor, and those in which there is a
\* display.
CompositorPhases == {"load_backend", "ivi_desktop_init", "create_listening_socket",
                     "create_global", "systemd_notify", "wl_display_run",
                     "error_compositor"}
DisplayPhases == CompositorPhases \cup {"signals", "weston_compositor_create"}

\* What is live in each phase.
PhaseInv ==
    /\ phase \in DisplayPhases => "display" \in live
    /\ phase \in CompositorPhases <=> "compositor" \in live
    /\ live \cap {"notifier", "watchdog"} # {} =>
           phase \in {"wl_display_run", "error_compositor"}
    /\ "client" \in live => phase \in {"systemd_notify", "wl_display_run"}
    /\ phase \in {"wl_display_destroy", "ended"} => live \cap Signals = {}

\* Whoever told systemd that the service is ready will tell it of the end.
ReadyInv ==
    /\ ready /\ phase \in {"wl_display_run", "error_compositor"} => "notifier" \in live
    /\ ready => phase \in {"wl_display_run", "error_compositor", "error_signals",
                          "wl_display_destroy", "ended"}
    /\ ready /\ phase \in {"error_signals", "wl_display_destroy", "ended"} => stopping

\* The time to the next ping and the time since the last are a period.
PingInv ==
    /\ "watchdog" \in live => Period > 0 /\ due + silence = Period
    /\ due >= -HandlerTime

IInv ==
    /\ TypeOK /\ NothingOutlives /\ EndsClean
    /\ PhaseInv /\ ReadyInv /\ PingInv

-----------------------------------------------------------------------------
\* safe_strtoint and the division leave a number of milliseconds that is an int
\* and at most half of what systemd allows.
LEMMA PeriodBounds ==
    ASSUME usec \in Int
    PROVE  /\ Period \in Nat /\ Period <= IntMax
           /\ Period > 0 => 2 * Period * 1000 <= usec
<1>1. CASE usec <= IntMax /\ usec >= 2000
    <2>1. /\ usec \div 2000 \in Int
          /\ 2000 * (usec \div 2000) <= usec
          /\ usec < 2000 * (usec \div 2000) + 2000
        BY SMT
    <2>2. Period = usec \div 2000
        BY <1>1 DEF Period
    <2> QED
        BY ServiceAssumption, <1>1, <2>1, <2>2, SMT
<1>2. CASE ~(usec <= IntMax /\ usec >= 2000)
    BY ServiceAssumption, <1>2 DEF Period
<1> QED
    BY <1>1, <1>2

LEMMA PeriodFixed ==
    ASSUME usec' = usec
    PROVE  Period' = Period
BY DEF Period

LEMMA InitEstablishes == Init => IInv
<1> SUFFICES ASSUME Init
             PROVE  IInv
    OBVIOUS
<1> USE DEF Init
<1>1. TypeOK
    <2>1. due \in Int /\ due <= IntMax /\ silence \in Nat
        BY ServiceAssumption
    <2>2. phase \in Phases /\ live \in SUBSET Things /\ usec \in Usecs /\ fault \in Faults
        BY DEF Phases, Things, Faults
    <2>3. run \in BOOLEAN /\ signalled \in BOOLEAN /\ ready \in BOOLEAN /\ stopping \in BOOLEAN
        OBVIOUS
    <2> QED
        BY <2>1, <2>2, <2>3 DEF TypeOK
<1>2. NothingOutlives /\ EndsClean
    BY DEF NothingOutlives, EndsClean
<1>3. PhaseInv /\ ReadyInv
    BY DEF PhaseInv, ReadyInv, CompositorPhases, DisplayPhases
<1>4. PingInv
    BY ServiceAssumption DEF PingInv
<1> QED
    BY <1>1, <1>2, <1>3, <1>4 DEF IInv

-----------------------------------------------------------------------------
\* The notifier is there from the first thing that can fail on; the timer is
\* armed with a period, and only with the notifier.
LEMMA NotifyPreserves ==
    ASSUME IInv, SystemdNotify
    PROVE  IInv'
<1>1. /\ phase = "systemd_notify" /\ phase' = "wl_display_run" /\ usec' = usec
      /\ run' = TRUE /\ signalled' = signalled /\ stopping' = stopping
    BY DEF SystemdNotify, Goes
<1>2. /\ live' \in {live, live \cup {"notifier"}, live \cup {"notifier", "watchdog"}}
      /\ "watchdog" \in live' => Period > 0 /\ due' = Period /\ silence' = 0
      /\ ready' => "notifier" \in live'
    <2>1. "watchdog" \notin live /\ ~ready
        BY <1>1 DEF IInv, PhaseInv, ReadyInv
    <2>2. live' \in {live, live \cup {"notifier"}, live \cup {"notifier", "watchdog"}}
        BY DEF SystemdNotify, Notifies
    <2>3. "watchdog" \in live' => Period > 0 /\ due' = Period /\ silence' = 0
        <3>1. CASE Period > 0
            <4>1. live' \in {live, live \cup {"notifier"}} \/ (due' = Period /\ silence' = 0)
                BY DEF SystemdNotify
            <4> QED
                BY <2>1, <3>1, <4>1
        <3>2. CASE ~(Period > 0)
            <4>1. live' \in {live, live \cup {"notifier"}}
                BY <3>2 DEF SystemdNotify, Notifies
            <4> QED
                BY <2>1, <4>1
        <3> QED
            BY <3>1, <3>2
    <2>4. ready' => "notifier" \in live'
        BY <2>1 DEF SystemdNotify, Notifies
    <2> QED
        BY <2>2, <2>3, <2>4
<1>3. \/ due' = due /\ silence' = silence
      \/ due' = Period /\ silence' = 0
    BY DEF SystemdNotify, timing
<1>4. ready' \in BOOLEAN /\ fault' \in Faults
    BY DEF IInv, TypeOK, SystemdNotify, Faults
<1>5. Period' = Period /\ Period \in Nat /\ Period <= IntMax
    BY <1>1, ServiceAssumption, PeriodBounds, PeriodFixed DEF IInv, TypeOK
<1>6. TypeOK'
    <2>1. due' \in Int /\ due' <= IntMax /\ silence' \in Nat
        BY <1>3, <1>5, ServiceAssumption DEF IInv, TypeOK
    <2>2. /\ phase' \in Phases /\ usec' \in Usecs
          /\ run' \in BOOLEAN /\ signalled' \in BOOLEAN /\ stopping' \in BOOLEAN
        BY <1>1 DEF IInv, TypeOK, Phases
    <2>3. live' \in SUBSET Things
        BY <1>2 DEF IInv, TypeOK, Things
    <2> QED
        BY <1>4, <2>1, <2>2, <2>3 DEF TypeOK
<1>7. PhaseInv'
    BY <1>1, <1>2 DEF IInv, PhaseInv, CompositorPhases, DisplayPhases
<1>8. NothingOutlives' /\ EndsClean'
    BY <1>1, <1>2 DEF IInv, PhaseInv, CompositorPhases, DisplayPhases,
                      NothingOutlives, EndsClean, Uses, Signals
<1>9. ReadyInv'
    BY <1>1, <1>2 DEF ReadyInv
<1>10. PingInv'
    BY <1>2, <1>3, <1>5, ServiceAssumption DEF IInv, PingInv
<1> QED
    BY <1>6, <1>7, <1>8, <1>9, <1>10 DEF IInv

\* One step for each statement of main; nothing but phase and live changes in
\* most of them.
LEMMA StartupPreserves ==
    ASSUME IInv, Startup
    PROVE  IInv'
<1> USE DEF IInv, TypeOK, EndsClean, PhaseInv, ReadyInv, PingInv, Phases, Things,
            Faults, CompositorPhases, DisplayPhases, Signals, Goes, Makes, Fails,
            timing, told, NothingOutlives, Uses
<1>1. CASE LoadConfig
    BY <1>1 DEF LoadConfig, Period
<1>2. CASE CreateDisplay
    BY <1>2 DEF CreateDisplay, Period
<1>3. CASE InstallSignals
    BY <1>3 DEF InstallSignals, Period
<1>4. CASE CreateCompositor
    BY <1>4 DEF CreateCompositor, Period
<1>5. CASE LoadBackend
    BY <1>5 DEF LoadBackend, Period
<1>6. CASE InitDesktop
    BY <1>6 DEF InitDesktop, Period
<1>7. CASE Listen
    BY <1>7 DEF Listen, Period
<1>8. CASE CreateGlobal
    BY <1>8 DEF CreateGlobal, Period
<1>9. CASE SystemdNotify
    BY <1>9, NotifyPreserves
<1> QED
    BY <1>1, <1>2, <1>3, <1>4, <1>5, <1>6, <1>7, <1>8, <1>9 DEF Startup

LEMMA LoopPreserves ==
    ASSUME IInv, Tick \/ WatchdogHandler \/ Signal \/ OnTermSignal \/ HandleExit \/ ClientGoes
    PROVE  IInv'
<1> USE DEF IInv, TypeOK, EndsClean, PhaseInv, ReadyInv, PingInv, Phases, Things,
            Faults, CompositorPhases, DisplayPhases, Signals, Looping,
            timing, told, NothingOutlives, Uses
<1>1. Period' = Period /\ Period \in Nat /\ Period <= IntMax
    BY ServiceAssumption, PeriodBounds, PeriodFixed DEF Tick, WatchdogHandler, Signal, OnTermSignal,
                        HandleExit, ClientGoes
<1>2. CASE Tick
    BY ServiceAssumption, <1>1, <1>2 DEF Tick
<1>3. CASE WatchdogHandler
    BY ServiceAssumption, <1>1, <1>3 DEF WatchdogHandler
<1>4. CASE Signal
    BY <1>1, <1>4 DEF Signal
<1>5. CASE OnTermSignal
    BY <1>1, <1>5 DEF OnTermSignal
<1>6. CASE HandleExit
    BY <1>1, <1>6 DEF HandleExit
<1>7. CASE ClientGoes
    BY <1>1, <1>7 DEF ClientGoes
<1> QED
    BY <1>2, <1>3, <1>4, <1>5, <1>6, <1>7

LEMMA ShutdownPreserves ==
    ASSUME IInv, Shutdown
    PROVE  IInv'
<1> USE DEF IInv, TypeOK, EndsClean, PhaseInv, ReadyInv, PingInv, Phases, Things,
            Faults, CompositorPhases, DisplayPhases, Signals, Goes,
            timing, told, NothingOutlives, Uses
<1>1. Period' = Period
    BY PeriodFixed DEF Shutdown, DestroyClients, DestroyCompositor,
                       RemoveSignals, DestroyDisplay
<1>2. CASE DestroyClients
    BY <1>1, <1>2 DEF DestroyClients
<1>3. CASE DestroyCompositor
    BY <1>1, <1>3 DEF DestroyCompositor, Released
<1>4. CASE RemoveSignals
    BY <1>1, <1>4 DEF RemoveSignals, Sources
<1>5. CASE DestroyDisplay
    BY <1>1, <1>5 DEF DestroyDisplay
<1> QED
    BY <1>2, <1>3, <1>4, <1>5 DEF Shutdown

\* What is live in each phase, what systemd was told and how long ago: the
\* invariant that the properties follow from.
THEOREM ServiceInductive == Spec => []IInv
<1>1. Init => IInv
    BY InitEstablishes
<1>2. IInv /\ [Next]_vars => IInv'
    <2> SUFFICES ASSUME IInv, [Next]_vars
                 PROVE  IInv'
        OBVIOUS
    <2>1. CASE UNCHANGED vars
        BY <2>1 DEF IInv, TypeOK, NothingOutlives, EndsClean, PhaseInv, ReadyInv,
                    PingInv, Period, vars, timing, told
    <2>2. CASE Next
        BY <2>2, StartupPreserves, LoopPreserves, ShutdownPreserves DEF Next
    <2> QED
        BY <2>1, <2>2
<1> QED
    BY <1>1, <1>2, PTL DEF Spec

\* Every variable keeps its type; the timer is never set to more than an int.
THEOREM TypeCorrect == Spec => []TypeOK
<1>1. IInv => TypeOK
    BY DEF IInv
<1> QED
    BY <1>1, ServiceInductive, PTL

\* No release leaves something behind that uses what was released, whichever
\* step of main fails and whenever the loop ends.
THEOREM NothingOutlivesHolds == Spec => []NothingOutlives
<1>1. IInv => NothingOutlives
    BY DEF IInv
<1> QED
    BY <1>1, ServiceInductive, PTL

\* Every way through main's labels to its end releases all that was made.
THEOREM EndsCleanHolds == Spec => []EndsClean
<1>1. IInv => EndsClean
    BY DEF IInv
<1> QED
    BY <1>1, ServiceInductive, PTL

\* A service that said READY=1 says STOPPING=1 before it ends.
THEOREM EndAnnouncedHolds == Spec => []EndAnnounced
<1>1. IInv => EndAnnounced
    BY DEF IInv, ReadyInv, EndAnnounced
<1> QED
    BY <1>1, ServiceInductive, PTL

\* The watchdog is fed in time for every value of WATCHDOG_USEC that arms it, if
\* the handlers of a dispatch take no longer than half of it.
THEOREM PingsInTimeHolds == Spec => []PingsInTime
<1>1. IInv => PingsInTime
    <2> SUFFICES ASSUME IInv, "watchdog" \in live, HandlerTime <= Period
                 PROVE  silence * 1000 <= usec
        BY DEF PingsInTime
    <2>1. usec \in Int /\ due \in Int /\ silence \in Nat
        BY ServiceAssumption DEF IInv, TypeOK
    <2>2. Period > 0 /\ due + silence = Period /\ due >= -HandlerTime
        BY DEF IInv, PingInv
    <2>3. Period \in Nat /\ 2 * Period * 1000 <= usec
        BY <2>1, <2>2, PeriodBounds
    <2>4. silence <= 2 * Period
        BY ServiceAssumption, <2>1, <2>2, <2>3
    <2> QED
        BY <2>1, <2>3, <2>4
<1> QED
    BY <1>1, ServiceInductive, PTL

=============================================================================
