-------------------------------- MODULE Launch --------------------------------
(***************************************************************************)
(* The process of the shell client (ivi_launch_shell_client in             *)
(* src/src/shell.c, os_socketpair_cloexec in src/shared/os-compatibility.c)*)
(* within the life of the compositor's, which is Service.                  *)
(*                                                                         *)
(* The two are connected by a socket pair.  Each learns that the other is  *)
(* gone when nobody holds the other's end any more, so it matters who has  *)
(* which end open, through fork, exec and whatever fails between them.     *)
(* Once main is back in its own steps the two processes interleave freely. *)
(***************************************************************************)
EXTENDS Service

VARIABLES
    launch,    \* the next step of launch_shell_client, or its outcome
    child,     \* the process of the shell client
    holds      \* the ends of the socket pair that a process has open

launchVars == <<launch, child, holds>>
allVars == <<vars, launchVars>>

Processes == {"compositor", "child"}
Ends == {"server", "client"}    \* sock[0] and sock[1]

LaunchInit ==
    /\ Init
    /\ launch = "socketpair"
    /\ child = "none"
    /\ holds = [p \in Processes |-> {}]

-----------------------------------------------------------------------------
\* launch_shell_client

Launching(step) == fault = "none" /\ phase = "create_global" /\ launch = step

MayFailToLaunch == "client" \in MayFail

Outcomes == {"client", "failed"}

\* No command in the file, or no socket pair: either way nothing was opened.
NotLaunched ==
    /\ Launching("socketpair") /\ MayFailToLaunch
    /\ launch' = "failed"
    /\ UNCHANGED <<vars, child, holds>>

SocketPair ==
    /\ Launching("socketpair")
    /\ launch' = "fork"
    /\ holds' = [holds EXCEPT !["compositor"] = Ends]
    /\ UNCHANGED <<vars, child>>

\* What the parent has open after close(sock[1]).
MutKeptByParent == Ends
KeptByParent == {"server"}

Fork ==
    /\ Launching("fork")
    /\ launch' = "wl_client_create"
    /\ child' = "forked"
    /\ holds' = [compositor |-> KeptByParent, child |-> holds["compositor"]]
    /\ UNCHANGED vars

\* close(sock[0]) and close(sock[1])
ForkFails ==
    /\ Launching("fork") /\ MayFailToLaunch
    /\ launch' = "failed"
    /\ holds' = [holds EXCEPT !["compositor"] = {}]
    /\ UNCHANGED <<vars, child>>

CreateClient ==
    /\ Launching("wl_client_create")
    /\ launch' = "client"
    /\ UNCHANGED <<vars, child, holds>>

\* The child runs, on an end that nobody listens to.
ClosedWithoutClient == Ends

CreateClientFails ==
    /\ Launching("wl_client_create") /\ MayFailToLaunch
    /\ launch' = "failed"
    /\ holds' = [holds EXCEPT !["compositor"] = @ \ ClosedWithoutClient]
    /\ UNCHANGED <<vars, child>>

LaunchShellClient ==
    \/ NotLaunched \/ SocketPair \/ Fork \/ ForkFails
    \/ CreateClient \/ CreateClientFails

-----------------------------------------------------------------------------
\* The child

ChildStep(from, to) == child = from /\ child' = to /\ UNCHANGED <<vars, launch>>

\* os_socketpair_cloexec
MutCloseOnExec == {"client"}
CloseOnExec == Ends

\* client_exec duplicates its end, for that to outlive exec.
ClientExec ==
    /\ ChildStep("forked", "running")
    /\ holds' = [holds EXCEPT !["child"] = (@ \ CloseOnExec) \cup {"client"}]

\* seteuid, dup or execl fails and the child calls _Exit, or the program ends.
ChildExits ==
    /\ ChildStep("forked", "exited") \/ ChildStep("running", "exited")
    /\ holds' = [holds EXCEPT !["child"] = {}]

Child == ClientExec \/ ChildExits

-----------------------------------------------------------------------------
\* The compositor.  main goes on once launch_shell_client is back, and
\* wl_client_destroy closes the compositor's end.

CloseWithClient ==
    holds' = [holds EXCEPT !["compositor"] =
                  IF "client" \in live \ live' THEN {} ELSE @]

Compositor(step) ==
    /\ step
    /\ CloseWithClient
    /\ UNCHANGED <<launch, child>>

MainStartup ==
    /\ phase = "create_global" => launch \in Outcomes
    /\ Compositor(Startup)
    /\ phase = "create_global" => ("client" \in live' <=> launch = "client")

\* What epoll reports of the client's connection: a hang-up.
HungUp == "client" \in live /\ \A p \in Processes : "client" \notin holds[p]

LaunchNext ==
    \/ LaunchShellClient \/ Child
    \/ MainStartup
    \/ Compositor(Shutdown)
    \/ Compositor(Tick) \/ Compositor(WatchdogHandler)
    \/ Compositor(Signal) \/ Compositor(OnTermSignal) \/ Compositor(HandleExit)
    \/ Compositor(ClientGoes)

LaunchSpec == LaunchInit /\ [][LaunchNext]_allVars

\* main goes on, and epoll reports a signalfd until it is read and a hang-up
\* until the connection is closed.
FairLaunchSpec ==
    /\ LaunchSpec
    /\ WF_allVars(LaunchShellClient) /\ WF_allVars(MainStartup)
    /\ WF_allVars(Compositor(Shutdown)) /\ WF_allVars(Compositor(OnTermSignal))
    /\ WF_allVars(HungUp /\ Compositor(ClientGoes))

-----------------------------------------------------------------------------
\* The types, and that only a process there is has ends open.
LaunchTypeOK ==
    /\ launch \in {"socketpair", "fork", "wl_client_create"} \cup Outcomes
    /\ child \in {"none", "forked", "running", "exited"}
    /\ holds \in [Processes -> SUBSET Ends]
    /\ launch # "fork" => "client" \notin holds["compositor"]
    /\ child \in {"none", "exited"} => holds["child"] = {}

\* Whichever step of launching fails, and whenever either side goes: apart from
\* the launch itself the compositor has the end of a client it has, and no
\* other; the program it runs has its own end and no other, without which it
\* would not learn that the compositor let it go (shell.c:125-163;
\* os-compatibility.c:73-96).
EndsAreOwned ==
    /\ phase # "create_global" =>
           holds["compositor"] = IF "client" \in live THEN {"server"} ELSE {}
    /\ child = "running" => holds["child"] = {"client"}

\* When the shell client's process is gone, be it before it ran the program, the
\* compositor gets to know and drops the client, which brings the black surfaces
\* back (shell.c:139-160).
LossNoticed ==
    child = "exited" /\ "client" \in live ~> "client" \notin live \/ fault # "none"

=============================================================================
