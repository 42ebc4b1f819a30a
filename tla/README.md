# TLA+ models of agl-compositor

agl-compositor is the Wayland compositor of Automotive Grade Linux: a `main`
that sets up libweston, outputs and heads (`src/src/main.c`), a shell protocol
of its own, `agl_shell`, with which one privileged client arranges the screen
(`src/src/shell.c`, `src/protocol/agl-shell.xml`), the callbacks
libweston-desktop makes for every toplevel (`src/src/desktop.c`), and the
layout that decides which application each output shows (`src/src/layout.c`).
These modules model that code for TLC and prove theorems about it with TLAPS.
Every definition was translated from the source; `PROJECT.json` gives the lines
of each.

## 1. The system

The process is single-threaded. `wl_event_loop_dispatch` runs one handler to
its end; what interleaves is the order in which the handlers of different
clients, of hotplug and of timers run. There are no locks and nothing is
persisted. What makes the code hard is *lifetime*: toplevels, views, structs,
protocol resources and clients are destroyed independently of each other, and
plain pointers connect them.

| Component | Source | State it keeps | Operations | Talks to |
|---|---|---|---|---|
| agl_shell interface | `shell.c`, `agl-shell.xml` | the bound resource, `ready`, the black surface of each output | `bind_agl_shell`, `shell_ready`, `shell_set_background`, `shell_set_panel`, `shell_activate_app`, `unbind_agl_shell` (destructor) | calls Layout; takes surfaces out of the pending list; frees structs |
| layout | `layout.c` | `output->active`, `output->area`, `pending_output`, `last_output`, which view is in which `weston_layer`, positions | `ivi_layout_init`, `ivi_layout_activate`, `ivi_layout_activate_complete`, `ivi_layout_desktop_committed`, `ivi_layout_panel_committed` | called by the other two; sends configures through libweston-desktop |
| desktop callbacks | `desktop.c` | the structs `ivi_surface`, the lists `surfaces` and `pending_surfaces` | `desktop_surface_added`, `desktop_surface_removed`, `desktop_committed` (the rest of `desktop_api` is empty) | called by libweston-desktop; calls Layout |
| outputs and heads | `main.c` 49-162, 276-525 | `ivi->outputs`, each output's `add[8]`, `init_failed` | `heads_changed`, `process_output`, `head_disable`, `handle_head_destroy`, `handle_output_destroy` | libweston's heads and outputs |
| output configuration | `main.c` 164-309, 419-450, 606-655 | `output->config`; reads the ini file | `find_controlling_output_config`, `windowed_create_outputs`, `configure_output` with mode, size, scale and transform | outputs |
| shell client launch | `shell.c` 92-185 | a process, a socket pair, `shell_client.client` | `ivi_launch_shell_client`, `launch_shell_client`, `client_exec` | `fork`, `exec`, libwayland |
| startup and shutdown | `main.c` `main` | everything, once | the sequence of initialisations and its error labels | all of the above |
| input activation | `main.c` bindings | libweston's seat | click and touch to activate | libweston |
| systemd notification | `systemd-notify.c` | the notifier, its watchdog timer | READY, STOPPING, watchdog, socket activation | systemd, the event loop |
| command line parser | `option-parser.c` | `argv` | `parse_options` | main, backends |
| OS compatibility, string helpers | `shared/` | none | wrappers of system calls and of `strtol` | all |

### How they interact

* A client's toplevel is known to libweston when the client asks for it and
  *announced* (`desktop_surface_added`) at its first commit. Between the two its
  user data is null.
* Before the shell client says `ready`, every announced toplevel waits in
  `pending_surfaces`; `set_background` and `set_panel` take surfaces of the
  shell client out of it into an output's slots; `ready` turns what is left into
  desktop surfaces (applications), in `surfaces`.
* `activate_app` finds an application by its app_id. If it has the size of the
  output's usable area it is shown at once; otherwise it is told the size,
  remembered as waiting (`pending_output`), put into the hidden layer so that it
  gets frame events, and shown by the commit that has the size.
* `desktop_surface_removed` frees the struct of an application. The structs of
  backgrounds and panels are freed by `unbind_agl_shell` alone, when the shell
  client goes, which also empties both lists and brings the black surfaces back.
  The next shell client starts from there.
* wl_client_destroy destroys the resources of one client one after another;
  the toplevels and the `agl_shell` of a shell client go in either order.

### Hard behaviours, and what makes each component correct

* **agl_shell**: a request may name a surface in any stage of its life; a shell
  client may die at any point and another take over. Correct: slots, roles,
  back pointers and lists agree, so a struct is freed once and no list keeps it
  (`SlotsAgree`, `ListsMatchRoles`); outputs are black exactly while there is no
  ready shell (`BlackUntilReady`); the usable area is clear of panels.
* **layout**: activations on several outputs, commits, removals and restarts of
  the shell interleave, and an application has one view for all outputs. Correct:
  `is_mapped` and the layer agree (`MappedIffInLayer`), no view is forgotten on
  screen (`NoOrphanOnScreen`) or in the hidden layer (`HiddenOnlyWhilePending`),
  an application is never seen at the wrong size (`NeverShownMisfit`), an
  activation completes (`ActivationSettles`).
* **desktop callbacks**: user data and struct live as long as the toplevel
  (`LiveHaveStructs`).
* **outputs and heads**: monitors come and go between two calls of
  `heads_changed`, and the backend may refuse any step of attaching and enabling.
  Correct: an enabled output has a head (`EnabledHasHead`), no head goes dark
  because of another (`ShownStaysShown`), what failed is undone
  (`NotHalfAttached`), and where nothing fails the outputs follow the monitors
  (`ConnectedIffEnabled`). An output that is there all the time is black exactly
  while no shell is ready (`BlackUntilReady` of `Screens`).
* **command line, output configuration**: five tables are read one after the
  other from one vector that is compacted meanwhile; sections refer to each other.
  Correct: a plain command line means what it says (`PlainLinesExact`), every head
  gets to the output its same-as lead to (`HeadsFollowSameAs`), which is configured
  as asked (`ConfiguredAsAsked`), cycles of same-as end (`Settles`), no input but
  three kinds crashes it (`CrashesOnlyOn`).
* **shell client launch**: two processes run, and either may fail or go, with the
  socket pair open in both. Correct: each has its own end only (`EndsAreOwned`),
  and the compositor notices that the child is gone (`LossNoticed`).
* **startup, shutdown, systemd**: each initialisation may fail and jump to one of
  two labels; signals come at any moment. Correct: releases are complete and in
  order (`EndsClean`, `NothingOutlives`), systemd hears of the end and in time
  before it (`EndAnnounced`, `PingsInTime`), a signal ends the process
  (`StopsWhenTold`).

## 2. Modules

| Module | Models | Extends |
|---|---|---|
| `IviState` | the constants and their assumptions, the variables (structs of `ivi-compositor.h`, what libweston knows of a toplevel, the event loop), posting a protocol error, using a dead object | |
| `Layout` | `layout.c`, as operators the handlers use | `IviState` |
| `Desktop` | `desktop.c`, one action per callback, and what libweston does around each | `Layout` |
| `Shell` | `shell.c` 58-527, one action per request (two for `set_panel`, whose edge may be none of the enumeration), the destructor, the rest of wl_client_destroy | `Layout` |
| `IviCompositor` | `Init`, `Next`, `Spec`, `FairSpec`, and every property | `Desktop`, `Shell` |
| `MCIviCompositor` | values of the constants for TLC | `IviCompositor` |
| `IviCompositorProofs` | the theorems | `IviCompositor`, `TLAPS` |
| `SteadyProofs` | theorems of an instance where nobody goes away | `IviCompositorProofs` |
| `Presentation` | abstract: the part each toplevel has, and which applications are on screen | |
| `PresentationProofs` | that `IviCompositor` implements it | `IviCompositorProofs` |
| `Outputs` | `main.c` 49-162 and 276-525: heads, `heads_changed` and everything it calls, the destruction of heads and outputs | |
| `MCOutputs`, `OutputsProofs` | values for TLC; the theorems | `Outputs` |
| `Screens` | composes `Outputs` with the black surfaces of `shell.c` and with shell clients that bind, are ready and go | `Outputs` |
| `MCScreens`, `ScreensProofs` | values for TLC; the theorems, and that `Screens` implements `Outputs` | `Screens`, `OutputsProofs` |
| `OptionParser` | `option-parser.c` and the tables of `main.c` | |
| `OutputConfig` | sections, and the settings of one output, as operators | `OptionParser` |
| `Configuration` | `main` from the command line to configured outputs | `OutputConfig` |
| `MCConfiguration`, `ConfigurationProofs` | values for TLC; the theorems | `Configuration` |
| `Service` | `main` and its labels, signals, the event loop's end, `systemd-notify.c` | |
| `ServiceProofs` | the theorems | `Service` |
| `Launch` | composes `Service` with the launch and the process of the shell client | `Service` |
| `MCService`, `LaunchProofs` | values for TLC; the theorems, and that `Launch` implements `Service` | `Launch`, `ServiceProofs` |

The shell's modules have a fixed set of outputs; `Screens` has outputs that come
and go, and of the shell only its black surfaces. In `Outputs` the output of a head
is a constant, `Controls`; `Configuration` computes it.

### Correspondence

`surfaces`, `pending`: `ivi->surfaces`, `ivi->pending_surfaces`. `slot[o][k]`:
`output->background/top/bottom/left/right`. `role`, `anchor`, `pendingOutput`,
`lastOutput`: the fields of `struct ivi_surface` and of its union; one field of
the union is valid per role, so the others are separate variables that are reset
when the struct is freed. `allocated`: the structs that exist. `bare` and
`toplevels`: libweston's `weston_desktop_surface`, before and after it is
announced. `mapped`, `layer`, `pos`: of the view. `geom`, `maximized`: of the
last commit; `conf`: the size of the last maximized configure. `black[o]`: the
black surface's view is mapped. `dying`, `error`: the client wl_client_destroy is
taking down and the error that was posted to it.

A surface's name stands for the *address* of its struct as well: when a struct is
freed and the surface made again, a pointer that was not cleared points to the new
one, as in the C heap. A handler that follows a pointer to a dead object has no
defined outcome: `fault` records the function and the process stops there
(so the configurations do not look for deadlocks). Properties are about the states
before it.

In `Outputs`: `heads`, `connected` and `attached` are libweston's; `weston[o]` is
`ivi_output.output` (null, or disabled, or enabled), `add[o]` its array up to
`add_len`, `watched` the heads with a `handle_head_destroy` listener, `initFailed`
is `ivi->init_failed`. `changed` is libweston's pending heads-changed signal.
`heads_changed` is two kinds of steps, its loop over the heads (`HeadsChanged`)
and one `ProcessOutput(o)` for each output whose `add` is not empty (`todo`); no
other action is enabled between them (`Running`), as in the code.

In `Service`: `phase` is the next statement of `main` or its label, `live` what was
made and not released, `run` is `display->run`, `signalled` a signal in a
signalfd, `due` and `silence` the watchdog's timer and systemd's. In `Launch`,
`launch` is the next step of `launch_shell_client`, `child` how far the process is,
`holds` the ends of the socket pair each process has open. Each step of `Service`
is a step of `Launch` that also closes the compositor's end when the client goes.

In `OptionParser`: `tables` are the calls of `parse_options` to come, `argv`, `argc`,
`i`, `j` the C variables, `val` where the value of each option comes from; `given`
and `origin` are history. One step is one turn of the loop. In `Configuration`,
`stage` is how far `main` is, `heads` those the loop of `heads_changed` has to look
at, `same_as` and `depth` the variables of `find_controlling_output_config`, whose
loop takes one step per section.

In `Screens`, `black[o]` is the black surface of an output: none, freed, or one whose
view is mapped or not; `lasting` (history) are the outputs enabled since startup.

`Presentation` sees `resource` and `ready` as `shell`; a surface's `part` is its role,
where it has one, and else the list its struct is in (`PartOf`); `visible` is the
layer of applications. Everything else, geometry, outputs, slots, lists, the hidden
layer, the destruction of clients in pieces, is hidden by the mapping.

### Abstractions

* The two lists are sets. The order of `ivi->surfaces` decides only which of
  several surfaces with one app_id `ivi_find_app` returns; `Activate` leaves it open.
* `geom.x` and `geom.y` of a window geometry are 0; coordinates are relative to
  the output.
* Of several unacknowledged configures only the last is kept: a client
  acknowledges the newest.
* A commit of a null buffer, which unmaps the toplevel in libweston, is left out.
* A surface keeps its app_id and its client; outputs are a fixed set.
* The wl_resource_post_error to a client destroys it before another of its
  requests is dispatched: `Running` is false while `dying` is not null.
* Allocation fails only where the code checks it (`OutOfMemory`).
* `Mortal` and `Closable` bound who may go away, so that a run can ask what holds
  when nobody does.
* `Outputs`: which of the backend's refusals are possible, and which heads it may
  destroy, are constants; creating an output may fail for one head and succeed for the
  next one of the same output; the order in which libweston lists heads is open; memory
  does not run out. Reading a mode, a scale or a transform is a choice between
  success and failure (`ConfigureFails`). The `memmove` of `try_attach_heads` with
  the wrong source address is modelled by where its garbage is first used.
* `Launch`: the child's signal mask and user are left out; a failure of `seteuid`,
  `dup` or `execl` is one step, as `_Exit` follows each.
* `OptionParser`: a word is the number of its dashes, the option whose name or
  letter comes next, whether the word ends there, goes on with `=`, or goes on
  otherwise, and the number its value is. No name in the tables is a prefix of
  another and no letter is used twice, so at most one option matches and its place
  in the table does not matter. Option types are those of the tables.
* `Configuration`: a section has the keys the code in scope reads; `mode` is one of
  the words it is compared with, or a size, or other. `TooDeep` is the code's guard,
  with `MaxNesting` for 8. That the backend rejects an output or its settings is a
  choice. What the command line or the file names for backend may be none of the three.
  `weston_output_set_scale` is called twice for some outputs (`main.c:241`, `302`): the
  later call counts, and what libweston says to a scale that is set twice is outside the
  source. `--sprawl` either crashes where its value is stored or overwrites variables that
  are not read when it is given, for then there is no windowed api (`main.c:699-705`).
  It covers startup: the first `heads_changed`, after which `Outputs` goes on.
  `Names` holds the names the backends give to outputs without a section, for any
  `--output-count` that a word may ask for (`ConfigurationAssumption`); what an int does with
  a larger number is not in the model.
* `Screens`: whether libweston announces the destruction of an output when it
  disables it is left open, and `create_black_surface_view` does not run out of
  memory.
* `Service`: time is counted only while the watchdog is armed; handlers take at
  most `HandlerTime`. A value of `WATCHDOG_USEC` that is no number is 0, for the
  code treats both alike. `NothingOutlives` says which release must wait for which:
  event sources and globals for the display, a client for the display and the
  compositor, the notifier for the compositor, the watchdog's timer for the notifier.

## 3. Runs

Surfaces `bg` and `panel` belong to the shell client, `app1` and `app2` to
another; sizes are 3x3 (and 3x4 for the second output), panels are one thick, an
application's own size is 2x3, so that "too small", "fits but not maximized", "fits one output and not the
other" and "no geometry yet" all occur. Reachability of each action and branch was
confirmed with TLC's coverage.

| Run | Instance | Asks |
|---|---|---|
| `Restarts` | 1 output, `bg`, `panel`, `app1`; everyone may close, misbehave, die, come back; allocation may fail; 665 k states | all bookkeeping invariants, and that it implements `Presentation` |
| `TwoOutputs` | 2 outputs of different heights, `bg`, two applications, activation by default on; both clients may die and come back, the shell with other panels; 2.4 M states | `NeverReplacesItself`, `NeverShownMisfit` and `Presentation` when outputs compete for one view, and when an activation outlives the shell that asked for it |
| `Steady` | 1 output, four edges, two applications, nobody goes; 39 k states | what is active is shown and fills the area, every surface gets a role, panels are clear at ready |
| `Settles` | 1 output, `panel`, two applications that may close and die; 86 k states | liveness of activation |
| `Hotplug` | 3 outputs, 5 heads of which 3 are clones; one output reliable, one that may not be enabled and whose heads may be refused, one that may fail in every way; `add` holds 3; 1.3 M states | no dark or half attached head, no headless output, `add` bounded, reliable outputs follow the monitors |
| `Screens` | 2 outputs, 3 heads of which 2 may be destroyed; one output that may not be created or enabled; 164 k states | black surfaces of the outputs that last, and that only others break any |
| `Service` | every step may fail, in `main` and in the launch; 9 values of `WATCHDOG_USEC` around 0, 2000 and the largest int (9999); handlers take 2 ms; 17 k states | order and completeness of releases, notification protocol, watchdog deadline, ends of the socket pair, end after a signal, loss of the shell client |
| `Configuration` | all lines of up to 3 of 17 words with one file or (2 words) none; 3 lines with any file of up to 2 sections of 16, and chains of 3; `MaxNesting` 1, `add` holds 2; 1.06 M states | command line, same-as, settings, crashes, and that startup ends |

Why the bounds are enough: the handlers touch one output and one or two
surfaces at a time (the one named and the one it replaces); two applications and
two outputs are the least with a third party to every handler, and nothing in the
code counts further. In `Hotplug` three clones are the least that can fill `add`
past its end and fail in the middle; the array has 3 places instead of 8. In
`Service` the constants only scale the arithmetic. In `Screens` one output is there at
startup and can last, while another comes and goes. In `Configuration` an option and
its value are at most two words, so three show what follows a pair, and what a pair
that is cut by the end of the line does; the words are one of each kind: a long
and a short flag, one that goes on, a string, a number, their values within the
word and after it, an option of another backend, an unknown one. Three sections are
a chain one longer than `MaxNesting` lets pass, and every cycle. The theorems remove
the bounds for the properties that section 4 names.

**Fairness.** `FairSpec` is `Spec` with weak fairness of `FinishDestroy`
(wl_client_destroy is a C function: it returns) and strong fairness of
`Acknowledge(s)`: a client whose view is mapped, and hence gets frame events,
acknowledges the configure it was sent. That is an assumption about clients, the
one the code makes in the comment at `layout.c:374-378`. It is strong because
others may disconnect between any two of its chances, which disables every
request for that time. Nothing is assumed of clients that are in no layer. No
fairness is needed for requests: nobody has to ask for anything. In `Service`
weak fairness says that `main` goes on from statement to statement and that the
event loop, which is level-triggered, reports a pending signal; in `Launch` also a
hang-up of the shell client's socket. `Configuration` is sequential, and weak
fairness of its next step says that `main` runs on.

### Where the code does not do what it says

Each of these runs checks one property quoted from a comment or from the
protocol's description, and TLC finds a behaviour of the code that violates it.

| Run | Property | What happens |
|---|---|---|
| `StaleActive` | `NoStaleActive` | activating A, B, A again by the direct path clears `last_output` of A; closing A leaves `output->active` dangling |
| `DelayedSurfaces` | `DelayedNotLost` | an application that waited when the shell client died never becomes a desktop surface |
| `StuckActivation` | `ActivationSettles` | on two outputs a waiting view can be hidden altogether; it gets no frames and waits for ever |
| `AssertedOption` | `BooleansAreHandled` | `--helpful` or `--help=1` with any word after it aborts on the assertion that no boolean gets there |

Further divergences met while modelling, without a run of their own:

* a panel whose geometry comes after `ready` is drawn over the usable area
  (`layout.c:328`), though `agl-shell.xml:85-86` says panels are not covered;
* an application that closes before `ready` stays in `pending_surfaces` and is made
  a desktop surface by `ready`; the first `activate_app` reads its destroyed toplevel
  (`desktop.c:108`);
* a second panel on an edge is answered with `background_exists` (`shell.c:395`);
* a toplevel that is not announced yet makes `set_background` dereference null
  (`shell.c:314`);
* an application moved to a second output stays active on the first, which then
  blanks both (`layout.c:208`);
* when an output works with some of its clones only, the others stay in `add` after
  `heads_changed` (`main.c:381`), which `ivi-compositor.h:122` calls temporary, and
  the next call attaches them, unplugged or destroyed as they may be;
* the `memmove` of `try_attach_heads` copies from an address that is a list member
  instead of its place (`main.c:326`), and moving a head to the front of a full
  `add` writes past it (`main.c:350`);
* an output whose `weston_output` was destroyed is processed again (`main.c:56`);
* an output that appears after startup has no black surface, and `ready` follows
  the pointer to it (`shell.c:235`); the surface of an output that goes is freed and
  the pointer kept (`shell.c:200`); that of an output that was not enabled at startup
  is made with whatever size it has then (`shell.c:221`);
* a configuration file that cannot be read makes `main` destroy a null display
  (`main.c:1154`);
* `--sprawl` is declared as a string and stored into an `int` (`main.c:673`);
* `--current-mode` has no effect on an output without a section (`main.c:175-182`);
* nothing waits for the shell client's process or starts it again (`shell.c:139`).

Where the code dereferences a bad pointer or aborts the models stop, with `fault` or
`shellFault`.

## 4. Theorems

`IviCompositorProofs` proves, for any sets of surfaces, clients, outputs and
app_ids, any sizes and any owner, from `ConstantsAssumption` alone:

* `Inductive`: `Spec => []IInv`, where
  `IInv == TypeOK /\ BlackUntilReady /\ ObjectInv /\ ViewInv`;
* its consequences `TypeCorrect`, `BlackUntilReadyHolds`, `SlotsAgreeHolds`,
  `ListsMatchRolesHolds`, `LiveHaveStructsHolds`, `MappedIffInLayerHolds`,
  `NoOrphanOnScreenHolds`, `HiddenOnlyWhilePendingHolds`, `NeverReplacesItselfHolds`;
* the action properties `NeverShownMisfitHolds` and `ReadyReservesPanelsHolds`.

`ObjectInv` joins slots, lists and lifetimes: whether a struct freed by
`unbind_agl_shell` is the last reference needs that a slot's surface belongs to
the bound client; that needs a client's toplevels and its resource to go together;
and a promoted surface's role needs that it was in `pending` only, in no slot.
None is inductive without the others. `ViewInv` joins `MappedIffInLayer`,
`NoOrphanOnScreen`, `HiddenOnlyWhilePending` and `NeverReplacesItself`: replacing
the active view keeps the new one on screen only if an activation never waits on
the output that shows it already.

The proof of each step has one case per action; the operators of `Layout` have
lemmas of their own, cited by the actions that use them.

`PresentationProofs` proves `Refinement`: `Spec => ImplementsPresentation`. Under `IInv`
and `OnlyApplicationsShown` (the layer of applications has nothing else in it), each
action is an action of `Presentation` or leaves its three mapped variables alone.
That no more applications are on screen than there are outputs rests on
`NoOrphanOnScreen`, which makes `active` a map from the outputs onto them, and on the
finiteness of `Outputs`.

`SteadyProofs` proves what holds only where nobody goes away (it is false in general,
see section 3); the conditions are assumptions of the theorems on the constants, which
`Steady.cfg` meets. With `Mortal = {}`, `DelayedNotLostHolds`: nobody is being
disconnected, and what has no role is in `pending` (`WaitInv`). With one output and
`Closable = {}` as well, `ActiveIsShownHolds` and `ActiveFillsAreaHolds`: `SteadyInv` adds
that a client was never told any size but that of the area, so a later commit of the
active surface still fits.

`OutputsProofs`, from `OutputsAssumption`: `OutputsInductive`,
`OutputsTypeCorrect`, `EnabledHasHeadHolds` and `ShownStaysShownHolds`, for any
heads, outputs, configuration and refusals. The inductive invariant adds to
`EnabledHasHead` that only outputs of the list are disabled or enabled and have heads
(`KnownOutputs`): without it `heads_changed` could
make anew, and disabled, an output that is shown. The lemma `ProcessedOK` bounds what is left in `add`.

`NotHalfAttachedHolds` needs only that an attached head is enabled or its output's mode
may be rejected (`AttachedWorks`), which `try_enable_output` restores by detaching one
head after the other. `ConnectedIffEnabledHolds` is about what lies between two calls of
`heads_changed` as well: a head is attached to the output it is configured for, or to
none, and waits in the `add` of that output only (`Routed`); and in the second loop a head
of a reliable output is enabled as it is connected, or waits, once and unattached, in the
`add` of an output that is still to be processed (`RoundInv`). It assumes that the heads
of each reliable output fit into its array (`HeadsFit`): the code drops those beyond
(`main.c:483-486`), and without that assumption the property is false. `Hotplug.cfg`
meets it.

`ScreensProofs`, from `OutputsAssumption`: `ScreensImplementOutputs` (so every theorem
of `Outputs` holds of `Screens`), `ScreensTypeCorrect`, `BlackUntilReadyHolds` and
`LastingAreSafeHolds`. The invariant adds that an output that lasts is in `ivi->outputs`
and enabled (`LastingKnown`): at startup this is `KnownOutputs` of `OutputsProofs`, and
then the list only grows (`OutputsGrow`).

`ServiceProofs`, from `ServiceAssumption`: `TypeCorrect`, `NothingOutlivesHolds`,
`EndsCleanHolds`, `EndAnnouncedHolds` and `PingsInTimeHolds`, for any failures, any
`WATCHDOG_USEC` and any size of int. The invariant says what is live in which
phase (`PhaseInv`), that a service that said READY has its notifier (`ReadyInv`),
and that the time left and the time past add up to the period (`PingInv`), from
which the deadline follows with the bounds of the division (`PeriodBounds`).

`LaunchProofs`, from `ServiceAssumption`: `LaunchImplementsService`, `LaunchTypeCorrect` and
`EndsAreOwnedHolds`. The invariant (`StageInv`) says which ends are open at each step of
the launch and that the launch is over in the phases after it; that there is a client
only in these comes from `ServiceProofs`, through the refinement.

`ConfigurationProofs`, from `WordsAssumption` and `ConfigurationAssumption`, for lines of any
length, files of any size, any number of heads and any `MaxNesting`:

* `CompactsInPlaceHolds`, and `NeverConfiguredOffHolds`: an output keeps the section it
  was made with, which was not off (`NotOffInv`).
* `TypeOKHolds`: `TypeInv` adds to the types that all words before `argc` are words, that
  the number of an option that takes one is a number (`ReadWell`), and that there are no
  outputs before the heads are looked at (`NothingYet`).
* `HeadsFollowSameAsHolds`. `Controlling(name)` is about whole paths of sections, the state
  has only the last name of one and its length. `FollowInv` says there is a path
  (`Trail`) of `depth` same-as from the head to `same_as`; that two paths from one name agree as far
  as both go (`OneWay`) is by least counterexample, and gives that a path that ends,
  or gets too long, excludes every other.
* `PlainLinesExactHolds`. For a line, `Pass` says where the loop of `parse_options` is: `f`
  maps the words of this call to their places in the command line, in order
  (`GoesOver`); it reads no value of an option as a word of its own; the words kept are
  those before `i` that neither this pass nor an earlier one takes; and every option has
  its last value before that place (`LastRead`). `PassLeaves`, `PassTakesOne` and
  `PassTakesTwo` are the three ways on, `PassEnds` the step to the next table: what this
  pass kept is what the next goes over. `PlainInv` is `Pass` of the program's variables;
  that no option belongs to two passes of one backend is `TablesDisjoint`. At
  the end `Ranked` counts: the m-th word left is the m-th of `argv`.
* `CrashesOnlyOnHolds`, from the same invariants: a word the parser crashes on is a word of
  the command line (`WordsInv`), `--sprawl` is in one table only (`PassTable`), and on a plain line
  an option without a value was not given.
* `ConfiguredAsAskedHolds`: the settings of an output are those that `configure_output`
  gives for what the passes have read, and the backend is the one the output
  was made for (`ConfiguredInv`); that a mode line is asked for only with a mode of that
  kind needs `NotOffInv`.
* `EveryStepProgresses`: every step lowers `Measure`, three natural numbers in
  lexicographic order (stages; passes, heads or outputs; words, or same-as to follow), and none
  is made after the end. `EndInv` says that there are finitely many outputs, though `Names`
  may be infinite, and that nothing has crashed in the stage `heads`. With fairness
  this is `Settles`, except that a run that is not over can go on, which needs
  `ENABLED` and is left to TLC.

Only model-checked: `ActivationSettles`, `StopsWhenTold`, `LossNoticed` and `Settles`
(liveness, out of the prover's reach, the last but for the measure above), and the four
properties of section 3 that the code violates.
`PlainLinesExact` and `ConfiguredAsAsked` speak of plain lines; what other lines come to,
where an option takes the next word for its value or is left for want of one, is in
the model and in `CompactsInPlace`, `CrashesOnlyOn` and the types only.

## 5. Not modelled, and the plan

Done: shell, layout, desktop (`IviState` to `IviCompositor`), the abstract `Presentation`,
heads and outputs (`Outputs`), their black surfaces (`Screens`), startup, shutdown and systemd
(`Service`), the shell client's process (`Launch`), command line and output configuration
(`OptionParser`, `OutputConfig`, `Configuration`).

Every invariant and action property of section 3 that holds has its theorem. What is left
to ask is whether `Configuration` is the start of `Outputs`: that its outputs are those of
`Init` there, and that `Controls` is what `find_controlling_output_config` finds.

Not modelled:

* click and touch activation (`main.c` 836-902): it hands a focus to libweston's seat,
  checks the one pointer it reads for null, and changes no state of the compositor;
* a request that names a head without an output (`to_ivi_output` of null,
  `shell.c:298-300`): in `IviCompositor` each output has its head all the time;
* the slots and the active surface of an output that is destroyed: nothing in the
  source reads or clears them when that happens, and what libweston does to the views
  on it is outside the source; in `IviCompositor` outputs stay;
* the log file, `usage`, `compositor_init_config` (keyboard settings for libweston):
  input and output only;
* `os_epoll_create_cloexec`, the anonymous and the sealed files of `os-compatibility.c`:
  nothing in the repository calls them;
* macros of `helpers.h` and the build description.
