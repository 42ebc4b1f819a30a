------------------------------- MODULE Outputs -------------------------------
(***************************************************************************)
(* The part of src/main.c that follows the monitors: heads come and go,    *)
(* heads_changed attaches them to outputs, enables those and disables      *)
(* them again.  Any of the steps may be refused by the backend.            *)
(*                                                                         *)
(* A head stands for the address of its struct weston_head as well, and an *)
(* output for the struct ivi_output of that name, which is never freed.    *)
(* The order in which libweston lists the heads is left open.              *)
(* What attaching, enabling and detaching do in libweston is taken from    *)
(* how main.c uses them.                                                   *)
(***************************************************************************)
EXTENDS Integers, Sequences, SequencesExt, FiniteSets

CONSTANTS
    Heads,
    Outputs,          \* the output names the configuration can lead to
    NULL,
    Controls,         \* the output a head's configuration names; NULL for mode=off
    NonDesktop,       \* heads that are not for the desktop (head-mounted displays)
    AddLength,        \* ARRAY_LENGTH of ivi_output.add
    MayNotCreate,     \* outputs that libweston may not be able to create,
    MayMisconfigure,  \* whose mode or size the backend may reject,
    MayNotEnable,     \* and that may not work with the heads attached
    MayRefuse,        \* heads the backend may refuse to attach
    Removable         \* heads the backend may destroy

ASSUME OutputsAssumption ==
    /\ IsFiniteSet(Heads)
    /\ NULL \notin Outputs
    /\ Controls \in [Heads -> Outputs \cup {NULL}]
    /\ AddLength \in Nat \ {0}
    /\ NonDesktop \cup MayRefuse \cup Removable \subseteq Heads
    /\ MayNotCreate \cup MayMisconfigure \cup MayNotEnable \subseteq Outputs

VARIABLES
    heads,        \* the compositor's heads
    connected,    \* those with a monitor
    attached,     \* the output a head is attached to
    watched,      \* the heads with a handle_head_destroy listener
    outputs,      \* ivi->outputs
    weston,       \* ivi_output.output: "null", "disabled" or "enabled"
    add,          \* ivi_output.add, up to add_len
    initFailed,   \* ivi->init_failed
    changed,      \* whether a call of heads_changed is due
    todo,         \* the outputs that heads_changed has still to process
    fault         \* the C function that followed a bad pointer, or "none"

headVars   == <<heads, connected>>
outputVars == <<attached, watched, weston, add, initFailed>>
vars == <<headVars, outputVars, outputs, changed, todo, fault>>

Faults == {"none", "process_output", "try_attach_heads", "try_enable_output",
           "add_head_destroyed_listener"}

\* heads_changed runs to its end before anything else does.
Running == fault = "none" /\ todo = {}

Enabled(h) == attached[h] # NULL /\ weston[attached[h]] = "enabled"
HeadsOf(o) == {h \in Heads : attached[h] = o}

Crash(function) ==
    /\ fault' = function
    /\ UNCHANGED outputVars

Init ==
    /\ heads = {} /\ connected = {}
    /\ attached = [h \in Heads |-> NULL]
    /\ watched = {}
    /\ outputs = {}
    /\ weston = [o \in Outputs |-> "null"]
    /\ add = [o \in Outputs |-> <<>>]
    /\ initFailed = FALSE
    /\ changed = FALSE /\ todo = {}
    /\ fault = "none"

-----------------------------------------------------------------------------
\* What the backend does: it adds heads, plugs monitors in and out, and
\* destroys heads.

HeadAdded(h) ==
    /\ Running
    /\ h \notin heads
    /\ heads' = heads \cup {h}
    /\ connected' \in {connected, connected \cup {h}}
    /\ changed' = TRUE
    /\ UNCHANGED <<outputVars, outputs, todo, fault>>

ConnectionChanged(h) ==
    /\ Running
    /\ h \in heads
    /\ connected' = IF h \in connected THEN connected \ {h} ELSE connected \cup {h}
    /\ changed' = TRUE
    /\ UNCHANGED <<heads, outputVars, outputs, todo, fault>>

\* handle_head_destroy and, through weston_output_destroy,
\* handle_output_destroy.  The ivi_output stays, with a null output.
LastHead(h) == h \in watched /\ HeadsOf(attached[h]) = {h}

\* libweston detaches a head that goes, and disables an output without heads.
LeftBy(h) ==
    IF LastHead(h) THEN "null"
    ELSE IF HeadsOf(attached[h]) = {h} THEN "disabled" ELSE weston[attached[h]]

HeadDestroyed(h) ==
    /\ Running
    /\ h \in Removable \cap heads
    /\ heads' = heads \ {h}
    /\ connected' = connected \ {h}
    /\ watched' = watched \ {h}
    /\ attached' = [attached EXCEPT ![h] = NULL]
    /\ weston' = [o \in Outputs |-> IF o = attached[h] THEN LeftBy(h) ELSE weston[o]]
    /\ UNCHANGED <<add, initFailed, outputs, changed, todo, fault>>

-----------------------------------------------------------------------------
\* heads_changed, the loop over the heads: head_prepare_enable and
\* head_disable

MutWanted(h) == ~Enabled(h) /\ h \notin NonDesktop
Wanted(h) == h \in connected /\ ~Enabled(h) /\ h \notin NonDesktop
Unplugged == {h \in heads : h \notin connected /\ Enabled(h)}

\* The heads for which ivi_ensure_output may fail: libweston may be unable to
\* make their output for one of them and able for the next.  Those come first,
\* for an output that was made stays.
Deniable == {h \in heads : Wanted(h) /\ Controls[h] \in MayNotCreate \ outputs}

\* The heads that go into an output's add array, which may still hold some.
Candidates(o, denied) == {h \in heads \ denied : Wanted(h) /\ Controls[h] = o}
Queues(denied) ==
    {q \in [Outputs -> UNION {SetToSeqs(Candidates(o, denied)) : o \in Outputs}] :
        \A o \in Outputs : q[o] \in SetToSeqs(Candidates(o, denied))}

MutFilled(s) == s
Filled(s) == SubSeq(s, 1, IF Len(s) < AddLength THEN Len(s) ELSE AddLength)

Ensured(denied) == outputs \cup {o \in Outputs : Candidates(o, denied) # {}}

\* The output is disabled when the last head has left it.
MutAbandonedNever(o) == FALSE
MutAbandonedEarly(o) == weston[o] = "enabled" /\ HeadsOf(o) \cap Unplugged # {}
Abandoned(o) ==
    /\ weston[o] = "enabled"
    /\ HeadsOf(o) # {} /\ HeadsOf(o) \subseteq Unplugged

HeadsChanged ==
    /\ Running
    /\ changed
    /\ changed' = FALSE
    /\ \E denied \in SUBSET Deniable : \E queue \in Queues(denied) :
          /\ outputs' = Ensured(denied)
          /\ add' = [o \in Outputs |-> Filled(add[o] \o queue[o])]
          /\ weston' = [o \in Outputs |->
                           IF o \in outputs' \ outputs \/ Abandoned(o)
                           THEN "disabled" ELSE weston[o]]
    /\ todo' = {o \in Outputs : add'[o] # <<>>}
    /\ attached' = [h \in Heads |-> IF h \in Unplugged THEN NULL ELSE attached[h]]
    /\ UNCHANGED <<headVars, watched, initFailed, fault>>

-----------------------------------------------------------------------------
\* heads_changed, the loop over the outputs: process_output

\* try_attach_heads: the positions of add that fail.  A head that is attached,
\* by an earlier position if not before, is refused by libweston itself.
Rejects(o, refused) ==
    {i \in DOMAIN add[o] :
        \/ add[o][i] \in refused \/ attached[add[o][i]] # NULL
        \/ \E j \in 1 .. i - 1 : add[o][j] = add[o][i]}

\* A pointer in add to a head that has gone.
Stale(o) == ~(ToSet(add[o]) \subseteq heads)

\* A head that fails after one that did not: the memmove then copies over the
\* latter what is at the address it points to, for its source lacks an "&".
Jumbled(accepted, rejected) == \E i \in accepted, j \in rejected : i < j

\* The next one to fail reads through what was put there.
Misread(accepted, rejected) ==
    \E i \in accepted, j, k \in rejected : i < j /\ j < k

AttachedWith(o, positions) ==
    [h \in Heads |-> IF h \in {add[o][i] : i \in positions} THEN o ELSE attached[h]]

\* A round that fails for an output forgets its heads, and leaves attached
\* what was.
Fail(o) ==
    /\ add' = [add EXCEPT ![o] = <<>>]
    /\ initFailed' = TRUE
    /\ UNCHANGED <<watched, weston, fault>>

\* configure_output: the backend rejects the mode or the size.
ConfigureFails(o, accepted) ==
    /\ o \in MayMisconfigure
    /\ attached' = AttachedWith(o, accepted)
    /\ Fail(o)

\* process_output, when the output is enabled.
AttachMore(o, accepted, rejected) ==
    /\ attached' = AttachedWith(o, accepted)
    /\ \/ rejected # {} /\ Fail(o)
       \/ /\ rejected = {}
          /\ add' = [add EXCEPT ![o] = <<>>]
          /\ UNCHANGED <<watched, weston, initFailed, fault>>

(***************************************************************************)
(* try_enable_output and the end of try_attach_enable_heads.  The output   *)
(* is tried with all the heads that were attached, then without the last   *)
(* one, and so on; givenUp is the number of heads that are detached        *)
(* again.  Moving one of them before the others writes one place past the  *)
(* end of add.                                                             *)
(***************************************************************************)
Kept(o, givenUp) == 1 .. Len(add[o]) - givenUp

Enable(o, accepted, givenUp) ==
    LET works == accepted \cap Kept(o, givenUp)
        n == Len(add[o]) IN
    /\ weston' = [weston EXCEPT ![o] = "enabled"]
    /\ attached' = AttachedWith(o, works)
    /\ watched' = watched \cup {add[o][i] : i \in works}
    /\ add' = [add EXCEPT ![o] = SubSeq(@, 1, n - Cardinality(accepted))
                                   \o Reverse(SubSeq(@, n - givenUp + 1, n))]
    /\ UNCHANGED <<initFailed, fault>>

\* All that were attached are detached again.
MutGiveUpAll(o, accepted) ==
    /\ \E i \in DOMAIN add[o] : attached' = AttachedWith(o, {i} \cap accepted)
    /\ Fail(o)
GiveUpAll(o, accepted) ==
    /\ UNCHANGED attached
    /\ Fail(o)

TryEnable(o, accepted, givenUp) ==
    \/ givenUp > 0 /\ Len(add[o]) = AddLength /\ Crash("try_enable_output")
    \/ /\ givenUp > 0 => Len(add[o]) < AddLength
       /\ givenUp = Cardinality(accepted)
       /\ GiveUpAll(o, accepted)
    \/ /\ givenUp > 0 => Len(add[o]) < AddLength
       /\ givenUp < Cardinality(accepted)
       /\ Enable(o, accepted, givenUp)

GivenUp(o, accepted) ==
    IF o \in MayNotEnable THEN 0 .. Cardinality(accepted) ELSE {0}

\* try_attach_enable_heads, when the output is not enabled.
AttachEnable(o, accepted, rejected) ==
    \/ ConfigureFails(o, accepted)
    \/ /\ Jumbled(accepted, rejected)
       /\ Crash("add_head_destroyed_listener")
    \/ /\ ~Jumbled(accepted, rejected)
       /\ \E givenUp \in GivenUp(o, accepted) : TryEnable(o, accepted, givenUp)

ProcessOutput(o) ==
    /\ fault = "none"
    /\ o \in todo
    /\ todo' = todo \ {o}
    /\ \/ weston[o] = "null" /\ Crash("process_output")
       \/ weston[o] # "null" /\ Stale(o) /\ Crash("try_attach_heads")
       \/ /\ weston[o] # "null" /\ ~Stale(o)
          /\ \E refused \in SUBSET MayRefuse :
                LET rejected == Rejects(o, refused)
                    accepted == DOMAIN add[o] \ rejected IN
                \/ Misread(accepted, rejected) /\ Crash("try_attach_heads")
                \/ /\ ~Misread(accepted, rejected)
                   /\ \/ weston[o] = "enabled" /\ AttachMore(o, accepted, rejected)
                      \/ weston[o] = "disabled" /\ AttachEnable(o, accepted, rejected)
    /\ UNCHANGED <<headVars, outputs, changed>>

-----------------------------------------------------------------------------
Next ==
    \/ \E h \in Heads : HeadAdded(h) \/ ConnectionChanged(h) \/ HeadDestroyed(h)
    \/ HeadsChanged
    \/ \E o \in Outputs : ProcessOutput(o)

Spec == Init /\ [][Next]_vars

-----------------------------------------------------------------------------
TypeOK ==
    /\ heads \in SUBSET Heads
    /\ connected \in SUBSET Heads
    /\ attached \in [Heads -> Outputs \cup {NULL}]
    /\ watched \in SUBSET Heads
    /\ outputs \in SUBSET Outputs
    /\ weston \in [Outputs -> {"null", "disabled", "enabled"}]
    /\ add \in [Outputs -> Seq(Heads)]
    /\ \A o \in Outputs : Len(add[o]) <= AddLength
    /\ initFailed \in BOOLEAN
    /\ changed \in BOOLEAN
    /\ todo \in SUBSET outputs
    /\ fault \in Faults

\* An enabled output has a head, whichever of its heads were unplugged,
\* refused, detached to make it work or destroyed: nothing is drawn for an
\* output that no monitor shows (main.c:144, 340-355, 413).
EnabledHasHead ==
    \A o \in Outputs : weston[o] = "enabled" => HeadsOf(o) # {}

\* A head with a monitor that is shown stays shown, whatever becomes of the
\* other heads, its clones among them (main.c:144, 387-391, 413).
ShownStaysShown ==
    [][\A h \in connected : Enabled(h) /\ h \in heads' => Enabled(h)']_vars

Settled == Running /\ ~changed

\* Unless its mode is rejected, a head is attached only to an output that works:
\* what was attached for an output that cannot be enabled is detached again, to
\* the last one (main.c:340-355).
NotHalfAttached ==
    Settled => \A h \in Heads :
        attached[h] # NULL /\ attached[h] \notin MayMisconfigure => Enabled(h)

\* Outputs for which the backend refuses nothing.
Reliable ==
    {o \in Outputs \ (MayNotCreate \cup MayMisconfigure \cup MayNotEnable) :
        \A h \in MayRefuse : Controls[h] # o}

\* Of the desktop heads on a reliable output heads_changed leaves exactly those
\* with a monitor shown, whatever was plugged, unplugged or destroyed since the
\* last call and whatever failed for other outputs (main.c:497-524).
ConnectedIffEnabled ==
    Settled => \A h \in heads \ NonDesktop :
        Controls[h] \in Reliable => (Enabled(h) <=> h \in connected)

=============================================================================
