---------------------------- MODULE OutputsProofs ----------------------------
(***************************************************************************)
(* Proofs, for every value of the constants, of the type invariant of      *)
(* Outputs, that an enabled output has a head, and that a shown head is    *)
(* not turned off on account of others.                                    *)
(***************************************************************************)
EXTENDS Outputs, FiniteSetTheorems, SequenceTheorems, TLAPS

\* What has a weston_output, a head, or anything in its add array, is in
\* ivi->outputs.
KnownOutputs ==
    \A o \in Outputs :
        add[o] # <<>> \/ weston[o] # "null" \/ HeadsOf(o) # {} => o \in outputs

IInv == TypeOK /\ KnownOutputs /\ EnabledHasHead

-----------------------------------------------------------------------------
\* What goes into the add arrays

LEMMA QueueIsSequence ==
    ASSUME TypeOK, NEW denied, NEW queue \in Queues(denied), NEW o \in Outputs
    PROVE  /\ queue[o] \in Seq(Heads)
           /\ queue[o] # <<>> => Candidates(o, denied) # {}
<1> DEFINE S == Candidates(o, denied)
<1>1. S \in SUBSET Heads
  BY DEF Candidates, TypeOK
<1>2. Cardinality(S) \in Nat /\ (S = {} => Cardinality(S) = 0)
  BY <1>1, FS_Subset, FS_CardinalityType, FS_EmptySet, OutputsAssumption
<1>3. queue[o] \in [1 .. Cardinality(S) -> S]
  BY DEF Queues, SetToSeqs
<1>4. QED
  BY <1>1, <1>2, <1>3

LEMMA FilledIsBounded ==
    ASSUME NEW s \in Seq(Heads)
    PROVE  /\ Filled(s) \in Seq(Heads)
           /\ Len(Filled(s)) <= AddLength
           /\ Filled(s) # <<>> => s # <<>>
BY OutputsAssumption DEF Filled

\* The positions of add that attaching accepts hold heads that were not
\* attached before.
LEMMA AcceptedWereFree ==
    ASSUME TypeOK, NEW o \in Outputs, NEW refused, NEW i \in DOMAIN add[o] \ Rejects(o, refused)
    PROVE  /\ i \in 1 .. Len(add[o])
           /\ add[o][i] \in Heads
           /\ attached[add[o][i]] = NULL
<1>1. add[o] \in Seq(Heads)
  BY DEF TypeOK
<1>2. QED
  BY <1>1 DEF Rejects

\* So attaching takes no head away from an output.
LEMMA AttachingAdds ==
    ASSUME TypeOK, NEW o \in Outputs, NEW refused,
           NEW positions \in SUBSET (DOMAIN add[o] \ Rejects(o, refused)),
           attached' = AttachedWith(o, positions)
    PROVE  /\ attached' \in [Heads -> Outputs \cup {NULL}]
           /\ \A h \in Heads : attached[h] # NULL => attached'[h] = attached[h]
           /\ \A h \in Heads : attached'[h] \in {attached[h], o}
           /\ \A h \in Heads : attached'[h] # attached[h] => \E i \in DOMAIN add[o] : add[o][i] = h
           /\ \A i \in positions : add[o][i] \in Heads /\ attached'[add[o][i]] = o
<1>1. \A i \in positions : add[o][i] \in Heads /\ attached[add[o][i]] = NULL
  BY AcceptedWereFree
<1>2. attached \in [Heads -> Outputs \cup {NULL}]
  BY DEF TypeOK
<1>3. QED
  BY <1>1, <1>2 DEF AttachedWith

-----------------------------------------------------------------------------
\* process_output

\* What a step of process_output establishes, beyond the variables it leaves
\* alone.
ProcessedOK(o) ==
    /\ attached' \in [Heads -> Outputs \cup {NULL}]
    /\ \A h \in Heads : attached[h] # NULL => attached'[h] = attached[h]
    /\ \A h \in Heads : attached'[h] \in {attached[h], o}
    /\ \A h \in Heads : attached'[h] # attached[h] => \E i \in DOMAIN add[o] : add[o][i] = h
    /\ attached' # attached => o \in MayMisconfigure \/ weston'[o] = "enabled"
    /\ watched' \in SUBSET Heads
    /\ weston' \in [Outputs -> {"null", "disabled", "enabled"}]
    /\ \A p \in Outputs : p # o => weston'[p] = weston[p]
    /\ \A p \in Outputs : weston[p] = "enabled" => weston'[p] = "enabled"
    /\ \A p \in Outputs : weston'[p] = "enabled" => weston[p] = "enabled" \/ HeadsOf(p)' # {}
    /\ add' \in [Outputs -> Seq(Heads)]
    /\ \A p \in Outputs : Len(add'[p]) <= AddLength
    /\ \A p \in Outputs : add'[p] # <<>> => add[p] # <<>>
    /\ \A p \in Outputs : p # o => add'[p] = add[p]
    /\ \A i \in DOMAIN add'[o] : \E k \in DOMAIN add[o] : add'[o][i] = add[o][k]
    /\ initFailed' \in BOOLEAN
    /\ fault' \in Faults

LEMMA CrashProcessed ==
    ASSUME TypeOK, NEW o \in Outputs, NEW f \in Faults, Crash(f)
    PROVE  ProcessedOK(o)
BY DEF TypeOK, Crash, outputVars, ProcessedOK

LEMMA FailProcessed ==
    ASSUME TypeOK, NEW o \in Outputs, NEW refused,
           NEW positions \in SUBSET (DOMAIN add[o] \ Rejects(o, refused)),
           attached' = AttachedWith(o, positions),
           add' = [add EXCEPT ![o] = <<>>],
           initFailed' \in BOOLEAN,
           positions = {} \/ o \in MayMisconfigure \/ weston[o] = "enabled",
           UNCHANGED <<watched, weston, fault>>
    PROVE  ProcessedOK(o)
<1>1. add' \in [Outputs -> Seq(Heads)] /\ \A p \in Outputs : Len(add'[p]) <= AddLength
  BY OutputsAssumption DEF TypeOK
<1>2. /\ \A p \in Outputs : p # o => add'[p] = add[p]
      /\ DOMAIN add'[o] = {}
  BY DEF TypeOK
<1>3. attached' # attached => o \in MayMisconfigure \/ weston'[o] = "enabled"
  BY DEF AttachedWith, TypeOK
<1>4. QED
  BY <1>1, <1>2, <1>3, AttachingAdds DEF TypeOK, ProcessedOK

LEMMA IntervalSize ==
    ASSUME NEW n \in Nat, NEW k \in Nat
    PROVE  /\ IsFiniteSet(1 .. n) /\ Cardinality(1 .. n) = n
           /\ IsFiniteSet(n - k + 1 .. n) /\ Cardinality(n - k + 1 .. n) = k
<1>1. n - k + 1 \in Int /\ n \in Int /\ 1 \in Int
  OBVIOUS
<1>2. IsFiniteSet(1 .. n) /\ Cardinality(1 .. n) = IF 1 > n THEN 0 ELSE n - 1 + 1
  BY <1>1, FS_Interval
<1>3. /\ IsFiniteSet(n - k + 1 .. n)
      /\ Cardinality(n - k + 1 .. n) = IF n - k + 1 > n THEN 0 ELSE n - (n - k + 1) + 1
  BY <1>1, FS_Interval
<1>4. QED
  BY <1>2, <1>3

LEMMA PartOfSequence ==
    ASSUME NEW s \in Seq(Heads), NEW m \in 1 .. Len(s) + 1, NEW k \in 0 .. Len(s), m <= k + 1
    PROVE  /\ SubSeq(s, m, k) \in Seq(Heads) /\ Len(SubSeq(s, m, k)) = k - m + 1
           /\ \A i \in 1 .. k - m + 1 : \E l \in DOMAIN s : SubSeq(s, m, k)[i] = s[l]
<1>1. \A i \in m .. k : s[i] \in Heads
  OBVIOUS
<1>2. m \in Int /\ k \in Int
  OBVIOUS
<1>3. /\ SubSeq(s, m, k) \in Seq(Heads) /\ Len(SubSeq(s, m, k)) = k - m + 1
      /\ \A i \in 1 .. k - m + 1 : SubSeq(s, m, k)[i] = s[m + i - 1]
  BY <1>1, <1>2, SubSeqProperties
<1>4. \A i \in 1 .. k - m + 1 : m + i - 1 \in DOMAIN s
  OBVIOUS
<1>5. QED
  BY <1>3, <1>4

\* As long as one head is left, the output that is enabled has it.
LEMMA EnableProcessed ==
    ASSUME TypeOK, NEW o \in Outputs, NEW refused, NEW accepted,
           accepted = DOMAIN add[o] \ Rejects(o, refused),
           NEW givenUp \in Nat, givenUp < Cardinality(accepted),
           Enable(o, accepted, givenUp)
    PROVE  ProcessedOK(o)
<1> DEFINE n == Len(add[o])
           works == accepted \cap Kept(o, givenUp)
           failed == SubSeq(add[o], 1, n - Cardinality(accepted))
           detached == SubSeq(add[o], n - givenUp + 1, n)
<1>1. add[o] \in Seq(Heads) /\ n \in Nat /\ n <= AddLength /\ accepted \in SUBSET (1 .. n)
  BY DEF TypeOK
<1>2. Cardinality(accepted) \in Nat /\ Cardinality(accepted) <= n
  <2>1. IsFiniteSet(1 .. n) /\ Cardinality(1 .. n) = n
    BY <1>1, IntervalSize
  <2>2. QED
    BY <1>1, <2>1, FS_Subset, FS_CardinalityType
<1>3. works # {}
  <2>1. SUFFICES ASSUME works = {} PROVE FALSE
    OBVIOUS
  <2>2. accepted \in SUBSET (n - givenUp + 1 .. n)
    BY <1>1, <1>2, <2>1 DEF Kept
  <2>3. IsFiniteSet(n - givenUp + 1 .. n) /\ Cardinality(n - givenUp + 1 .. n) = givenUp
    BY <1>1, IntervalSize
  <2>4. Cardinality(accepted) <= givenUp
    BY <2>2, <2>3, FS_Subset
  <2>5. QED
    BY <2>4, <1>2
<1>4. /\ attached' \in [Heads -> Outputs \cup {NULL}]
      /\ \A h \in Heads : attached[h] # NULL => attached'[h] = attached[h]
      /\ \A h \in Heads : attached'[h] \in {attached[h], o}
      /\ \A h \in Heads : attached'[h] # attached[h] => \E i \in DOMAIN add[o] : add[o][i] = h
      /\ \A i \in works : add[o][i] \in Heads /\ attached'[add[o][i]] = o
  <2>1. works \in SUBSET (DOMAIN add[o] \ Rejects(o, refused))
    OBVIOUS
  <2>2. attached' = AttachedWith(o, works)
    BY DEF Enable
  <2>3. QED
    BY <2>1, <2>2, AttachingAdds
<1>5. watched' \in SUBSET Heads
  BY <1>4 DEF Enable, TypeOK
<1>6. /\ weston' \in [Outputs -> {"null", "disabled", "enabled"}]
      /\ \A p \in Outputs : p # o => weston'[p] = weston[p]
      /\ \A p \in Outputs : weston[p] = "enabled" => weston'[p] = "enabled"
      /\ \A p \in Outputs : weston'[p] = "enabled" => weston[p] = "enabled" \/ HeadsOf(p)' # {}
  <2>1. weston' = [weston EXCEPT ![o] = "enabled"]
    BY DEF Enable
  <2>2. HeadsOf(o)' # {}
    BY <1>3, <1>4 DEF HeadsOf
  <2>3. QED
    BY <2>1, <2>2 DEF TypeOK
<1>7. /\ failed \in Seq(Heads) /\ Len(failed) = n - Cardinality(accepted)
      /\ \A i \in 1 .. Len(failed) : \E l \in DOMAIN add[o] : failed[i] = add[o][l]
  <2>1. 1 \in 1 .. n + 1 /\ n - Cardinality(accepted) \in 0 .. n /\ 1 <= n - Cardinality(accepted) + 1
    BY <1>1, <1>2
  <2>2. /\ failed \in Seq(Heads) /\ Len(failed) = (n - Cardinality(accepted)) - 1 + 1
        /\ \A i \in 1 .. (n - Cardinality(accepted)) - 1 + 1 :
              \E l \in DOMAIN add[o] : failed[i] = add[o][l]
    BY <1>1, <2>1, PartOfSequence
  <2>3. (n - Cardinality(accepted)) - 1 + 1 = n - Cardinality(accepted)
    BY <1>1, <1>2
  <2> HIDE DEF failed, n
  <2>4. QED
    BY <2>2, <2>3
<1>8. /\ detached \in Seq(Heads) /\ Len(detached) = givenUp
      /\ \A i \in 1 .. givenUp : \E l \in DOMAIN add[o] : detached[i] = add[o][l]
  <2>1. n - givenUp + 1 \in 1 .. n + 1 /\ n \in 0 .. n /\ n - givenUp + 1 <= n + 1
    BY <1>1, <1>2
  <2>2. QED
    <3>1. /\ detached \in Seq(Heads) /\ Len(detached) = n - (n - givenUp + 1) + 1
          /\ \A i \in 1 .. n - (n - givenUp + 1) + 1 :
                \E l \in DOMAIN add[o] : detached[i] = add[o][l]
      BY <1>1, <2>1, PartOfSequence
    <3>2. n - (n - givenUp + 1) + 1 = givenUp
      BY <1>1
    <3>3. QED
      BY <3>1, <3>2
<1>9. /\ Reverse(detached) \in Seq(Heads) /\ Len(Reverse(detached)) = givenUp
      /\ \A i \in 1 .. givenUp : \E l \in DOMAIN add[o] : Reverse(detached)[i] = add[o][l]
  <2> HIDE DEF detached, n
  <2>1. QED
    BY <1>8 DEF Reverse
<1>10. /\ failed \o Reverse(detached) \in Seq(Heads) /\ Len(failed \o Reverse(detached)) <= AddLength
       /\ \A i \in DOMAIN (failed \o Reverse(detached)) :
             \E l \in DOMAIN add[o] : (failed \o Reverse(detached))[i] = add[o][l]
  <2> HIDE DEF failed, detached, n
  <2>1. /\ failed \o Reverse(detached) \in Seq(Heads)
        /\ Len(failed \o Reverse(detached)) = Len(failed) + Len(Reverse(detached))
        /\ \A i \in 1 .. Len(failed) + Len(Reverse(detached)) :
              (failed \o Reverse(detached))[i] =
                  IF i <= Len(failed) THEN failed[i] ELSE Reverse(detached)[i - Len(failed)]
    BY <1>7, <1>9, ConcatProperties
  <2>2. Len(failed \o Reverse(detached)) <= AddLength
    BY <1>1, <1>2, <1>7, <1>9, <2>1, OutputsAssumption
  <2>3. ASSUME NEW i \in 1 .. Len(failed) + Len(Reverse(detached))
        PROVE  \E l \in DOMAIN add[o] : (failed \o Reverse(detached))[i] = add[o][l]
    <3>1. Len(failed) \in Nat /\ Len(Reverse(detached)) = givenUp
      BY <1>7, <1>9
    <3>2. CASE i <= Len(failed)
      <4>1. i \in 1 .. Len(failed)
        BY <3>1, <3>2
      <4>2. QED
        BY <1>7, <2>1, <3>2, <4>1
    <3>3. CASE ~(i <= Len(failed))
      <4>1. i - Len(failed) \in 1 .. givenUp
        BY <3>1, <3>3
      <4>2. QED
        BY <1>9, <2>1, <3>3, <4>1
    <3>4. QED
      BY <3>2, <3>3
  <2>4. DOMAIN (failed \o Reverse(detached)) = 1 .. Len(failed) + Len(Reverse(detached))
    BY <2>1
  <2>5. QED
    BY <2>1, <2>2, <2>3, <2>4
<1>11. add' = [add EXCEPT ![o] = failed \o Reverse(detached)]
  BY DEF Enable
<1>12. add' \in [Outputs -> Seq(Heads)] /\ \A p \in Outputs : Len(add'[p]) <= AddLength
  BY <1>10, <1>11 DEF TypeOK
<1>13. add[o] # <<>>
  BY <1>1, <1>3
<1>14. \A p \in Outputs : add'[p] # <<>> => add[p] # <<>>
  BY <1>11, <1>13 DEF TypeOK
<1>15. initFailed' \in BOOLEAN /\ fault' \in Faults
  BY DEF Enable, TypeOK
<1>16. weston'[o] = "enabled"
  BY DEF Enable, TypeOK
<1>17. /\ \A p \in Outputs : p # o => add'[p] = add[p]
       /\ \A i \in DOMAIN add'[o] : \E k \in DOMAIN add[o] : add'[o][i] = add[o][k]
  BY <1>10, <1>11 DEF TypeOK
<1> HIDE DEF failed, detached, works, n
<1>18. QED
  BY <1>4, <1>5, <1>6, <1>12, <1>14, <1>15, <1>16, <1>17 DEF ProcessedOK

LEMMA ProcessOutputOK ==
    ASSUME TypeOK, NEW o \in Outputs, ProcessOutput(o)
    PROVE  ProcessedOK(o)
<1>1. CASE \E f \in Faults : Crash(f)
  BY <1>1, CrashProcessed
<1>2. CASE weston[o] = "enabled" /\ \E refused \in SUBSET MayRefuse :
              AttachMore(o, DOMAIN add[o] \ Rejects(o, refused), Rejects(o, refused))
  <2>1. PICK refused \in SUBSET MayRefuse :
              AttachMore(o, DOMAIN add[o] \ Rejects(o, refused), Rejects(o, refused))
    BY <1>2
  <2>2. initFailed' \in BOOLEAN
    BY <2>1 DEF AttachMore, Fail, TypeOK
  <2>3. QED
    BY <1>2, <2>1, <2>2, FailProcessed DEF AttachMore, Fail
<1>3. CASE \E refused \in SUBSET MayRefuse :
              AttachEnable(o, DOMAIN add[o] \ Rejects(o, refused), Rejects(o, refused))
  <2>1. PICK refused \in SUBSET MayRefuse :
              AttachEnable(o, DOMAIN add[o] \ Rejects(o, refused), Rejects(o, refused))
    BY <1>3
  <2> DEFINE accepted == DOMAIN add[o] \ Rejects(o, refused)
  <2> HIDE DEF accepted
  <2>2. CASE ConfigureFails(o, accepted)
    BY <2>2, FailProcessed DEF accepted, ConfigureFails, Fail
  <2>3. CASE Crash("add_head_destroyed_listener")
    BY <2>3, CrashProcessed DEF Faults
  <2>4. CASE \E givenUp \in GivenUp(o, accepted) : TryEnable(o, accepted, givenUp)
    <3>1. PICK givenUp \in GivenUp(o, accepted) : TryEnable(o, accepted, givenUp)
      BY <2>4
    <3>2. CASE Crash("try_enable_output")
      BY <3>2, CrashProcessed DEF Faults
    <3>3. CASE GiveUpAll(o, accepted)
      <4>1. attached' = AttachedWith(o, {})
        BY <3>3 DEF GiveUpAll, AttachedWith, TypeOK
      <4>2. {} \in SUBSET (DOMAIN add[o] \ Rejects(o, refused))
        OBVIOUS
      <4>3. /\ add' = [add EXCEPT ![o] = <<>>]
            /\ initFailed' \in BOOLEAN
            /\ UNCHANGED <<watched, weston, fault>>
        BY <3>3 DEF GiveUpAll, Fail
      <4>4. QED
        BY <4>1, <4>2, <4>3, FailProcessed
    <3>4. CASE givenUp < Cardinality(accepted) /\ Enable(o, accepted, givenUp)
      <4>1. givenUp \in Nat
        BY DEF GivenUp
      <4>2. QED
        BY <3>4, <4>1, EnableProcessed DEF accepted
    <3>5. QED
      BY <3>1, <3>2, <3>3, <3>4 DEF TryEnable
  <2>5. QED
    BY <2>1, <2>2, <2>3, <2>4 DEF AttachEnable, accepted
<1>4. QED
  BY <1>1, <1>2, <1>3 DEF ProcessOutput, Faults

-----------------------------------------------------------------------------
\* The invariant

LEMMA InitInvariant == Init => IInv
<1> SUFFICES ASSUME Init PROVE IInv
  OBVIOUS
<1>1. <<>> \in Seq(Heads) /\ Len(<<>>) = 0 /\ AddLength >= 0
  BY EmptySeq, OutputsAssumption
<1>2. TypeOK
  BY <1>1 DEF Init, TypeOK, Faults
<1>3. QED
  BY <1>2, OutputsAssumption DEF Init, IInv, KnownOutputs, EnabledHasHead, HeadsOf

LEMMA BackendKeepsInvariant ==
    ASSUME IInv, NEW h \in Heads, HeadAdded(h) \/ ConnectionChanged(h)
    PROVE  IInv'
BY DEF IInv, TypeOK, KnownOutputs, EnabledHasHead, HeadsOf, HeadAdded, ConnectionChanged, outputVars

\* An enabled output that loses its only head is disabled, or goes with it.
LEMMA DestroyKeepsInvariant ==
    ASSUME IInv, NEW h \in Heads, HeadDestroyed(h)
    PROVE  IInv'
<1>1. TypeOK'
  BY OutputsAssumption DEF IInv, TypeOK, HeadDestroyed, LeftBy
<1>2. KnownOutputs'
  <2>1. ASSUME NEW o \in Outputs, weston'[o] # "null" PROVE o \in outputs
    <3>1. CASE o = attached[h]
      BY <3>1 DEF HeadsOf, IInv, KnownOutputs
    <3>2. CASE o # attached[h]
      BY <2>1, <3>2 DEF IInv, KnownOutputs, HeadDestroyed
    <3>3. QED
      BY <3>1, <3>2
  <2>2. ASSUME NEW o \in Outputs, HeadsOf(o)' # {} PROVE HeadsOf(o) # {}
    <3>1. PICK g \in Heads : attached'[g] = o
      BY <2>2 DEF HeadsOf
    <3>2. attached[g] = o
      BY <3>1, OutputsAssumption DEF HeadDestroyed, IInv, TypeOK
    <3>3. QED
      BY <3>2 DEF HeadsOf
  <2>3. QED
    BY <2>1, <2>2 DEF IInv, KnownOutputs, HeadDestroyed
<1>3. ASSUME NEW o \in Outputs, weston'[o] = "enabled" PROVE HeadsOf(o)' # {}
  <2>1. CASE o = attached[h]
    <3>1. HeadsOf(o) # {h} /\ weston[o] = "enabled"
      BY <1>3, <2>1 DEF HeadDestroyed, LeftBy, LastHead
    <3>2. PICK g \in HeadsOf(o) : g # h
      BY <3>1 DEF IInv, EnabledHasHead
    <3>3. g \in HeadsOf(o)'
      BY <3>2 DEF HeadsOf, HeadDestroyed, IInv, TypeOK
    <3>4. QED
      BY <3>3
  <2>2. CASE o # attached[h]
    <3>1. weston[o] = "enabled"
      BY <1>3, <2>2 DEF HeadDestroyed
    <3>2. PICK g \in HeadsOf(o) : TRUE
      BY <3>1 DEF IInv, EnabledHasHead
    <3>3. g \in HeadsOf(o)'
      BY <2>2, <3>2 DEF HeadsOf, HeadDestroyed, IInv, TypeOK
    <3>4. QED
      BY <3>3
  <2>3. QED
    BY <2>1, <2>2
<1>4. QED
  BY <1>1, <1>2, <1>3 DEF IInv, EnabledHasHead

\* An output whose heads were not all unplugged keeps one.
LEMMA HeadsChangedKeepsInvariant ==
    ASSUME IInv, HeadsChanged
    PROVE  IInv'
<1>1. PICK denied, queue :
        /\ queue \in Queues(denied)
        /\ outputs' = Ensured(denied)
        /\ add' = [o \in Outputs |-> Filled(add[o] \o queue[o])]
        /\ weston' = [o \in Outputs |->
                         IF o \in outputs' \ outputs \/ Abandoned(o)
                         THEN "disabled" ELSE weston[o]]
  BY DEF HeadsChanged
<1>2. TypeOK
  BY DEF IInv
<1>3. ASSUME NEW o \in Outputs
      PROVE  /\ add'[o] \in Seq(Heads) /\ Len(add'[o]) <= AddLength
             /\ add'[o] # <<>> => o \in outputs'
  <2>1. add'[o] = Filled(add[o] \o queue[o])
    BY <1>1
  <2>2. add[o] \in Seq(Heads) /\ queue[o] \in Seq(Heads)
    BY <1>1, <1>2, QueueIsSequence DEF TypeOK
  <2>3. add[o] \o queue[o] \in Seq(Heads)
    BY <2>2, ConcatProperties
  <2>4. add'[o] \in Seq(Heads) /\ Len(add'[o]) <= AddLength
    BY <2>1, <2>3, FilledIsBounded
  <2>5. ASSUME add'[o] # <<>> PROVE add[o] # <<>> \/ queue[o] # <<>>
    <3>1. add[o] \o queue[o] # <<>>
      BY <2>1, <2>3, <2>5, FilledIsBounded
    <3>2. QED
      BY <2>2, <3>1, ConcatEmptySeq
  <2>6. add'[o] # <<>> => o \in outputs \/ Candidates(o, denied) # {}
    BY <1>1, <1>2, <2>5, QueueIsSequence DEF IInv, KnownOutputs
  <2>7. QED
    BY <1>1, <2>4, <2>6 DEF Ensured
<1>4. outputs' \in SUBSET Outputs
  BY <1>1, <1>2 DEF Ensured, TypeOK
<1>5. todo' \in SUBSET outputs'
  BY <1>3 DEF HeadsChanged
<1>6. weston' \in [Outputs -> {"null", "disabled", "enabled"}]
  BY <1>1, <1>2 DEF TypeOK
<1>7. attached' \in [Heads -> Outputs \cup {NULL}]
  BY <1>2 DEF HeadsChanged, TypeOK
<1>8. add' \in [Outputs -> Seq(Heads)]
  BY <1>1, <1>3
<1>9. TypeOK'
  BY <1>2, <1>3, <1>4, <1>5, <1>6, <1>7, <1>8 DEF HeadsChanged, headVars, TypeOK
<1>10. ASSUME NEW o \in Outputs, weston'[o] = "enabled" PROVE HeadsOf(o)' # {}
  <2>1. weston[o] = "enabled" /\ ~Abandoned(o)
    BY <1>1, <1>10
  <2>2. PICK h \in HeadsOf(o) : h \notin Unplugged
    BY <2>1 DEF Abandoned, IInv, EnabledHasHead
  <2>3. h \in HeadsOf(o)'
    BY <2>2 DEF HeadsOf, HeadsChanged
  <2>4. QED
    BY <2>3
<1>11. QED
  <2>1. \A o \in Outputs : weston'[o] # "null" => o \in outputs'
    BY <1>1 DEF IInv, KnownOutputs, Abandoned, Ensured
  <2>2. ASSUME NEW o \in Outputs, HeadsOf(o)' # {} PROVE o \in outputs'
    <3>1. PICK h \in Heads : attached'[h] = o
      BY <2>2 DEF HeadsOf
    <3>2. attached[h] = o
      BY <3>1, OutputsAssumption DEF HeadsChanged
    <3>3. QED
      BY <1>1, <3>2 DEF HeadsOf, IInv, KnownOutputs, Ensured
  <2>3. QED
    BY <1>3, <1>9, <1>10, <2>1, <2>2 DEF IInv, KnownOutputs, EnabledHasHead

LEMMA ProcessKeepsInvariant ==
    ASSUME IInv, NEW o \in Outputs, ProcessOutput(o)
    PROVE  IInv'
<1>1. ProcessedOK(o)
  BY ProcessOutputOK DEF IInv
<1>2. UNCHANGED <<headVars, outputs, changed>> /\ todo' = todo \ {o}
  BY DEF ProcessOutput
<1>3. TypeOK'
  BY <1>1, <1>2 DEF ProcessedOK, headVars, IInv, TypeOK
<1>4. KnownOutputs'
  <2>1. o \in outputs
    BY DEF ProcessOutput, IInv, TypeOK
  <2>2. \A p \in Outputs : HeadsOf(p)' # {} => HeadsOf(p) # {} \/ p = o
    BY <1>1 DEF ProcessedOK, HeadsOf
  <2>3. QED
    BY <1>1, <1>2, <2>1, <2>2 DEF ProcessedOK, IInv, KnownOutputs
<1>5. ASSUME NEW p \in Outputs, weston'[p] = "enabled" PROVE HeadsOf(p)' # {}
  <2>1. CASE weston[p] = "enabled"
    <3>1. PICK h \in HeadsOf(p) : TRUE
      BY <2>1 DEF IInv, EnabledHasHead
    <3>2. h \in HeadsOf(p)'
      BY <1>1, <3>1, OutputsAssumption DEF ProcessedOK, HeadsOf
    <3>3. QED
      BY <3>2
  <2>2. CASE weston[p] # "enabled"
    BY <1>1, <1>5, <2>2 DEF ProcessedOK
  <2>3. QED
    BY <2>1, <2>2
<1>6. QED
  BY <1>3, <1>4, <1>5 DEF IInv, EnabledHasHead

LEMMA NextKeepsInvariant == IInv /\ [Next]_vars => IInv'
<1> SUFFICES ASSUME IInv, [Next]_vars PROVE IInv'
  OBVIOUS
<1>1. ASSUME NEW h \in Heads, HeadAdded(h) \/ ConnectionChanged(h) PROVE IInv'
  BY <1>1, BackendKeepsInvariant
<1>2. ASSUME NEW h \in Heads, HeadDestroyed(h) PROVE IInv'
  BY <1>2, DestroyKeepsInvariant
<1>3. CASE HeadsChanged
  BY <1>3, HeadsChangedKeepsInvariant
<1>4. ASSUME NEW o \in Outputs, ProcessOutput(o) PROVE IInv'
  BY <1>4, ProcessKeepsInvariant
<1>5. CASE UNCHANGED vars
  BY <1>5 DEF vars, headVars, outputVars, IInv, TypeOK, KnownOutputs, EnabledHasHead, HeadsOf
<1>6. QED
  BY <1>1, <1>2, <1>3, <1>4, <1>5 DEF Next

\* The invariant holds for every set of heads and outputs, and whatever the
\* backend refuses (main.c:49-162, 311-525).
THEOREM OutputsInductive == Spec => []IInv
<1>1. QED
  BY InitInvariant, NextKeepsInvariant, PTL DEF Spec

\* Every variable keeps its type; no add array grows past its length, and
\* heads_changed processes only outputs it knows (main.c:483-486, 515).
THEOREM OutputsTypeCorrect == Spec => []TypeOK
<1>1. IInv => TypeOK
  BY DEF IInv
<1>2. QED
  BY <1>1, OutputsInductive, PTL

\* An enabled output has a head (main.c:144, 340-355, 413).
THEOREM EnabledHasHeadHolds == Spec => []EnabledHasHead
<1>1. IInv => EnabledHasHead
  BY DEF IInv
<1>2. QED
  BY <1>1, OutputsInductive, PTL

-----------------------------------------------------------------------------
\* No head is turned off on account of others

LEMMA StepKeepsShown ==
    ASSUME IInv, Next, NEW h \in connected, Enabled(h), h \in heads'
    PROVE  Enabled(h)'
<1>1. h \in Heads /\ attached[h] \in Outputs /\ weston[attached[h]] = "enabled"
  BY DEF Enabled, IInv, TypeOK
<1>2. ASSUME NEW g \in Heads, HeadAdded(g) \/ ConnectionChanged(g) PROVE Enabled(h)'
  BY <1>2 DEF HeadAdded, ConnectionChanged, outputVars, Enabled
<1>3. ASSUME NEW g \in Heads, HeadDestroyed(g) PROVE Enabled(h)'
  <2>1. g # h
    BY <1>3 DEF HeadDestroyed
  <2>2. attached'[h] = attached[h]
    BY <1>3, <2>1 DEF HeadDestroyed, IInv, TypeOK
  <2>3. attached[h] = attached[g] => HeadsOf(attached[g]) # {g}
    BY <1>1, <2>1 DEF HeadsOf
  <2>4. weston'[attached[h]] = "enabled"
    BY <1>1, <1>3, <2>3 DEF HeadDestroyed, LeftBy, LastHead
  <2>5. QED
    BY <1>1, <2>2, <2>4, OutputsAssumption DEF Enabled
<1>4. CASE HeadsChanged
  <2>1. h \notin Unplugged
    BY DEF Unplugged
  <2>2. attached'[h] = attached[h]
    BY <1>1, <1>4, <2>1 DEF HeadsChanged
  <2>3. ~Abandoned(attached[h])
    BY <1>1, <2>1 DEF Abandoned, HeadsOf
  <2>4. attached[h] \in outputs
    BY <1>1 DEF IInv, KnownOutputs
  <2>5. weston'[attached[h]] = "enabled"
    BY <1>1, <1>4, <2>3, <2>4 DEF HeadsChanged
  <2>6. QED
    BY <1>1, <2>2, <2>5, OutputsAssumption DEF Enabled
<1>5. ASSUME NEW o \in Outputs, ProcessOutput(o) PROVE Enabled(h)'
  <2>1. ProcessedOK(o)
    BY <1>5, ProcessOutputOK DEF IInv
  <2>2. QED
    BY <1>1, <2>1, OutputsAssumption DEF ProcessedOK, Enabled
<1>6. QED
  BY <1>2, <1>3, <1>4, <1>5 DEF Next

\* A head with a monitor that is shown stays shown (main.c:144, 387-391, 413).
THEOREM ShownStaysShownHolds == Spec => ShownStaysShown
<1>1. IInv /\ [Next]_vars =>
          [\A h \in connected : Enabled(h) /\ h \in heads' => Enabled(h)']_vars
  BY StepKeepsShown
<1>2. QED
  BY <1>1, OutputsInductive, PTL DEF Spec, ShownStaysShown

-----------------------------------------------------------------------------
\* A head is attached only to an output that works

AttachedWorks ==
    \A h \in Heads : attached[h] # NULL /\ attached[h] \notin MayMisconfigure => Enabled(h)

LEMMA AttachedInit == Init => AttachedWorks
BY DEF Init, AttachedWorks

\* Whoever shares an output with a head that goes keeps it enabled.
LEMMA AttachedDestroy ==
    ASSUME IInv, AttachedWorks, NEW h \in Heads, HeadDestroyed(h)
    PROVE  AttachedWorks'
<1> SUFFICES ASSUME NEW g \in Heads, attached'[g] # NULL, attached'[g] \notin MayMisconfigure
             PROVE  Enabled(g)'
  BY DEF AttachedWorks
<1>1. g # h /\ attached'[g] = attached[g]
  BY DEF HeadDestroyed, IInv, TypeOK
<1>2. attached[g] \in Outputs /\ weston[attached[g]] = "enabled"
  BY <1>1 DEF AttachedWorks, Enabled, IInv, TypeOK
<1>3. attached[g] = attached[h] => HeadsOf(attached[h]) # {h}
  BY <1>1 DEF HeadsOf
<1>4. weston'[attached[g]] = "enabled"
  BY <1>2, <1>3 DEF HeadDestroyed, LeftBy, LastHead
<1>5. QED
  BY <1>1, <1>2, <1>4, OutputsAssumption DEF Enabled

\* An output that heads_changed makes anew has no heads, and one that it
\* disables has none left.
LEMMA AttachedHeadsChanged ==
    ASSUME IInv, AttachedWorks, HeadsChanged
    PROVE  AttachedWorks'
<1> SUFFICES ASSUME NEW g \in Heads, attached'[g] # NULL, attached'[g] \notin MayMisconfigure
             PROVE  Enabled(g)'
  BY DEF AttachedWorks
<1>1. g \notin Unplugged /\ attached'[g] = attached[g]
  BY DEF HeadsChanged
<1>2. attached[g] \in Outputs /\ weston[attached[g]] = "enabled"
  BY <1>1 DEF AttachedWorks, Enabled, IInv, TypeOK
<1>3. attached[g] \in outputs /\ ~Abandoned(attached[g])
  BY <1>1, <1>2 DEF Abandoned, HeadsOf, IInv, KnownOutputs
<1>4. weston'[attached[g]] = "enabled"
  BY <1>2, <1>3 DEF HeadsChanged
<1>5. QED
  BY <1>1, <1>2, <1>4, OutputsAssumption DEF Enabled

LEMMA AttachedProcess ==
    ASSUME IInv, AttachedWorks, NEW o \in Outputs, ProcessOutput(o)
    PROVE  AttachedWorks'
<1> SUFFICES ASSUME NEW g \in Heads, attached'[g] # NULL, attached'[g] \notin MayMisconfigure
             PROVE  Enabled(g)'
  BY DEF AttachedWorks
<1>1. ProcessedOK(o)
  BY ProcessOutputOK DEF IInv
<1>2. CASE attached'[g] = attached[g]
  <2>1. attached[g] \in Outputs /\ weston[attached[g]] = "enabled"
    BY <1>2 DEF AttachedWorks, Enabled, IInv, TypeOK
  <2>2. QED
    BY <1>1, <1>2, <2>1 DEF ProcessedOK, Enabled
<1>3. CASE attached'[g] # attached[g]
  <2>1. attached'[g] = o /\ weston'[o] = "enabled"
    BY <1>1, <1>3 DEF ProcessedOK
  <2>2. QED
    BY <2>1, OutputsAssumption DEF Enabled
<1>4. QED
  BY <1>2, <1>3

LEMMA AttachedStep == IInv /\ AttachedWorks /\ [Next]_vars => AttachedWorks'
<1> SUFFICES ASSUME IInv, AttachedWorks, [Next]_vars PROVE AttachedWorks'
  OBVIOUS
<1>1. ASSUME NEW h \in Heads, HeadAdded(h) \/ ConnectionChanged(h) PROVE AttachedWorks'
  BY <1>1 DEF HeadAdded, ConnectionChanged, outputVars, AttachedWorks, Enabled
<1>2. ASSUME NEW h \in Heads, HeadDestroyed(h) PROVE AttachedWorks'
  BY <1>2, AttachedDestroy
<1>3. CASE HeadsChanged
  BY <1>3, AttachedHeadsChanged
<1>4. ASSUME NEW o \in Outputs, ProcessOutput(o) PROVE AttachedWorks'
  BY <1>4, AttachedProcess
<1>5. CASE UNCHANGED vars
  BY <1>5 DEF vars, outputVars, AttachedWorks, Enabled
<1>6. QED
  BY <1>1, <1>2, <1>3, <1>4, <1>5 DEF Next

LEMMA AttachedInductive == Spec => [](IInv /\ AttachedWorks)
<1>1. QED
  BY InitInvariant, AttachedInit, NextKeepsInvariant, AttachedStep, PTL DEF Spec

\* Whatever the backend refuses and whichever heads go, a head is never left
\* attached to an output that does not work, unless its mode was rejected; this
\* holds even within a round of heads_changed (main.c:340-355).
THEOREM NotHalfAttachedHolds == Spec => []NotHalfAttached
<1>1. AttachedWorks => NotHalfAttached
  BY DEF AttachedWorks, NotHalfAttached
<1>2. QED
  BY <1>1, AttachedInductive, PTL

-----------------------------------------------------------------------------
\* Reliable outputs follow the monitors

\* A head is attached to the output its configuration names, and waits for
\* that one only.
Routed ==
    /\ \A h \in Heads : attached[h] \in {NULL, Controls[h]}
    /\ \A o \in Outputs : \A i \in DOMAIN add[o] : Controls[add[o][i]] = o

LEMMA RoutedInit == Init => Routed
BY DEF Init, Routed

\* A queue holds every candidate once.
LEMMA QueueIsExact ==
    ASSUME TypeOK, NEW denied, NEW queue \in Queues(denied), NEW o \in Outputs
    PROVE  /\ queue[o] \in Seq(Heads)
           /\ Len(queue[o]) = Cardinality(Candidates(o, denied))
           /\ \A i \in DOMAIN queue[o] : queue[o][i] \in Candidates(o, denied)
           /\ \A i, j \in DOMAIN queue[o] : queue[o][i] = queue[o][j] => i = j
           /\ \A h \in Candidates(o, denied) : \E i \in DOMAIN queue[o] : queue[o][i] = h
<1> DEFINE S == Candidates(o, denied)
           n == Cardinality(S)
<1>1. S \in SUBSET Heads
  BY DEF Candidates, TypeOK
<1>2. IsFiniteSet(S) /\ n \in Nat
  BY <1>1, FS_Subset, FS_CardinalityType, OutputsAssumption
<1>3. /\ queue[o] \in [1 .. n -> S]
      /\ \A i, j \in 1 .. n : i # j => queue[o][i] # queue[o][j]
  BY DEF Queues, SetToSeqs
<1>4. queue[o] \in Seq(Heads) /\ Len(queue[o]) = n /\ DOMAIN queue[o] = 1 .. n
  BY <1>1, <1>2, <1>3
<1>5. queue[o] \in Injection(1 .. n, S)
  BY <1>3 DEF Injection, IsInjective
<1>6. IsFiniteSet(1 .. n) /\ Cardinality(1 .. n) = n
  BY <1>2, IntervalSize
<1>7. queue[o] \in Surjection(1 .. n, S)
  BY <1>2, <1>5, <1>6, FS_Injection
<1>8. QED
  BY <1>3, <1>4, <1>7 DEF Surjection

\* What is in add after the loop over the heads was there or is a candidate.
LEMMA FilledFrom ==
    ASSUME NEW s \in Seq(Heads), NEW q \in Seq(Heads), NEW i \in DOMAIN Filled(s \o q)
    PROVE  \/ \E k \in DOMAIN s : Filled(s \o q)[i] = s[k]
           \/ \E k \in DOMAIN q : Filled(s \o q)[i] = q[k]
<1> DEFINE t == s \o q
           m == IF Len(t) < AddLength THEN Len(t) ELSE AddLength
<1>1. /\ t \in Seq(Heads) /\ Len(t) = Len(s) + Len(q)
      /\ \A k \in 1 .. Len(s) + Len(q) : t[k] = IF k <= Len(s) THEN s[k] ELSE q[k - Len(s)]
  BY ConcatProperties
<1>2. m \in Nat /\ m <= Len(t) /\ Len(s) \in Nat /\ Len(q) \in Nat
  BY <1>1, OutputsAssumption
<1> HIDE DEF t, m
<1>3. \A k \in 1 .. m : t[k] \in Heads
  BY <1>1, <1>2
<1>4. /\ Len(SubSeq(t, 1, m)) = m /\ SubSeq(t, 1, m) \in Seq(Heads)
      /\ \A k \in 1 .. m : SubSeq(t, 1, m)[k] = t[k]
  <2>1. /\ SubSeq(t, 1, m) \in Seq(Heads)
        /\ Len(SubSeq(t, 1, m)) = IF 1 <= m THEN m - 1 + 1 ELSE 0
        /\ \A k \in 1 .. m - 1 + 1 : SubSeq(t, 1, m)[k] = t[1 + k - 1]
    BY <1>2, <1>3, SubSeqProperties
  <2>2. QED
    BY <1>2, <2>1
<1>5. Filled(t) = SubSeq(t, 1, m)
  BY DEF Filled, m
<1>6. i \in 1 .. m /\ Filled(t)[i] = t[i]
  <2>1. i \in DOMAIN SubSeq(t, 1, m)
    BY <1>5 DEF t
  <2>2. QED
    BY <1>4, <1>5, <2>1
<1>7. CASE i <= Len(s)
  BY <1>1, <1>2, <1>6, <1>7 DEF t
<1>8. CASE ~(i <= Len(s))
  <2>1. i - Len(s) \in DOMAIN q
    BY <1>1, <1>2, <1>6, <1>8
  <2>2. Filled(t)[i] = q[i - Len(s)]
    BY <1>1, <1>2, <1>6, <1>8
  <2>3. QED
    BY <2>1, <2>2 DEF t
<1>9. QED
  BY <1>7, <1>8

LEMMA RoutedHeadsChanged ==
    ASSUME IInv, Routed, HeadsChanged
    PROVE  Routed'
<1>1. PICK denied, queue :
        /\ queue \in Queues(denied)
        /\ add' = [o \in Outputs |-> Filled(add[o] \o queue[o])]
  BY DEF HeadsChanged
<1>2. \A h \in Heads : attached'[h] \in {NULL, attached[h]}
  BY DEF HeadsChanged
<1>3. ASSUME NEW o \in Outputs, NEW i \in DOMAIN add'[o] PROVE Controls[add'[o][i]] = o
  <2>1. add[o] \in Seq(Heads) /\ queue[o] \in Seq(Heads)
    BY <1>1, QueueIsExact DEF IInv, TypeOK
  <2>2. add'[o] = Filled(add[o] \o queue[o])
    BY <1>1
  <2>3. CASE \E k \in DOMAIN add[o] : add'[o][i] = add[o][k]
    BY <2>3 DEF Routed
  <2>4. CASE \E k \in DOMAIN queue[o] : add'[o][i] = queue[o][k]
    <3>1. PICK k \in DOMAIN queue[o] : add'[o][i] = queue[o][k]
      BY <2>4
    <3>2. TypeOK
      BY DEF IInv
    <3>3. queue[o][k] \in Candidates(o, denied)
      BY <1>1, <3>2, QueueIsExact
    <3>4. QED
      BY <3>1, <3>3 DEF Candidates
  <2>5. QED
    BY <1>3, <2>1, <2>2, <2>3, <2>4, FilledFrom
<1>4. QED
  BY <1>2, <1>3 DEF Routed

LEMMA RoutedProcess ==
    ASSUME IInv, Routed, NEW o \in Outputs, ProcessOutput(o)
    PROVE  Routed'
<1>1. ProcessedOK(o)
  BY ProcessOutputOK DEF IInv
<1>2. \A h \in Heads : attached'[h] \in {NULL, Controls[h]}
  BY <1>1 DEF ProcessedOK, Routed
<1>3. ASSUME NEW p \in Outputs, NEW i \in DOMAIN add'[p] PROVE Controls[add'[p][i]] = p
  BY <1>1, <1>3 DEF ProcessedOK, Routed
<1>4. QED
  BY <1>2, <1>3 DEF Routed

LEMMA RoutedStep == IInv /\ Routed /\ [Next]_vars => Routed'
<1> SUFFICES ASSUME IInv, Routed, [Next]_vars PROVE Routed'
  OBVIOUS
<1>1. ASSUME NEW h \in Heads, HeadAdded(h) \/ ConnectionChanged(h) \/ HeadDestroyed(h)
      PROVE  Routed'
  BY <1>1 DEF HeadAdded, ConnectionChanged, HeadDestroyed, outputVars, Routed, IInv, TypeOK
<1>2. CASE HeadsChanged
  BY <1>2, RoutedHeadsChanged
<1>3. ASSUME NEW o \in Outputs, ProcessOutput(o) PROVE Routed'
  BY <1>3, RoutedProcess
<1>4. CASE UNCHANGED vars
  BY <1>4 DEF vars, outputVars, Routed
<1>5. QED
  BY <1>1, <1>2, <1>3, <1>4 DEF Next

\* The heads of every reliable output fit into its array; those beyond are
\* dropped (main.c:483-486).
HeadsFit == \A o \in Reliable : Cardinality({h \in Heads : Controls[h] = o}) <= AddLength

\* What heads_changed has still to attach for a reliable output.
QueuedOnce(o) ==
    /\ add[o] # <<>>
    /\ \A i \in DOMAIN add[o] : add[o][i] \in heads \cap connected /\ attached[add[o][i]] = NULL
    /\ \A i, j \in DOMAIN add[o] : add[o][i] = add[o][j] => i = j

Waits(h) ==
    /\ h \in connected
    /\ Controls[h] \in todo
    /\ \E i \in DOMAIN add[Controls[h]] : add[Controls[h]][i] = h

Follows(h) == (Enabled(h) <=> h \in connected) \/ Waits(h)

\* Between two calls nothing waits for a reliable output, and between the two
\* loops of one call all that is to be attached does.
RoundInv ==
    fault = "none" =>
        /\ todo # {} => ~changed
        /\ \A o \in Reliable : IF o \in todo THEN QueuedOnce(o) ELSE add[o] = <<>>
        /\ ~changed => \A h \in heads \ NonDesktop : Controls[h] \in Reliable => Follows(h)

\* A head on a reliable output is attached only while it is enabled.
LEMMA ReliableAttached ==
    ASSUME AttachedWorks, Routed, NEW h \in Heads, Controls[h] \in Reliable
    PROVE  attached[h] = NULL \/ (attached[h] = Controls[h] /\ Enabled(h))
BY DEF AttachedWorks, Routed, Reliable

LEMMA RoundInit == Init => RoundInv
<1> SUFFICES ASSUME Init PROVE RoundInv
  OBVIOUS
<1>1. todo = {} /\ heads = {} /\ \A o \in Reliable : add[o] = <<>>
  BY DEF Init, Reliable
<1>2. QED
  BY <1>1 DEF RoundInv

LEMMA RoundPlugged ==
    ASSUME IInv, RoundInv, NEW h \in Heads, HeadAdded(h) \/ ConnectionChanged(h)
    PROVE  RoundInv'
<1>1. fault = "none" /\ todo = {} /\ todo' = {} /\ changed' = TRUE /\ add' = add
  BY DEF HeadAdded, ConnectionChanged, Running, outputVars
<1>2. QED
  BY <1>1 DEF RoundInv

LEMMA RoundDestroyed ==
    ASSUME IInv, AttachedWorks, RoundInv, NEW h \in Heads, HeadDestroyed(h)
    PROVE  RoundInv'
<1>1. /\ fault = "none" /\ todo = {} /\ todo' = {} /\ add' = add /\ changed' = changed
      /\ heads' = heads \ {h} /\ connected' = connected \ {h}
  BY DEF HeadDestroyed, Running
<1>2. ASSUME ~changed, NEW g \in heads', g \notin NonDesktop, Controls[g] \in Reliable
      PROVE  Enabled(g)' <=> g \in connected'
  <2>1. g # h /\ g \in Heads /\ (Enabled(g) <=> g \in connected)
    BY <1>1, <1>2 DEF RoundInv, Follows, Waits, IInv, TypeOK
  <2>2. attached'[g] = attached[g]
    BY <2>1 DEF HeadDestroyed, IInv, TypeOK
  <2>3. CASE attached[g] = NULL
    BY <1>1, <2>1, <2>2, <2>3 DEF Enabled
  <2>4. CASE attached[g] # NULL
    <3>1. attached[g] \in Outputs
      BY <2>1, <2>4 DEF IInv, TypeOK
    <3>2. attached[g] = attached[h] => HeadsOf(attached[h]) # {h}
      BY <2>1 DEF HeadsOf
    <3>3. weston'[attached[g]] = weston[attached[g]]
      BY <3>1, <3>2 DEF HeadDestroyed, LeftBy, LastHead
    <3>4. QED
      BY <1>1, <2>1, <2>2, <3>3 DEF Enabled
  <2>5. QED
    BY <2>3, <2>4
<1>3. QED
  BY <1>1, <1>2 DEF RoundInv, Follows

\* The loop over the heads queues what is connected and not shown, and detaches
\* what is shown and not connected.
LEMMA RoundHeadsChanged ==
    ASSUME HeadsFit, IInv, AttachedWorks, Routed, RoundInv, HeadsChanged
    PROVE  RoundInv'
<1>1. PICK denied, queue :
        /\ denied \in SUBSET Deniable /\ queue \in Queues(denied)
        /\ add' = [o \in Outputs |-> Filled(add[o] \o queue[o])]
  BY DEF HeadsChanged
<1>2. /\ fault = "none" /\ todo = {} /\ changed' = FALSE /\ fault' = "none"
      /\ UNCHANGED <<heads, connected>>
      /\ todo' = {o \in Outputs : add'[o] # <<>>}
      /\ attached' = [h \in Heads |-> IF h \in Unplugged THEN NULL ELSE attached[h]]
  BY DEF HeadsChanged, Running, headVars
<1>3. TypeOK
  BY DEF IInv
<1>4. ASSUME NEW o \in Reliable
      PROVE  o \in Outputs /\ add'[o] = queue[o] /\ queue[o] \in Seq(Heads)
  <2>1. o \in Outputs /\ o \notin MayNotCreate
    BY DEF Reliable
  <2>2. /\ queue[o] \in Seq(Heads) /\ Len(queue[o]) = Cardinality(Candidates(o, denied))
    BY <1>1, <1>3, <2>1, QueueIsExact
  <2>3. Cardinality(Candidates(o, denied)) <= AddLength
    <3> DEFINE C == {h \in Heads : Controls[h] = o}
    <3>1. Candidates(o, denied) \in SUBSET C /\ C \in SUBSET Heads
      BY <1>3 DEF Candidates, TypeOK
    <3>2. IsFiniteSet(C)
      BY <3>1, FS_Subset, OutputsAssumption
    <3>3. /\ Cardinality(Candidates(o, denied)) <= Cardinality(C)
          /\ Cardinality(C) \in Nat /\ Cardinality(Candidates(o, denied)) \in Nat
      BY <3>1, <3>2, FS_Subset, FS_CardinalityType
    <3>4. Cardinality(C) <= AddLength
      BY DEF HeadsFit
    <3> HIDE DEF C
    <3>5. QED
      BY <3>3, <3>4, OutputsAssumption
  <2>4. add[o] = <<>>
    BY <1>2 DEF RoundInv
  <2>5. add'[o] = Filled(queue[o])
    <3>1. add[o] \o queue[o] = queue[o]
      BY <2>2, <2>4, ConcatEmptySeq
    <3>2. QED
      BY <1>1, <2>1, <3>1
  <2>6. Filled(queue[o]) = SubSeq(queue[o], 1, Len(queue[o]))
    BY <2>2, <2>3, OutputsAssumption DEF Filled
  <2>7. QED
    BY <2>1, <2>2, <2>5, <2>6, SubSeqFull
<1>5. ASSUME NEW o \in Reliable, NEW g \in Candidates(o, denied)
      PROVE  g \in heads \cap connected /\ Controls[g] = o /\ attached'[g] = NULL
  <2>1. g \in Heads /\ Controls[g] = o /\ g \in heads \cap connected /\ ~Enabled(g)
    BY <1>3 DEF Candidates, Wanted, TypeOK
  <2>2. attached[g] = NULL
    BY <2>1, ReliableAttached
  <2>3. QED
    BY <1>2, <2>1, <2>2
<1>6. ASSUME NEW o \in Reliable
      PROVE  IF o \in todo' THEN QueuedOnce(o)' ELSE add'[o] = <<>>
  <2>1. add'[o] = queue[o] /\ o \in Outputs
    BY <1>4
  <2>2. /\ \A i \in DOMAIN queue[o] : queue[o][i] \in Candidates(o, denied)
        /\ \A i, j \in DOMAIN queue[o] : queue[o][i] = queue[o][j] => i = j
    BY <1>1, <1>3, <2>1, QueueIsExact
  <2>3. \A i \in DOMAIN add'[o] : add'[o][i] \in heads' \cap connected' /\ attached'[add'[o][i]] = NULL
    BY <1>2, <1>5, <2>1, <2>2
  <2>4. QED
    BY <1>2, <2>1, <2>2, <2>3 DEF QueuedOnce
<1>7. ASSUME NEW g \in heads' \ NonDesktop, Controls[g] \in Reliable
      PROVE  Follows(g)'
  <2>1. g \in heads /\ g \in Heads /\ Controls[g] \in Outputs
    BY <1>2, <1>3, <1>7 DEF TypeOK, Reliable
  <2>2. CASE g \in connected /\ Enabled(g)
    <3>1. Enabled(g)'
      BY <1>2, <2>1, <2>2, StepKeepsShown DEF Next
    <3>2. QED
      BY <1>2, <2>2, <3>1 DEF Follows
  <2>3. CASE g \in connected /\ ~Enabled(g)
    <3>1. g \in Candidates(Controls[g], denied)
      BY <1>1, <1>7, <2>1, <2>3 DEF Candidates, Wanted, Deniable, Reliable
    <3>2. \E i \in DOMAIN queue[Controls[g]] : queue[Controls[g]][i] = g
      BY <1>1, <1>3, <2>1, <3>1, QueueIsExact
    <3>3. add'[Controls[g]] = queue[Controls[g]] /\ queue[Controls[g]] \in Seq(Heads)
      BY <1>4, <1>7
    <3>4. queue[Controls[g]] # <<>>
      BY <3>2, <3>3
    <3>5. QED
      BY <1>2, <2>1, <2>3, <3>2, <3>3, <3>4 DEF Follows, Waits
  <2>4. CASE g \notin connected
    <3>1. ~Enabled(g)'
      <4>1. CASE Enabled(g)
        <5>1. g \in Unplugged
          BY <2>1, <2>4, <4>1 DEF Unplugged
        <5>2. QED
          BY <1>2, <2>1, <5>1 DEF Enabled
      <4>2. CASE ~Enabled(g)
        <5>1. attached[g] = NULL
          BY <1>7, <2>1, <4>2, ReliableAttached
        <5>2. QED
          BY <1>2, <2>1, <5>1 DEF Enabled
      <4>3. QED
        BY <4>1, <4>2
    <3>2. QED
      BY <1>2, <2>4, <3>1 DEF Follows
  <2>5. QED
    BY <2>2, <2>3, <2>4
<1>8. QED
  BY <1>2, <1>6, <1>7 DEF RoundInv

\* A reliable output accepts all that waits for it.
LEMMA ReliableProcessed ==
    ASSUME IInv, Routed, NEW o \in Reliable, QueuedOnce(o), ProcessOutput(o), fault' = "none"
    PROVE  /\ add'[o] = <<>>
           /\ weston'[o] = "enabled"
           /\ \A h \in Heads : attached'[h] =
                  IF \E i \in DOMAIN add[o] : add[o][i] = h THEN o ELSE attached[h]
<1> DEFINE n == Len(add[o])
<1>1. /\ o \in Outputs /\ o \notin MayMisconfigure /\ o \notin MayNotEnable
      /\ \A h \in MayRefuse : Controls[h] # o
  BY DEF Reliable
<1>2. add[o] \in Seq(Heads) /\ n \in Nat /\ n > 0 /\ DOMAIN add[o] = 1 .. n
  BY <1>1 DEF IInv, TypeOK, QueuedOnce
<1>3. ASSUME NEW refused \in SUBSET MayRefuse PROVE Rejects(o, refused) = {}
  BY <1>1, <1>2 DEF Rejects, QueuedOnce, Routed
<1>4. PICK refused \in SUBSET MayRefuse :
        LET rejected == Rejects(o, refused)
            accepted == DOMAIN add[o] \ rejected
        IN  \/ weston[o] = "enabled" /\ AttachMore(o, accepted, rejected)
            \/ weston[o] = "disabled" /\ AttachEnable(o, accepted, rejected)
  BY DEF ProcessOutput, Crash
<1>5. Rejects(o, refused) = {} /\ DOMAIN add[o] \ Rejects(o, refused) = 1 .. n
  BY <1>2, <1>3
<1>6. CASE weston[o] = "enabled" /\ AttachMore(o, 1 .. n, {})
  <2>1. attached' = AttachedWith(o, 1 .. n) /\ add' = [add EXCEPT ![o] = <<>>] /\ weston' = weston
    BY <1>6 DEF AttachMore, Fail
  <2>2. QED
    BY <1>1, <1>2, <1>6, <2>1 DEF AttachedWith, IInv, TypeOK
<1>7. CASE weston[o] = "disabled" /\ AttachEnable(o, 1 .. n, {})
  <2>1. Cardinality(1 .. n) = n
    BY <1>2, IntervalSize
  <2>2. TryEnable(o, 1 .. n, 0)
    BY <1>1, <1>7 DEF AttachEnable, ConfigureFails, Jumbled, Crash, GivenUp
  <2>3. Enable(o, 1 .. n, 0)
    BY <1>2, <2>1, <2>2 DEF TryEnable
  <2>4. (1 .. n) \cap Kept(o, 0) = 1 .. n
    BY <1>2 DEF Kept
  <2>5. attached' = AttachedWith(o, 1 .. n) /\ weston' = [weston EXCEPT ![o] = "enabled"]
    BY <2>3, <2>4 DEF Enable
  <2>6. add'[o] = SubSeq(add[o], 1, n - n) \o Reverse(SubSeq(add[o], n - 0 + 1, n))
    BY <1>1, <2>1, <2>3 DEF Enable, IInv, TypeOK
  <2>7. SubSeq(add[o], 1, n - n) = <<>> /\ SubSeq(add[o], n - 0 + 1, n) = <<>>
    BY <1>2, SubSeqEmpty
  <2>8. Reverse(<<>>) = <<>>
    BY DEF Reverse
  <2>9. add'[o] = <<>>
    <3>1. <<>> \in Seq(Heads) /\ <<>> \o <<>> = <<>>
      BY EmptySeq, ConcatEmptySeq
    <3>2. QED
      BY <2>6, <2>7, <2>8, <3>1
  <2>10. QED
    BY <1>1, <1>2, <2>5, <2>9 DEF AttachedWith, IInv, TypeOK
<1>8. QED
  BY <1>4, <1>5, <1>6, <1>7

\* process_output of another output leaves a head where it was.
LEMMA OtherProcessed ==
    ASSUME IInv, Routed, NEW o \in Outputs, ProcessOutput(o),
           NEW h \in Heads, Controls[h] \in Outputs, Controls[h] # o
    PROVE  /\ attached'[h] = attached[h]
           /\ Enabled(h)' <=> Enabled(h)
<1>1. ProcessedOK(o)
  BY ProcessOutputOK DEF IInv
<1>2. attached'[h] = attached[h]
  <2>1. \A i \in DOMAIN add[o] : Controls[add[o][i]] = o
    BY DEF Routed
  <2>2. attached'[h] # attached[h] => \E i \in DOMAIN add[o] : add[o][i] = h
    BY <1>1 DEF ProcessedOK
  <2>3. QED
    BY <2>1, <2>2
<1>3. attached[h] # NULL => weston'[attached[h]] = weston[attached[h]]
  BY <1>1 DEF ProcessedOK, Routed
<1>4. QED
  BY <1>2, <1>3 DEF Enabled

LEMMA RoundProcess ==
    ASSUME IInv, AttachedWorks, Routed, RoundInv, NEW o \in Outputs, ProcessOutput(o)
    PROVE  RoundInv'
<1> SUFFICES ASSUME fault' = "none"
             PROVE  /\ todo' # {} => ~changed'
                    /\ \A p \in Reliable : IF p \in todo' THEN QueuedOnce(p)' ELSE add'[p] = <<>>
                    /\ \A h \in heads' \ NonDesktop : Controls[h] \in Reliable => Follows(h)'
  BY DEF RoundInv
<1>1. /\ fault = "none" /\ o \in todo /\ todo' = todo \ {o}
      /\ UNCHANGED <<heads, connected, changed>>
  BY DEF ProcessOutput, headVars
<1>2. ProcessedOK(o)
  BY ProcessOutputOK DEF IInv
<1>3. ~changed /\ \A p \in Reliable : IF p \in todo THEN QueuedOnce(p) ELSE add[p] = <<>>
  BY <1>1 DEF RoundInv
<1>4. ASSUME NEW p \in Reliable
      PROVE  IF p \in todo' THEN QueuedOnce(p)' ELSE add'[p] = <<>>
  <2>1. CASE p = o
    BY <1>1, <1>3, <2>1, ReliableProcessed
  <2>2. CASE p # o
    <3>1. p \in Outputs /\ add'[p] = add[p]
      BY <1>2, <2>2 DEF ProcessedOK, Reliable
    <3>2. ASSUME NEW i \in DOMAIN add[p] PROVE attached'[add[p][i]] = attached[add[p][i]]
      <4>1. add[p][i] \in Heads /\ Controls[add[p][i]] = p
        BY <3>1, <3>2 DEF Routed, IInv, TypeOK
      <4>2. QED
        BY <2>2, <3>1, <4>1, OtherProcessed
    <3>3. QED
      BY <1>1, <1>3, <2>2, <3>1, <3>2 DEF QueuedOnce
  <2>3. QED
    BY <2>1, <2>2
<1>5. ASSUME NEW h \in heads' \ NonDesktop, Controls[h] \in Reliable
      PROVE  Follows(h)'
  <2>1. /\ h \in heads \ NonDesktop /\ h \in Heads /\ Controls[h] \in Outputs
        /\ Follows(h)
    BY <1>1, <1>3, <1>5 DEF RoundInv, Reliable, IInv, TypeOK
  <2>2. CASE Controls[h] # o
    <3>1. Enabled(h)' <=> Enabled(h)
      BY <2>1, <2>2, OtherProcessed
    <3>2. add'[Controls[h]] = add[Controls[h]]
      BY <1>2, <2>1, <2>2 DEF ProcessedOK
    <3>3. QED
      BY <1>1, <2>1, <2>2, <3>1, <3>2 DEF Follows, Waits
  <2>3. CASE Controls[h] = o
    <3>1. QueuedOnce(o)
      BY <1>1, <1>3, <1>5, <2>3
    <3>2. /\ weston'[o] = "enabled"
          /\ attached'[h] = IF \E i \in DOMAIN add[o] : add[o][i] = h THEN o ELSE attached[h]
      BY <1>5, <2>1, <2>3, <3>1, ReliableProcessed
    <3>3. CASE \E i \in DOMAIN add[o] : add[o][i] = h
      <4>1. Enabled(h)'
        BY <3>2, <3>3, OutputsAssumption DEF Enabled
      <4>2. h \in connected'
        BY <1>1, <3>1, <3>3 DEF QueuedOnce
      <4>3. QED
        BY <4>1, <4>2 DEF Follows
    <3>4. CASE ~\E i \in DOMAIN add[o] : add[o][i] = h
      <4>1. Enabled(h) <=> h \in connected
        BY <2>1, <2>3, <3>4 DEF Follows, Waits
      <4>2. attached[h] = NULL \/ (attached[h] = o /\ Enabled(h))
        BY <1>5, <2>1, <2>3, ReliableAttached
      <4>3. Enabled(h)' <=> Enabled(h)
        BY <3>2, <3>4, <4>2 DEF Enabled
      <4>4. QED
        BY <1>1, <4>1, <4>3 DEF Follows
    <3>5. QED
      BY <3>3, <3>4
  <2>4. QED
    BY <2>2, <2>3
<1>6. QED
  BY <1>1, <1>3, <1>4, <1>5

LEMMA RoundStep ==
    ASSUME HeadsFit
    PROVE  IInv /\ AttachedWorks /\ Routed /\ RoundInv /\ [Next]_vars => RoundInv'
<1> SUFFICES ASSUME IInv, AttachedWorks, Routed, RoundInv, [Next]_vars PROVE RoundInv'
  OBVIOUS
<1>1. ASSUME NEW h \in Heads, HeadAdded(h) \/ ConnectionChanged(h) PROVE RoundInv'
  BY <1>1, RoundPlugged
<1>2. ASSUME NEW h \in Heads, HeadDestroyed(h) PROVE RoundInv'
  BY <1>2, RoundDestroyed
<1>3. CASE HeadsChanged
  BY <1>3, RoundHeadsChanged
<1>4. ASSUME NEW o \in Outputs, ProcessOutput(o) PROVE RoundInv'
  BY <1>4, RoundProcess
<1>5. CASE UNCHANGED vars
  <2>1. UNCHANGED <<heads, connected, attached, weston, add, changed, todo, fault>>
    BY <1>5 DEF vars, headVars, outputVars
  <2>2. \A o : QueuedOnce(o)' <=> QueuedOnce(o)
    BY <2>1 DEF QueuedOnce
  <2>3. \A h : Follows(h)' <=> Follows(h)
    BY <2>1 DEF Follows, Waits, Enabled
  <2>4. QED
    BY <2>1, <2>2, <2>3 DEF RoundInv
<1>6. QED
  BY <1>1, <1>2, <1>3, <1>4, <1>5 DEF Next

\* As long as the heads of each reliable output fit into its array, what was
\* plugged, unplugged, destroyed or refused elsewhere never keeps a monitor on
\* such an output dark, or an unplugged head shown (main.c:497-524).
THEOREM ConnectedIffEnabledHolds ==
    ASSUME HeadsFit
    PROVE  Spec => []ConnectedIffEnabled
<1>1. IInv /\ AttachedWorks /\ Routed /\ RoundInv /\ [Next]_vars => RoundInv'
  BY RoundStep
<1>2. RoundInv => ConnectedIffEnabled
  BY DEF RoundInv, ConnectedIffEnabled, Settled, Running, Follows, Waits
<1>3. QED
  BY <1>1, <1>2, InitInvariant, AttachedInit, RoutedInit, RoundInit,
     NextKeepsInvariant, AttachedStep, RoutedStep, PTL DEF Spec

=============================================================================
