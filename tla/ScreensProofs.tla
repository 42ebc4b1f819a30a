----------------------------- MODULE ScreensProofs -----------------------------
(***************************************************************************)
(* What holds of Screens for any heads and outputs, whatever of them may   *)
(* fail.  Screens takes no steps that Outputs does not, and so keeps its   *)
(* invariant.                                                              *)
(***************************************************************************)
EXTENDS Screens, OutputsProofs

-----------------------------------------------------------------------------
LEMMA ScreensStep == [ScreensNext]_allVars => [Next]_vars
<1> SUFFICES ASSUME [ScreensNext]_allVars PROVE [Next]_vars
    OBVIOUS
<1>1. CASE LoadHead \/ Flush
    BY <1>1 DEF LoadHead, Flush, Next
<1>2. CASE OutputsChange
    BY <1>2 DEF OutputsChange, Next
<1>3. CASE Startup \/ Bind \/ Ready \/ Unbind
    BY <1>3 DEF Startup, Bind, Ready, Unbind, Reset, CrashIn
<1>4. CASE UNCHANGED allVars
    BY <1>4 DEF allVars
<1> QED
    BY <1>1, <1>2, <1>3, <1>4 DEF ScreensNext

\* What the black surfaces see of the outputs is what Outputs says: every run of
\* Screens is one of Outputs, and has its properties.
THEOREM ScreensImplementOutputs == ScreensSpec => Spec
<1>1. ScreensInit => Init
    BY DEF ScreensInit
<1> QED
    BY <1>1, ScreensStep, PTL DEF ScreensSpec, Spec

-----------------------------------------------------------------------------
\* The outputs that last are known, and have been covered or uncovered with the
\* rest.
LastingKnown ==
    \A o \in lasting : o \in Outputs /\ o \in outputs /\ weston[o] = "enabled"

BlackInv ==
    /\ LastingKnown /\ BlackUntilReady /\ LastingAreSafe
    /\ phase # "running" => lasting = {} /\ ready = FALSE /\ shellFault = "none"

LEMMA BlackInit == ScreensInit => BlackInv
    BY DEF ScreensInit, BlackInv, LastingKnown, BlackUntilReady, LastingAreSafe

\* Outputs are never taken out of ivi->outputs.
LEMMA OutputsGrow ==
    ASSUME IInv, [Next]_vars
    PROVE  outputs \subseteq outputs'
<1>1. CASE HeadsChanged
    BY <1>1 DEF HeadsChanged, Ensured
<1>2. ASSUME NEW h \in Heads, HeadAdded(h) \/ ConnectionChanged(h) \/ HeadDestroyed(h)
      PROVE  outputs' = outputs
    BY <1>2 DEF HeadAdded, ConnectionChanged, HeadDestroyed
<1>3. ASSUME NEW o \in Outputs, ProcessOutput(o) PROVE outputs' = outputs
    BY <1>3 DEF ProcessOutput
<1>4. CASE UNCHANGED vars
    BY <1>4 DEF vars
<1> QED
    BY <1>1, <1>2, <1>3, <1>4 DEF Next

LEMMA BlackStep == IInv /\ BlackInv /\ [ScreensNext]_allVars => BlackInv'
<1> SUFFICES ASSUME IInv, BlackInv, [ScreensNext]_allVars PROVE BlackInv'
    OBVIOUS
<1> USE DEF BlackInv, LastingKnown, BlackUntilReady, LastingAreSafe
<1>1. CASE LoadHead \/ Flush
    BY <1>1 DEF LoadHead, Flush, HeadAdded, HeadsChanged, screenVars
<1>2. CASE Startup
    <2>1. \A o \in Outputs : weston[o] = "enabled" => o \in outputs
        BY DEF IInv, KnownOutputs
    <2>2. /\ phase # "running" /\ phase' = "running"
          /\ black' = [o \in Outputs |-> IF o \in outputs THEN "mapped" ELSE "none"]
          /\ lasting' = {o \in Outputs : weston[o] = "enabled"}
          /\ UNCHANGED <<outputs, weston, ready, shellFault>>
        BY <1>2 DEF Startup, vars, outputVars
    <2>3. ready' = FALSE /\ shellFault' = "none"
        BY <2>2
    <2>4. LastingKnown'
        BY <2>1, <2>2
    <2>5. BlackUntilReady'
        BY <2>1, <2>2, <2>3
    <2>6. LastingAreSafe'
        BY <2>3
    <2> QED
        BY <2>2, <2>4, <2>5, <2>6
<1>3. CASE OutputsChange
    <2>1. outputs \subseteq outputs'
        BY ScreensStep, OutputsGrow
    <2>2. /\ UNCHANGED <<phase, ready, shellFault>> /\ shellFault = "none"
          /\ lasting' = lasting \cap {o \in Outputs : weston'[o] = "enabled"}
        BY <1>3 DEF OutputsChange
    <2>3. PICK gone \in SUBSET Disabled :
              black' = [o \in Outputs |->
                  IF HasBlack(o) /\ o \in Destroyed \cup gone THEN "freed" ELSE black[o]]
        BY <1>3 DEF OutputsChange, destroy_black_view
    <2>4. \A o \in lasting' : o \notin Destroyed \cup gone
        BY <2>2 DEF Destroyed, Disabled
    <2>5. \A o \in lasting' : black'[o] = black[o]
        BY <2>2, <2>3, <2>4
    <2> QED
        BY <2>1, <2>2, <2>5
<1>4. CASE Bind
    BY <1>4 DEF Bind, ShellStep, vars, headVars, outputVars
<1>5. CASE Ready
    <2>1. phase = "running" /\ ~ready
        BY <1>5 DEF Ready, ShellStep, AlreadyReady
    <2>2. CASE CrashIn("remove_black_surface") /\ \E o \in outputs : black[o] # "mapped"
        BY <2>1, <2>2 DEF CrashIn, vars, headVars, outputVars
    <2>3. CASE /\ ready' = TRUE
               /\ black' = [o \in Outputs |-> IF o \in outputs THEN "unmapped" ELSE black[o]]
               /\ UNCHANGED <<vars, phase, bound, shellFault, lasting>>
        BY <2>1, <2>3 DEF vars, headVars, outputVars
    <2> QED
        BY <1>5, <2>2, <2>3 DEF Ready
<1>6. CASE Unbind
    <2>1. phase = "running"
        BY <1>6 DEF Unbind, Reset, ShellStep
    <2>2. CASE CrashIn("insert_black_surface") /\ ~Followable
        BY <2>1, <2>2 DEF CrashIn, vars, headVars, outputVars, Followable, HasBlack
    <2>3. CASE /\ ready' = FALSE
               /\ black' = [o \in Outputs |-> IF o \in outputs THEN "mapped" ELSE black[o]]
               /\ UNCHANGED <<vars, phase, shellFault, lasting>>
        BY <2>1, <2>3 DEF vars, headVars, outputVars
    <2> QED
        BY <1>6, <2>2, <2>3 DEF Unbind, Reset
<1>7. CASE UNCHANGED allVars
    BY <1>7 DEF allVars, vars, screenVars, headVars, outputVars
<1> QED
    BY <1>1, <1>2, <1>3, <1>4, <1>5, <1>6, <1>7 DEF ScreensNext

LEMMA BlackInductive == ScreensSpec => []BlackInv
<1>1. ScreensInit => BlackInv
    BY BlackInit
<1> QED
    BY <1>1, BlackStep, ScreensImplementOutputs, OutputsInductive, PTL DEF ScreensSpec

LEMMA TypeStep == IInv /\ BlackInv /\ ScreensTypeOK /\ [ScreensNext]_allVars => ScreensTypeOK'
<1> SUFFICES ASSUME IInv, BlackInv, ScreensTypeOK, [ScreensNext]_allVars
             PROVE  ScreensTypeOK'
    OBVIOUS
<1> USE DEF ScreensTypeOK
<1>1. outputs \subseteq outputs'
    BY ScreensStep, OutputsGrow
<1>2. CASE LoadHead \/ Flush
    BY <1>1, <1>2 DEF LoadHead, Flush, HeadAdded, HeadsChanged, screenVars
<1>3. CASE Startup
    BY <1>1, <1>3 DEF Startup, IInv, KnownOutputs, vars, outputVars
<1>4. CASE OutputsChange
    <2>1. /\ UNCHANGED <<phase, ready, bound, shellFault>>
          /\ lasting' \subseteq lasting
        BY <1>4 DEF OutputsChange
    <2>2. PICK gone \in SUBSET Disabled :
              black' = [o \in Outputs |->
                  IF HasBlack(o) /\ o \in Destroyed \cup gone THEN "freed" ELSE black[o]]
        BY <1>4 DEF OutputsChange, destroy_black_view
    <2>3. /\ black' \in [Outputs -> {"none", "mapped", "unmapped", "freed"}]
          /\ \A o \in Outputs : black'[o] # "none" => black[o] # "none"
        BY <2>2 DEF HasBlack
    <2> QED
        BY <1>1, <2>1, <2>3
<1>5. CASE Bind \/ Ready \/ Unbind
    BY <1>1, <1>5 DEF Bind, Ready, Unbind, Reset, CrashIn, vars, headVars, outputVars
<1>6. CASE UNCHANGED allVars
    BY <1>1, <1>6 DEF allVars, screenVars
<1> QED
    BY <1>2, <1>3, <1>4, <1>5, <1>6 DEF ScreensNext

\* Types; a shell that is ready is bound, and only outputs the compositor knows
\* have, or had, a black surface.
THEOREM ScreensTypeCorrect == ScreensSpec => []ScreensTypeOK
<1>1. ScreensInit => ScreensTypeOK
    BY DEF ScreensInit, ScreensTypeOK
<1> QED
    BY <1>1, TypeStep, BlackInductive, ScreensImplementOutputs, OutputsInductive, PTL
    DEF ScreensSpec

\* An output that is enabled since startup is black exactly while no shell is
\* ready (shell.c:58-67, 281-284, 475).
THEOREM BlackUntilReadyHolds == ScreensSpec => []BlackUntilReady
<1>1. BlackInv => BlackUntilReady
    BY DEF BlackInv
<1> QED
    BY <1>1, BlackInductive, PTL

\* With the monitors left alone no order of a shell's requests follows a bad
\* pointer to a black surface, or fails the assertion that it is mapped
\* (shell.c:235-238, 256).
THEOREM LastingAreSafeHolds == ScreensSpec => []LastingAreSafe
<1>1. BlackInv => LastingAreSafe
    BY DEF BlackInv
<1> QED
    BY <1>1, BlackInductive, PTL

=============================================================================
