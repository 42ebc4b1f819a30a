-------------------------- MODULE ConfigurationProofs --------------------------
(***************************************************************************)
(* What holds of Configuration for any words, any files and any depth of   *)
(* same-as.                                                                *)
(***************************************************************************)
EXTENDS Configuration, TLAPS, FiniteSetTheorems, WellFoundedInduction

-----------------------------------------------------------------------------
(* The option parser compacts the argument vector in place.                  *)

Cells == Words \cup {NULL}

\* What the compaction needs to know of its indices.
Indices ==
    /\ argv \in Seq(Cells) /\ given \in Seq(Cells) /\ Len(given) = Len(argv)
    /\ argc \in 1 .. Len(argv) /\ i \in 1 .. argc /\ j \in 1 .. argc
    /\ origin \in Seq(Nat)

ParserInv == Indices /\ CompactsInPlace

indexVars == <<argv, argc, i, j, given, origin>>

LEMMA ParserInit == Init => ParserInv
<1> SUFFICES ASSUME Init PROVE ParserInv
    OBVIOUS
<1>1. input.line \in Seq(Words)
    BY ConfigurationAssumption DEF Init
<1>2. /\ given = Append(input.line, NULL) /\ argv = given /\ argc = Len(given)
      /\ i = 1 /\ j = 1 /\ origin = <<>>
    BY DEF Init, ParseInit
<1>3. input.line \in Seq(Cells) /\ NULL \in Cells
    BY <1>1 DEF Cells
<1>4. given \in Seq(Cells) /\ Len(given) \in Nat /\ Len(given) >= 1
    BY <1>2, <1>3
<1> QED
    BY <1>2, <1>4 DEF ParserInv, Indices, CompactsInPlace

\* A word that is used leaves the argument vector as it is.
LEMMA UseKeeps ==
    ASSUME ParserInv, NEW w, NEW number, NEW words \in 1 .. 2,
           i + words <= argc, Use(w, number, words), UNCHANGED <<argc, given>>
    PROVE  ParserInv'
<1>1. i' = i + words /\ argv' = argv /\ j' = j /\ origin' = origin
    BY DEF Use
<1>2. Indices'
    BY <1>1 DEF ParserInv, Indices
<1>3. CompactsInPlace'
    BY <1>1 DEF ParserInv, Indices, CompactsInPlace
<1> QED
    BY <1>2, <1>3 DEF ParserInv

\* A word that is kept goes to a place that was already read.
LEMMA KeepKeeps ==
    ASSUME ParserInv, i < argc, Keep, UNCHANGED <<argc, given>>
    PROVE  ParserInv'
<1> USE DEF ParserInv, Indices
<1>1. /\ argv' = [argv EXCEPT ![j] = argv[i]] /\ j' = j + 1 /\ i' = i + 1
      /\ origin' = Append(origin, i)
    BY DEF Keep
<1>2. j <= i /\ Len(origin) = j - 1
    BY DEF CompactsInPlace
<1>3. /\ argv' \in Seq(Cells) /\ Len(argv') = Len(argv)
      /\ \A k \in 1 .. Len(argv) : argv'[k] = IF k = j THEN argv[i] ELSE argv[k]
    BY <1>1, <1>2
<1>4. /\ origin' \in Seq(Nat) /\ Len(origin') = j
      /\ \A k \in 1 .. j : origin'[k] = IF k = j THEN i ELSE origin[k]
    <2>1. origin \in Seq(Nat) /\ i \in Nat /\ j \in Nat /\ Len(origin) = j - 1
        BY <1>2
    <2>2. origin' \in Seq(Nat) /\ Len(origin') = Len(origin) + 1
        BY <2>1, <1>1
    <2>3. \A k \in 1 .. Len(origin) + 1 :
              origin'[k] = IF k = Len(origin) + 1 THEN i ELSE origin[k]
        BY <2>1, <1>1
    <2> QED
        BY <2>1, <2>2, <2>3
<1>5. Indices'
    BY <1>1, <1>2, <1>3, <1>4
<1>6. \A k \in i' .. argc' - 1 : argv'[k] = given'[k]
    <2> SUFFICES ASSUME NEW k \in i' .. argc' - 1 PROVE argv'[k] = given'[k]
        OBVIOUS
    <2>1. k \in i .. argc - 1 /\ k \in 1 .. Len(argv) /\ k # j
        BY <1>1, <1>2
    <2>2. argv'[k] = argv[k]
        BY <2>1, <1>3
    <2>3. argv[k] = given[k]
        BY <2>1 DEF CompactsInPlace
    <2> QED
        BY <2>2, <2>3
<1>7. ASSUME NEW k \in 1 .. j' - 1
      PROVE  /\ origin'[k] \in 1 .. i' - 1
             /\ argv'[k] = given'[origin'[k]]
             /\ k > 1 => origin'[k - 1] < origin'[k]
    <2>0. /\ k \in 1 .. j /\ i' = i + 1 /\ j \in Nat /\ i \in Nat /\ given' = given
        BY <1>1
    <2>1. CASE k = j
        <3>1. origin'[k] = i /\ argv'[k] = argv[i] /\ argv[i] = given[i]
            <4>1. argv[i] = given[i]
                BY DEF CompactsInPlace
            <4>2. origin'[k] = i
                BY <2>0, <2>1, <1>4
            <4>3. argv'[k] = argv[i]
                BY <2>0, <2>1, <1>2, <1>3
            <4> QED
                BY <4>1, <4>2, <4>3
        <3>2. k > 1 => origin'[k - 1] = origin[k - 1] /\ origin[k - 1] \in 1 .. i - 1
            <4> SUFFICES ASSUME k > 1
                         PROVE  origin'[k - 1] = origin[k - 1] /\ origin[k - 1] \in 1 .. i - 1
                OBVIOUS
            <4>1. k - 1 \in 1 .. j /\ k - 1 # j /\ k - 1 \in 1 .. j - 1
                BY <2>0, <2>1
            <4>2. origin'[k - 1] = origin[k - 1]
                BY <4>1, <1>4
            <4>3. origin[k - 1] \in 1 .. i - 1
                BY <4>1 DEF CompactsInPlace
            <4> QED
                BY <4>2, <4>3
        <3> QED
            BY <3>1, <3>2, <2>0
    <2>2. CASE k # j
        <3>1. k \in 1 .. j - 1
            BY <2>0, <2>2
        <3>2. origin'[k] = origin[k]
            BY <2>0, <2>2, <1>4
        <3>3. argv'[k] = argv[k]
            BY <2>0, <2>2, <1>2, <1>3
        <3>4. k > 1 => origin'[k - 1] = origin[k - 1]
            BY <2>0, <3>1, <1>4
        <3>5. /\ origin[k] \in 1 .. i - 1
              /\ argv[k] = given[origin[k]]
              /\ k > 1 => origin[k - 1] < origin[k]
            BY <3>1 DEF CompactsInPlace
        <3> QED
            BY <3>2, <3>3, <3>4, <3>5, <2>0
    <2> QED
        BY <2>1, <2>2
<1> QED
    BY <1>1, <1>2, <1>4, <1>5, <1>6, <1>7 DEF CompactsInPlace

\* The next call starts over on what was kept.
LEMMA EndKeeps ==
    ASSUME ParserInv, ParseEnd
    PROVE  ParserInv'
<1> USE DEF ParserInv, Indices
<1>1. /\ argv' = [argv EXCEPT ![j] = NULL] /\ argc' = j /\ given' = argv'
      /\ i' = 1 /\ j' = 1 /\ origin' = <<>>
    BY DEF ParseEnd, Shorten
<1>2. argv' \in Seq(Cells) /\ Len(argv') = Len(argv)
    BY <1>1 DEF Cells
<1> QED
    BY <1>1, <1>2 DEF CompactsInPlace

LEMMA WordKeeps ==
    ASSUME ParserInv, ParseWord
    PROVE  ParserInv'
<1> DEFINE w == argv[i]
<1>1. i < argc /\ UNCHANGED <<argc, given>>
    BY DEF ParseWord, Reading
<1>2. argc \in Int /\ i \in Int
    BY DEF ParserInv, Indices
<1>3. CASE Complete(w) /\ Use(w, w.number, 1)
    BY <1>1, <1>2, <1>3, UseKeeps
<1>4. CASE TakesNext(w) /\ UseNext(w)
    <2>1. i + 2 <= argc
        BY <1>2, <1>4 DEF TakesNext
    <2> QED
        BY <2>1, <1>1, <1>4, UseKeeps DEF UseNext
<1>5. CASE UNCHANGED <<argv, i, j, val, origin>>
    BY <1>1, <1>5 DEF ParserInv, Indices, CompactsInPlace
<1>6. CASE Keep
    BY <1>1, <1>6, KeepKeeps
<1> QED
    BY <1>3, <1>4, <1>5, <1>6 DEF ParseWord

LEMMA ParserStep == ParserInv /\ [Next]_vars => ParserInv'
<1> SUFFICES ASSUME ParserInv, [Next]_vars PROVE ParserInv'
    OBVIOUS
<1>1. CASE Parse
    BY <1>1, WordKeeps, EndKeeps DEF Parse, ParseNext
<1>2. CASE UNCHANGED indexVars
    BY <1>2 DEF indexVars, ParserInv, Indices, CompactsInPlace
<1>3. CASE \/ HelpOrVersion \/ ConfigFails \/ LoadConfig \/ LoadBackend
           \/ FollowSameAs \/ head_prepare_enable \/ HeadsDone \/ Run
    BY <1>2, <1>3 DEF HelpOrVersion, ConfigFails, LoadConfig, LoadBackend, FollowSameAs,
        head_prepare_enable, HeadsDone, Run, indexVars, parseVars
<1>4. ASSUME NEW n \in Names, ConfigureOutput(n) PROVE ParserInv'
    BY <1>2, <1>4 DEF ConfigureOutput, indexVars
<1>5. CASE UNCHANGED vars
    BY <1>2, <1>5 DEF vars, parseVars, indexVars
<1> QED
    BY <1>1, <1>3, <1>4, <1>5 DEF Next

\* However often and with whatever tables it is called, parse_options keeps the
\* words that are left once each, in their order, and reads each as it was given
\* (option-parser.c:169-199).
THEOREM CompactsInPlaceHolds == Spec => []CompactsInPlace
<1>1. ParserInv => CompactsInPlace
    BY DEF ParserInv
<1> QED
    BY <1>1, ParserInit, ParserStep, PTL DEF Spec

-----------------------------------------------------------------------------
(* No output that is off is configured.                                      *)

\* An output has the section it was ensured with, which was not off.
NotOff(output) ==
    output # NULL =>
        /\ "config" \in DOMAIN output
        /\ output.config # NULL => output.config.mode # "off"

NotOffInv ==
    /\ DOMAIN outputs = Names
    /\ \A n \in Names : NotOff(outputs[n])
    /\ NeverConfiguredOff

LEMMA NotOffInit == Init => NotOffInv
    BY DEF Init, ParseInit, NotOffInv, NotOff, NeverConfiguredOff

LEMMA NotOffParse ==
    ASSUME NotOffInv, Parse
    PROVE  NotOffInv'
<1>1. outputs' = outputs
    BY DEF Parse, configVars
<1>2. fault' \in {fault, "none", "handle_option", "long_option_with_arg"}
    BY DEF Parse, ParseNext, ParseWord, ParseEnd, Use, UseNext, Keep
<1> QED
    BY <1>1, <1>2 DEF NotOffInv, NotOff, NeverConfiguredOff

\* An output keeps its section, and gets it only from a head that is not off.
LEMMA NotOffPrepare ==
    ASSUME NotOffInv, head_prepare_enable
    PROVE  NotOffInv'
<1> DEFINE section == IF TooDeep THEN NULL ELSE SectionNamed(config.outputs, same_as)
           name    == OutputName(section)
           output  == ensured(name, section)
<1>1. fault' = fault
    BY DEF head_prepare_enable, parseVars
<1>2. CASE Skips(section)
    BY <1>1, <1>2 DEF head_prepare_enable, NotOffInv, NotOff, NeverConfiguredOff
<1>3. CASE ~Skips(section)
    <2>1. outputs' = [outputs EXCEPT ![name] = AddHead(output, Head(heads))]
        BY <1>3 DEF head_prepare_enable
    <2>2. name \in Names => /\ "config" \in DOMAIN output
                            /\ output.config # NULL => output.config.mode # "off"
        <3>1. CASE outputs[name] # NULL
            BY <3>1 DEF ensured, NotOffInv, NotOff
        <3>2. CASE outputs[name] = NULL
            BY <3>2, <1>3 DEF ensured, Skips
        <3> QED
            BY <3>1, <3>2
    <2> QED
        BY <2>1, <2>2, <1>1 DEF NotOffInv, NotOff, NeverConfiguredOff, AddHead
<1> QED
    BY <1>2, <1>3

LEMMA NotOffConfigure ==
    ASSUME NotOffInv, NEW n \in Names, ConfigureOutput(n)
    PROVE  NotOffInv'
<1>1. ~TurnedOff(outputs[n].config)
    BY DEF ConfigureOutput, ToConfigure, TurnedOff, NotOffInv, NotOff
<1>2. /\ fault' = fault
      /\ \E ok \in BOOLEAN :
            outputs' = [outputs EXCEPT ![n] =
                [@ EXCEPT !.add = <<>>, !.enabled = ok,
                          !.settings = configure_output(outputs[n].config)]]
    BY <1>1 DEF ConfigureOutput
<1>3. PICK ok \in BOOLEAN :
          outputs' = [outputs EXCEPT ![n] =
              [outputs[n] EXCEPT !.add = <<>>, !.enabled = ok,
                                 !.settings = configure_output(outputs[n].config)]]
    BY <1>2
<1>4. outputs[n] # NULL
    BY DEF ConfigureOutput, ToConfigure
<1>5. outputs'[n].config = outputs[n].config /\ "config" \in DOMAIN outputs'[n]
    BY <1>3, <1>4 DEF NotOffInv, NotOff
<1>6. NotOff(outputs'[n])
    BY <1>4, <1>5 DEF NotOffInv, NotOff
<1>7. /\ DOMAIN outputs' = Names
      /\ \A m \in Names : m # n => outputs'[m] = outputs[m]
    BY <1>3 DEF NotOffInv
<1>8. \A m \in Names : NotOff(outputs'[m])
    BY <1>6, <1>7 DEF NotOffInv
<1>9. NeverConfiguredOff'
    BY <1>2 DEF NotOffInv, NeverConfiguredOff
<1> QED
    BY <1>7, <1>8, <1>9 DEF NotOffInv, NotOff

LEMMA NotOffStep == NotOffInv /\ [Next]_vars => NotOffInv'
<1> SUFFICES ASSUME NotOffInv, [Next]_vars PROVE NotOffInv'
    OBVIOUS
<1>1. CASE Parse
    BY <1>1, NotOffParse
<1>2. CASE head_prepare_enable
    BY <1>2, NotOffPrepare
<1>3. ASSUME NEW n \in Names, ConfigureOutput(n) PROVE NotOffInv'
    BY <1>3, NotOffConfigure
<1>4. CASE \/ HelpOrVersion \/ ConfigFails \/ LoadConfig \/ LoadBackend
           \/ FollowSameAs \/ HeadsDone \/ Run \/ UNCHANGED vars
    <2>1. outputs' = outputs /\ fault' \in {fault, "wl_display_destroy"}
        BY <1>4 DEF HelpOrVersion, ConfigFails, LoadConfig, LoadBackend, FollowSameAs,
            HeadsDone, Run, vars, configVars, parseVars
    <2> QED
        BY <2>1 DEF NotOffInv, NotOff, NeverConfiguredOff
<1> QED
    BY <1>1, <1>2, <1>3, <1>4 DEF Next

\* Whatever the file says and however its same-as lead, an output with mode=off
\* is never configured: the assertion of drm_configure_output holds, "this should
\* have been handled earlier" (main.c:179-180, 460-466).
THEOREM NeverConfiguredOffHolds == Spec => []NeverConfiguredOff
<1>1. NotOffInv => NeverConfiguredOff
    BY DEF NotOffInv
<1> QED
    BY <1>1, NotOffInit, NotOffStep, PTL DEF Spec

-----------------------------------------------------------------------------
(* Types.                                                                    *)

\* A set of natural numbers has a least element.
LEMMA Least ==
    ASSUME NEW S \in SUBSET Nat, S # {}
    PROVE  \E k \in S : \A l \in S : k <= l
<1> DEFINE R == {ss \in Nat \X Nat : ss[1] < ss[2]}
<1>1. IsWellFoundedOn(R, Nat)
    <2>1. OpToRel(<, Nat) = R
        BY DEF OpToRel
    <2> QED
        BY <2>1, NatLessThanWellFounded
<1>2. PICK k \in S : \A l \in S : <<l, k>> \notin R
    <2> HIDE DEF R
    <2> QED
        BY <1>1, WFMin
<1>3. ASSUME NEW l \in S PROVE k <= l
    <2>1. <<l, k>> \notin R /\ <<l, k>> \in Nat \X Nat
        BY <1>2
    <2> QED
        BY <2>1
<1> QED
    BY <1>3

\* What a value of an option may be.
ValueOf(o) == IF o = "output-count" THEN Counts
              ELSE IF o \in Numbers THEN Int ELSE Int \cup {NULL}

ReadWell ==
    /\ tables \in Seq(SUBSET Options)
    /\ \A k \in 1 .. argc - 1 : argv[k] \in Words
    /\ val \in [Options -> [word : Words, number : Int \cup {NULL}] \cup {NULL}]
    /\ \A o \in Options : val[o] # NULL => val[o].number \in ValueOf(o)
    /\ fault \in {"none", "handle_option", "long_option_with_arg", "wl_display_destroy",
                  "drm_configure_output"}

LEMMA ValuesInInt == Counts \subseteq Int /\ \A o \in Options : ValueOf(o) \subseteq Int \cup {NULL}
<1>1. Counts \subseteq Int
    BY WordsAssumption DEF Counts, WordShapes
<1> QED
    BY <1>1 DEF ValueOf

LEMMA ReadWellInit == Init => ReadWell
<1> SUFFICES ASSUME Init PROVE ReadWell
    OBVIOUS
<1>1. input.line \in Seq(Words)
    BY ConfigurationAssumption DEF Init
<1>2. /\ given = Append(input.line, NULL) /\ argv = given /\ argc = Len(given)
      /\ tables = <<CoreOptions>> /\ val = [o \in Options |-> NULL] /\ fault = "none"
    BY DEF Init, ParseInit
<1>3. CoreOptions \in SUBSET Options
    BY DEF Options
<1>4. tables \in Seq(SUBSET Options)
    BY <1>2, <1>3
<1>5. ASSUME NEW k \in 1 .. argc - 1 PROVE argv[k] \in Words
    <2>1. argc = Len(input.line) + 1
        BY <1>1, <1>2
    <2>2. k \in 1 .. Len(input.line)
        BY <2>1, <1>1
    <2> QED
        BY <2>2, <1>1, <1>2
<1> QED
    BY <1>2, <1>4, <1>5 DEF ReadWell

\* A word that is used names an option of the table and has a value for it.
LEMMA UseReads ==
    ASSUME ReadWell, NEW w \in Words, NEW number, NEW words,
           w.name \in Options, number \in ValueOf(w.name),
           Use(w, number, words), UNCHANGED <<tables, argc>>
    PROVE  ReadWell'
<1>1. /\ val' = [val EXCEPT ![w.name] = [word |-> w, number |-> number]]
      /\ argv' = argv
    BY DEF Use, Store
<1>2. fault' \in {"none", "handle_option"}
    BY DEF Use
<1>3. [word |-> w, number |-> number] \in [word : Words, number : Int \cup {NULL}]
    BY ValuesInInt
<1>4. ASSUME NEW o \in Options, val'[o] # NULL
      PROVE  val'[o].number \in ValueOf(o)
    <2>1. CASE o = w.name
        BY <2>1, <1>1, <1>3 DEF ReadWell
    <2>2. CASE o # w.name
        BY <2>2, <1>1, <1>4 DEF ReadWell
    <2> QED
        BY <2>1, <2>2
<1>5. val' \in [Options -> [word : Words, number : Int \cup {NULL}] \cup {NULL}]
    BY <1>1, <1>3 DEF ReadWell
<1> QED
    BY <1>1, <1>2, <1>4, <1>5 DEF ReadWell

LEMMA NamedInTable ==
    ASSUME ReadWell, Reading, NEW w, IsNamed(w)
    PROVE  w.name \in Options
BY DEF ReadWell, Reading, IsNamed

LEMMA CompleteValue ==
    ASSUME NEW w \in Words, Complete(w), w.name \in Options
    PROVE  w.number \in ValueOf(w.name)
<1>1. w.number \in Int \cup {NULL}
    BY WordsAssumption DEF WordShapes
<1>2. w.name \in Numbers => w.number # NULL
    BY DEF Complete, long_option, short_option, Valid, Numbers, Flags
<1>3. w.name = "output-count" => w.number \in Counts
    BY <1>2 DEF Counts, Numbers
<1> QED
    BY <1>1, <1>2, <1>3 DEF ValueOf

LEMMA NextValue ==
    ASSUME ReadWell, ParserInv, NEW w, w.name \in Options, TakesNext(w)
    PROVE  NumberOf(argv[i + 1]) \in ValueOf(w.name)
<1>1. i + 1 \in 1 .. argc - 1
    BY DEF TakesNext, ParserInv, Indices
<1>2. argv[i + 1] \in Words
    BY <1>1 DEF ReadWell
<1>3. NumberOf(argv[i + 1]) \in Int \cup {NULL}
    BY <1>2, WordsAssumption DEF NumberOf, WordShapes
<1>4. w.name \in Numbers => NumberOf(argv[i + 1]) # NULL
    BY DEF TakesNext, Valid
<1>5. w.name = "output-count" => NumberOf(argv[i + 1]) \in Counts
    BY <1>2, <1>4 DEF Counts, Numbers, NumberOf
<1> QED
    BY <1>3, <1>4, <1>5 DEF ValueOf

LEMMA WordReads ==
    ASSUME ReadWell, ParserInv, ParseWord
    PROVE  ReadWell'
<1> DEFINE w == argv[i]
<1>1. Reading /\ UNCHANGED <<tables, argc>>
    BY DEF ParseWord
<1>2. w \in Words
    BY <1>1 DEF Reading, ReadWell, ParserInv, Indices
<1> HIDE DEF w
<1>3. CASE Complete(w) /\ Use(w, w.number, 1)
    <2>1. w.name \in Options
        BY <1>1, <1>3, NamedInTable DEF Complete, long_option, short_option
    <2> QED
        BY <2>1, <1>1, <1>2, <1>3, CompleteValue, UseReads
<1>4. CASE TakesNext(w) /\ UseNext(w)
    <2>1. w.name \in Options
        BY <1>1, <1>4, NamedInTable DEF TakesNext
    <2>2. NumberOf(argv[i + 1]) \in ValueOf(w.name)
        BY <2>1, <1>4, NextValue
    <2> QED
        BY <2>1, <2>2, <1>1, <1>2, <1>4, UseReads DEF UseNext
<1>5. CASE fault' = "long_option_with_arg" /\ UNCHANGED <<argv, i, j, val, origin>>
    BY <1>1, <1>5 DEF ReadWell
<1>6. CASE Keep
    <2>1. argv' = [argv EXCEPT ![j] = argv[i]] /\ UNCHANGED <<val, fault>>
        BY <1>6 DEF Keep
    <2>2. \A k \in 1 .. argc - 1 : argv'[k] \in Words
        BY <2>1, <1>2 DEF ReadWell, ParserInv, Indices, w
    <2> QED
        BY <2>1, <2>2, <1>1 DEF ReadWell
<1> QED
    BY <1>3, <1>4, <1>5, <1>6 DEF ParseWord, w

LEMMA EndReads ==
    ASSUME ReadWell, ParserInv, ParseEnd
    PROVE  ReadWell'
<1>1. /\ argv' = [argv EXCEPT ![j] = NULL] /\ argc' = j
      /\ tables' = Tail(tables) /\ tables # <<>> /\ UNCHANGED <<val, fault>>
    BY DEF ParseEnd, Shorten
<1>2. \A k \in 1 .. argc' - 1 : argv'[k] \in Words
    BY <1>1 DEF ReadWell, ParserInv, Indices
<1>3. tables' \in Seq(SUBSET Options)
    BY <1>1 DEF ReadWell
<1> QED
    BY <1>1, <1>2, <1>3 DEF ReadWell

LEMMA BackendTables == \A b \in Backends : BackendOptions(b) \in Seq(SUBSET Options)
<1>1. /\ DrmOptions \in SUBSET Options /\ WindowedOptions \in SUBSET Options
      /\ WaylandOptions \in SUBSET Options /\ X11Options \in SUBSET Options
    BY DEF Options
<1>2. /\ <<DrmOptions>> \in Seq(SUBSET Options)
      /\ <<WindowedOptions, WaylandOptions>> \in Seq(SUBSET Options)
      /\ <<WindowedOptions, X11Options>> \in Seq(SUBSET Options)
    BY <1>1
<1>3. /\ BackendOptions("drm") = <<DrmOptions>>
      /\ BackendOptions("wayland") = <<WindowedOptions, WaylandOptions>>
      /\ BackendOptions("x11") = <<WindowedOptions, X11Options>>
    BY DEF BackendOptions
<1> QED
    BY <1>2, <1>3 DEF Backends

NothingYet == heads = <<>> /\ outputs = [n \in Names |-> NULL]

MainTyped ==
    /\ stage \in {"options", "backend", "heads", "outputs", "running", "exited"}
    /\ input \in Inputs
    /\ config \in ConfigFiles
    /\ backend \in Backends \cup {NULL}
    /\ api \in {"none", "drm", "window"}
    /\ heads \in Seq(Names)
    /\ same_as \in Names \cup {NULL}
    /\ heads # <<>> => same_as \in Names
    /\ depth \in 0 .. MaxNesting + 1
    /\ outputs \in [Names -> OutputStates \cup {NULL}]
    /\ stage \in {"options", "backend"} => NothingYet

TypeInv == ParserInv /\ ReadWell /\ MainTyped

LEMMA MainTypedInit == Init => MainTyped
<1> SUFFICES ASSUME Init PROVE MainTyped
    OBVIOUS
<1>1. NoConfig \in ConfigFiles
    BY DEF NoConfig, ConfigFiles
<1> QED
    BY <1>1, ConfigurationAssumption DEF Init, MainTyped, NothingYet

\* load_config leaves the file, or nothing; the backend is one there is.
LEMMA ConfigLoads ==
    ASSUME MainTyped, LoadConfig
    PROVE  /\ config' \in ConfigFiles /\ backend' \in Backends \cup {NULL}
           /\ \/ backend' \in Backends /\ stage' = "backend" /\ tables' = BackendOptions(backend')
              \/ tables' = tables /\ backend' = backend /\ stage' = "exited"
<1>1. NoConfig \in ConfigFiles
    BY DEF NoConfig, ConfigFiles
<1>2. config' \in ConfigFiles
    <2>1. Loaded = NULL \/ Loaded = input.file
        BY DEF Loaded
    <2>2. input.file \in ConfigFiles \cup {NULL}
        BY ConfigurationAssumption DEF MainTyped
    <2> QED
        BY <1>1, <2>1, <2>2 DEF LoadConfig
<1>3. config'.backend \in Backends \cup {"other", NULL}
    BY <1>2 DEF ConfigFiles
<1>4. CASE ChooseBackend(config')
    <2>1. backend' \in Backends
        BY <1>3, <1>4 DEF ChooseBackend
    <2> QED
        BY <1>2, <1>4, <2>1 DEF ChooseBackend
<1>5. CASE UnknownBackend(config')
    BY <1>2, <1>5 DEF UnknownBackend, Exit, MainTyped
<1> QED
    BY <1>4, <1>5 DEF LoadConfig

LEMMA ReadWellStep == TypeInv /\ [Next]_vars => ReadWell'
<1> SUFFICES ASSUME TypeInv, [Next]_vars PROVE ReadWell'
    OBVIOUS
<1> USE DEF TypeInv
<1>1. CASE Parse
    BY <1>1, WordReads, EndReads DEF Parse, ParseNext
<1>2. CASE LoadConfig
    <2>1. UNCHANGED <<argv, argc, val, fault>>
        BY <1>2 DEF LoadConfig
    <2>2. tables' \in Seq(SUBSET Options)
        BY <1>2, ConfigLoads, BackendTables DEF ReadWell
    <2> QED
        BY <2>1, <2>2 DEF ReadWell
<1>3. CASE /\ UNCHANGED <<tables, argv, argc, val>>
           /\ fault' \in {fault, "wl_display_destroy", "drm_configure_output"}
    BY <1>3 DEF ReadWell
<1>4. CASE \/ HelpOrVersion \/ ConfigFails \/ LoadBackend
           \/ FollowSameAs \/ head_prepare_enable \/ HeadsDone \/ Run \/ UNCHANGED vars
    BY <1>3, <1>4 DEF HelpOrVersion, ConfigFails, LoadBackend, FollowSameAs,
        head_prepare_enable, HeadsDone, Run, parseVars, vars
<1>5. ASSUME NEW n \in Names, ConfigureOutput(n) PROVE ReadWell'
    BY <1>3, <1>5 DEF ConfigureOutput
<1> QED
    BY <1>1, <1>2, <1>4, <1>5 DEF Next

-----------------------------------------------------------------------------
(* The sections of a name.                                                   *)

\* weston_config_get_section returns a section of that name, or none.
LEMMA SectionFound ==
    ASSUME NEW sections \in Seq(Sections), NEW name
    PROVE  \/ SectionNamed(sections, name) = NULL
           \/ /\ SectionNamed(sections, name) \in Sections
              /\ SectionNamed(sections, name).name = name
<1> DEFINE named == {k \in DOMAIN sections : sections[k].name = name}
           first == CHOOSE k \in named : \A l \in named : k <= l
<1>1. CASE named = {}
    BY <1>1 DEF SectionNamed
<1>2. CASE named # {}
    <2>1. named \in SUBSET Nat
        OBVIOUS
    <2>2. \E k \in named : \A l \in named : k <= l
        BY <1>2, <2>1, Least
    <2>3. first \in named
        BY <2>2
    <2>4. SectionNamed(sections, name) = sections[first]
        BY <1>2 DEF SectionNamed
    <2> HIDE DEF first
    <2> QED
        BY <2>3, <2>4
<1> QED
    BY <1>1, <1>2

LEMMA SectionTyped ==
    ASSUME MainTyped, NEW name
    PROVE  \/ SectionNamed(config.outputs, name) = NULL
           \/ /\ SectionNamed(config.outputs, name) \in Sections
              /\ SectionNamed(config.outputs, name).name = name
              /\ SectionNamed(config.outputs, name) # NULL
<1>1. config.outputs \in Seq(Sections)
    BY DEF MainTyped, ConfigFiles
<1> QED
    BY <1>1, SectionFound, ConfigurationAssumption

\* The heads of a windowed backend have names of sections or default names.
LEMMA HeadsCreated ==
    ASSUME TypeInv, NEW b \in {"wayland", "x11"}
    PROVE  windowed_create_outputs(config.outputs, b) \in Seq(Names)
<1> DEFINE sections == config.outputs
           matching == Matching(sections, b)
           Turn(m)  == Cardinality({l \in matching : l <= m})
           Chosen(n) == CHOOSE m \in matching : Turn(m) = n
           created  == windowed_create_outputs(sections, b)
<1>1. sections \in Seq(Sections)
    BY DEF TypeInv, MainTyped, ConfigFiles
<1>2. OutputCount \in Counts
    <2>1. "output-count" \in Options /\ 1 \in Counts
        BY DEF Options, WindowedOptions, Counts
    <2> QED
        BY <2>1 DEF OutputCount, Given, TypeInv, ReadWell, ValueOf
<1>3. OutputCount \in Int
    BY <1>2, ValuesInInt
<1>4. ASSUME NEW m \in matching PROVE sections[m].name \in Names
    <2>1. m \in DOMAIN sections /\ sections[m].name # NULL
        BY DEF Matching
    <2>2. sections[m] \in Sections
        BY <1>1, <2>1
    <2> QED
        BY <2>1, <2>2 DEF Sections
<1>5. ASSUME NEW n \in 1 .. OutputCount, ~\E m \in matching : Turn(m) = n
      PROVE  <<DefaultPrefix[b], n - 1>> \in Names
    <2>1. b \in DOMAIN DefaultPrefix
        BY DEF DefaultPrefix
    <2>2. n - 1 \in 0 .. OutputCount - 1
        BY <1>3
    <2> QED
        BY <2>1, <2>2, <1>2, ConfigurationAssumption
<1>6. ASSUME NEW n \in 1 .. OutputCount PROVE created[n] \in Names
    <2>1. created[n] = IF \E m \in matching : Turn(m) = n THEN sections[Chosen(n)].name
                       ELSE <<DefaultPrefix[b], n - 1>>
        BY DEF windowed_create_outputs
    <2>2. CASE \E m \in matching : Turn(m) = n
        <3>1. Chosen(n) \in matching
            BY <2>2
        <3> QED
            BY <2>1, <2>2, <3>1, <1>4
    <2>3. CASE ~\E m \in matching : Turn(m) = n
        BY <2>1, <2>3, <1>5
    <2> QED
        BY <2>2, <2>3
<1>7. created = [n \in 1 .. OutputCount |-> created[n]]
    BY DEF windowed_create_outputs
<1>8. PICK count \in Nat : 1 .. OutputCount = 1 .. count
    <2>1. CASE OutputCount \in Nat
        BY <2>1
    <2>2. CASE OutputCount \notin Nat
        <3>1. 1 .. OutputCount = 1 .. 0
            BY <1>3, <2>2
        <3> QED
            BY <3>1
    <2> QED
        BY <2>1, <2>2
<1>9. created \in [1 .. count -> Names]
    BY <1>6, <1>7, <1>8
<1> HIDE DEF created
<1> QED
    BY <1>9 DEF created

LEMMA SettingsTyped ==
    ASSUME TypeInv, NEW section \in Sections \cup {NULL}
    PROVE  configure_output(section) \in Settings \cup {NULL}
<1>0. section # NULL => section \in Sections
    OBVIOUS
<1>1. Scale(section) \in Int /\ parse_transform(section) \in Transforms
    BY <1>0 DEF Scale, parse_transform, Sections, Transforms
<1>2. \A o \in {"width", "height", "scale"} : Cmdline(o) \in Int
    BY DEF Cmdline, Given, TypeInv, ReadWell, ValueOf, Numbers, Options, WindowedOptions
<1>3. \A o \in {"width", "height", "scale"} : \A x \in Int : Override(o, x) \in Int
    BY <1>2 DEF Override
<1>4. drm_mode(section) \in {"current", "preferred", "modeline"}
    BY DEF drm_mode
<1>5. drm_configure_output(section) \in Settings
    BY <1>1, <1>4 DEF drm_configure_output, Settings
<1>6. windowed_size(section) \in Int \X Int
    <2> DEFINE size == IF section # NULL /\ section.mode = "size" THEN section.size ELSE DefaultSize
    <2>1. size \in Int \X Int
        BY <1>0 DEF Sections, DefaultSize
    <2>2. windowed_size(section) = <<Override("width", size[1]), Override("height", size[2])>>
        BY DEF windowed_size
    <2> HIDE DEF size
    <2> QED
        BY <2>1, <2>2, <1>3
<1>7. windowed_configure_output(section) \in Settings
    BY <1>1, <1>3, <1>6 DEF windowed_configure_output, Settings
<1> QED
    BY <1>5, <1>7 DEF configure_output, TypeInv, MainTyped

-----------------------------------------------------------------------------
LEMMA LoadTyped ==
    ASSUME TypeInv, LoadBackend
    PROVE  MainTyped'
<1> USE DEF TypeInv, MainTyped
<1>1. UNCHANGED <<input, config, backend, outputs>>
    BY DEF LoadBackend
<1>2. CASE Exit /\ UNCHANGED <<api, heads, same_as, depth>>
    BY <1>1, <1>2 DEF Exit
<1>3. ASSUME NEW names \in Seq(Names), ReadHeads(names)
      PROVE  /\ heads' \in Seq(Names) /\ same_as' \in Names \cup {NULL}
             /\ heads' # <<>> => same_as' \in Names
             /\ depth' \in 0 .. MaxNesting + 1
    BY <1>3, ConfigurationAssumption DEF ReadHeads
<1>4. CASE stage' = "heads" /\ load_drm_backend
    <2>1. api' = "drm" /\ \E hs \in Seq(Names) : ReadHeads(hs)
        BY <1>4, ConfigurationAssumption DEF load_drm_backend
    <2> QED
        BY <1>1, <1>3, <1>4, <2>1
<1>5. CASE stage' = "heads" /\ load_wayland_backend
    <2>1. << <<"wlparent", 0>> >> \in Seq(Names)
        BY ConfigurationAssumption
    <2>2. api' \in {"window", "none"} /\ \E hs \in Seq(Names) : ReadHeads(hs)
        BY <1>5, <2>1, HeadsCreated DEF load_wayland_backend
    <2> QED
        BY <1>1, <1>3, <1>5, <2>2
<1>6. CASE stage' = "heads" /\ load_x11_backend
    <2>1. api' = "window" /\ \E hs \in Seq(Names) : ReadHeads(hs)
        BY <1>6, HeadsCreated DEF load_x11_backend
    <2> QED
        BY <1>1, <1>3, <1>6, <2>1
<1> QED
    BY <1>2, <1>4, <1>5, <1>6 DEF LoadBackend

LEMMA FollowTyped ==
    ASSUME TypeInv, FollowSameAs
    PROVE  MainTyped'
<1> DEFINE section == SectionNamed(config.outputs, same_as)
<1>1. section \in Sections /\ section.same_as # NULL
    BY SectionTyped DEF FollowSameAs, TypeInv
<1>2. same_as' = section.same_as /\ same_as' \in Names
    BY <1>1 DEF FollowSameAs, Sections
<1>3. depth' \in 0 .. MaxNesting + 1
    BY ConfigurationAssumption DEF FollowSameAs, TooDeep, Deeper, TypeInv, MainTyped
<1>4. UNCHANGED <<stage, input, config, backend, api, heads, outputs>>
    BY DEF FollowSameAs
<1> QED
    BY <1>2, <1>3, <1>4 DEF TypeInv, MainTyped, NothingYet

LEMMA AddHeadTyped ==
    ASSUME NEW output \in OutputStates, NEW head \in Names
    PROVE  AddHead(output, head) \in OutputStates
<1>1. output.add \in Seq(Names)
    BY DEF OutputStates
<1>2. Append(output.add, head) \in Seq(Names)
    BY <1>1
<1>3. \A add \in Seq(Names) : [output EXCEPT !.add = add] \in OutputStates
    BY DEF OutputStates
<1>4. [output EXCEPT !.add = Append(output.add, head)] \in OutputStates
    BY <1>2, <1>3
<1> QED
    BY <1>4 DEF AddHead

LEMMA PrepareTyped ==
    ASSUME TypeInv, head_prepare_enable
    PROVE  MainTyped'
<1> USE DEF TypeInv, MainTyped
<1> DEFINE section == IF TooDeep THEN NULL ELSE SectionNamed(config.outputs, same_as)
           name    == OutputName(section)
           output  == ensured(name, section)
<1>1. /\ UNCHANGED <<stage, input, config, backend, api>> /\ ReadingHeads
      /\ ReadHeads(Tail(heads))
    BY DEF head_prepare_enable
<1>2. Tail(heads) \in Seq(Names) /\ Head(heads) \in Names
    BY <1>1 DEF ReadingHeads
<1>3. /\ heads' \in Seq(Names) /\ same_as' \in Names \cup {NULL}
      /\ heads' # <<>> => same_as' \in Names
      /\ depth' \in 0 .. MaxNesting + 1
    BY <1>1, <1>2, ConfigurationAssumption DEF ReadHeads
<1>4. section \in Sections \cup {NULL}
    BY SectionTyped
<1>5. outputs' \in [Names -> OutputStates \cup {NULL}]
    <2>1. CASE Skips(section)
        BY <2>1 DEF head_prepare_enable
    <2>2. CASE ~Skips(section)
        <3>1. outputs' = [outputs EXCEPT ![name] = AddHead(output, Head(heads))]
            BY <2>2 DEF head_prepare_enable
        <3>2. name \in Names => AddHead(output, Head(heads)) \in OutputStates
            <4>1. ASSUME name \in Names PROVE output \in OutputStates
                BY <1>4, <4>1 DEF ensured, OutputStates
            <4> QED
                BY <4>1, <1>2, AddHeadTyped
        <3> QED
            BY <3>1, <3>2
    <2> QED
        BY <2>1, <2>2
<1>6. stage = "heads"
    BY <1>1 DEF ReadingHeads
<1> QED
    BY <1>1, <1>3, <1>5, <1>6

LEMMA ConfigureTyped ==
    ASSUME TypeInv, NEW n \in Names, ConfigureOutput(n)
    PROVE  MainTyped'
<1> USE DEF TypeInv, MainTyped
<1>1. /\ UNCHANGED <<stage, input, config, backend, api, heads, same_as, depth>>
      /\ stage = "outputs" /\ outputs[n] \in OutputStates
    BY DEF ConfigureOutput, ToConfigure
<1>2. outputs' \in [Names -> OutputStates \cup {NULL}]
    <2>1. CASE UNCHANGED outputs
        BY <2>1
    <2>2. ASSUME NEW ok \in BOOLEAN,
                 outputs' = [outputs EXCEPT ![n] =
                      [@ EXCEPT !.add = <<>>, !.enabled = ok,
                                !.settings = configure_output(outputs[n].config)]]
          PROVE  outputs' \in [Names -> OutputStates \cup {NULL}]
        <3>1. configure_output(outputs[n].config) \in Settings \cup {NULL}
            BY <1>1, SettingsTyped DEF OutputStates
        <3>2. <<>> \in Seq(Names)
            OBVIOUS
        <3>3. \A output \in OutputStates : \A add \in Seq(Names) :
              \A settings \in Settings \cup {NULL} :
                 [output EXCEPT !.add = add, !.enabled = ok, !.settings = settings] \in OutputStates
            BY DEF OutputStates
        <3>4. [outputs[n] EXCEPT !.add = <<>>, !.enabled = ok,
                                !.settings = configure_output(outputs[n].config)] \in OutputStates
            BY <1>1, <3>1, <3>2, <3>3
        <3> QED
            BY <2>2, <3>4
    <2> QED
        BY <2>1, <2>2 DEF ConfigureOutput
<1> QED
    BY <1>1, <1>2

LEMMA MainTypedStep == TypeInv /\ [Next]_vars => MainTyped'
<1> SUFFICES ASSUME TypeInv, [Next]_vars PROVE MainTyped'
    OBVIOUS
<1> USE DEF TypeInv
<1>1. CASE Parse
    BY <1>1 DEF Parse, configVars, MainTyped, NothingYet
<1>2. CASE LoadConfig
    <2>1. UNCHANGED <<input, api, heads, same_as, depth, outputs>> /\ stage = "options"
        BY <1>2 DEF LoadConfig, Parsed
    <2> QED
        BY <1>2, <2>1, ConfigLoads DEF MainTyped, NothingYet
<1>3. CASE HelpOrVersion \/ ConfigFails \/ HeadsDone \/ Run \/ UNCHANGED vars
    <2>1. /\ UNCHANGED <<input, config, backend, api, heads, same_as, depth, outputs>>
          /\ \/ UNCHANGED stage
             \/ stage' \in {"exited", "outputs", "running"}
        BY <1>3 DEF HelpOrVersion, ConfigFails, HeadsDone, Run, Exit, vars, configVars
    <2> QED
        BY <2>1 DEF MainTyped, NothingYet
<1>4. CASE LoadBackend
    BY <1>4, LoadTyped
<1>5. CASE FollowSameAs
    BY <1>5, FollowTyped
<1>6. CASE head_prepare_enable
    BY <1>6, PrepareTyped
<1>7. ASSUME NEW n \in Names, ConfigureOutput(n) PROVE MainTyped'
    BY <1>7, ConfigureTyped
<1> QED
    BY <1>1, <1>2, <1>3, <1>4, <1>5, <1>6, <1>7 DEF Next

LEMMA TypeInvHolds == Spec => []TypeInv
<1>1. Init => TypeInv
    BY ParserInit, ReadWellInit, MainTypedInit DEF TypeInv
<1>2. TypeInv /\ [Next]_vars => TypeInv'
    BY ParserStep, ReadWellStep, MainTypedStep DEF TypeInv
<1> QED
    BY <1>1, <1>2, PTL DEF Spec

\* The indices of the parser, what it makes of a value, the names that sections
\* and defaults give to heads, and what is configured from them are all of their
\* types (option-parser.c:164-202, main.c:164-309, 419-488, 606-655).
THEOREM TypeOKHolds == Spec => []TypeOK
<1>1. TypeInv => TypeOK
    <2> SUFFICES ASSUME TypeInv PROVE TypeOK
        OBVIOUS
    <2>1. ParseTypeOK
        BY DEF ParseTypeOK, TypeInv, ReadWell, ParserInv, Indices, Cells
    <2> QED
        BY <2>1 DEF TypeOK, TypeInv, MainTyped, ReadWell
<1> QED
    BY <1>1, TypeInvHolds, PTL

-----------------------------------------------------------------------------
(* Heads follow their same-as.                                               *)

SectionOf(n) == SectionNamed(config.outputs, n)

\* The first names on the way from a name, one same-as after the other.
Trail(p, l, name) ==
    /\ l \in Nat \ {0} /\ p \in [1 .. l -> Names] /\ p[1] = name
    /\ \A k \in 1 .. l - 1 : SectionOf(p[k]) # NULL /\ SectionOf(p[k]).same_as = p[k + 1]

\* All of them, when they end at a section.
WholeTrail(p, l, name) ==
    /\ Trail(p, l, name) /\ l <= MaxNesting + 1
    /\ SectionOf(p[l]) # NULL /\ SectionOf(p[l]).same_as = NULL

LEMMA LenIs ==
    ASSUME NEW S, NEW l \in Nat, NEW p \in [1 .. l -> S]
    PROVE  Len(p) = l /\ DOMAIN p = 1 .. l
<1>1. p \in Seq(S)
    OBVIOUS
<1>2. Len(p) \in Nat /\ 1 .. Len(p) = 1 .. l
    BY <1>1
<1>3. Len(p) >= l
    <2> SUFFICES ASSUME Len(p) < l PROVE FALSE
        BY <1>2
    <2> QED
        BY <1>2, l \in 1 .. l, l \notin 1 .. Len(p)
<1>4. Len(p) <= l
    <2> SUFFICES ASSUME Len(p) > l PROVE FALSE
        BY <1>2
    <2> QED
        BY <1>2, Len(p) \in 1 .. Len(p), Len(p) \notin 1 .. l
<1> QED
    BY <1>2, <1>3, <1>4

LEMMA ControllingIs ==
    ASSUME NEW name, NEW section
    PROVE  section \in Controlling(name) <=>
              \E l \in Nat, p \in UNION {[1 .. m -> Names] : m \in Nat} :
                  WholeTrail(p, l, name) /\ section = SectionOf(p[l])
<1> DEFINE Paths == UNION {[1 .. l -> Names] : l \in 1 .. MaxNesting + 1}
           Path(p) == /\ p[1] = name
                      /\ \A k \in DOMAIN p : SectionOf(p[k]) # NULL
                      /\ \A k \in DOMAIN p \ {Len(p)} : SectionOf(p[k]).same_as = p[k + 1]
                      /\ SectionOf(p[Len(p)]).same_as = NULL
<1>1. Controlling(name) = {SectionOf(p[Len(p)]) : p \in {q \in Paths : Path(q)}}
    BY DEF Controlling, SectionOf
<1>2. ASSUME NEW l \in 1 .. MaxNesting + 1, NEW p \in [1 .. l -> Names]
      PROVE  Len(p) = l /\ DOMAIN p = 1 .. l
    BY LenIs, ConfigurationAssumption
<1>3. ASSUME NEW l \in 1 .. MaxNesting + 1, NEW p \in [1 .. l -> Names]
      PROVE  Path(p) <=> WholeTrail(p, l, name)
    <2>1. Len(p) = l /\ DOMAIN p = 1 .. l /\ l \in Nat \ {0} /\ l <= MaxNesting + 1
        BY <1>2, ConfigurationAssumption
    <2>2. (1 .. l) \ {l} = 1 .. l - 1
        BY <2>1
    <2>3. 1 .. l = 1 .. l - 1 \cup {l}
        BY <2>1
    <2> QED
        BY <2>1, <2>2, <2>3 DEF WholeTrail, Trail
<1>4. ASSUME NEW l \in Nat, NEW p, WholeTrail(p, l, name)
      PROVE  l \in 1 .. MaxNesting + 1 /\ p \in [1 .. l -> Names]
    BY <1>4, ConfigurationAssumption DEF WholeTrail, Trail
<1> HIDE DEF Path
<1>5. ASSUME section \in Controlling(name)
      PROVE  \E l \in Nat, p \in UNION {[1 .. m -> Names] : m \in Nat} :
                 WholeTrail(p, l, name) /\ section = SectionOf(p[l])
    <2>1. PICK p \in Paths : Path(p) /\ section = SectionOf(p[Len(p)])
        BY <1>1, <1>5
    <2>2. PICK l \in 1 .. MaxNesting + 1 : p \in [1 .. l -> Names]
        OBVIOUS
    <2>3. WholeTrail(p, l, name) /\ Len(p) = l
        BY <1>2, <1>3, <2>1, <2>2
    <2>4. l \in Nat
        BY ConfigurationAssumption
    <2> QED
        BY <2>1, <2>2, <2>3, <2>4
<1>6. ASSUME NEW l \in Nat, NEW p, WholeTrail(p, l, name), section = SectionOf(p[l])
      PROVE  section \in Controlling(name)
    <2>1. l \in 1 .. MaxNesting + 1 /\ p \in [1 .. l -> Names]
        BY <1>4, <1>6
    <2>2. Path(p) /\ Len(p) = l /\ p \in Paths
        BY <1>2, <1>3, <1>6, <2>1
    <2> QED
        BY <1>1, <1>6, <2>2
<1> QED
    BY <1>5, <1>6

\* There is one way from a name: what there is of it is the beginning of all of it.
LEMMA OneWay ==
    ASSUME NEW name, NEW p, NEW l, Trail(p, l, name), NEW q, NEW m, WholeTrail(q, m, name)
    PROVE  l <= m /\ \A k \in 1 .. l : q[k] = p[k]
<1> DEFINE differs == {k \in 1 .. l : k > m \/ q[k] # p[k]}
<1>1. SUFFICES ASSUME differs # {} PROVE FALSE
    BY DEF Trail, WholeTrail
<1>2. PICK d \in differs : \A k \in differs : d <= k
    <2>1. differs \in SUBSET Nat
        BY DEF Trail
    <2> QED
        BY <1>1, <2>1, Least
<1>3. l \in Nat \ {0} /\ m \in Nat \ {0} /\ d \in 1 .. l /\ d > 1
    BY DEF Trail, WholeTrail
<1>4. d - 1 \in 1 .. l - 1 /\ d - 1 \notin differs
    BY <1>2, <1>3
<1>5. d - 1 <= m /\ q[d - 1] = p[d - 1]
    BY <1>3, <1>4
<1>6. SectionOf(p[d - 1]).same_as = p[d] /\ p[d] \in Names
    BY <1>3, <1>4 DEF Trail
<1>7. d - 1 # m
    BY <1>5, <1>6, ConfigurationAssumption DEF WholeTrail
<1>8. d - 1 \in 1 .. m - 1
    BY <1>3, <1>4, <1>5, <1>7
<1>9. SectionOf(q[d - 1]).same_as = q[d]
    BY <1>3, <1>8 DEF WholeTrail, Trail
<1>10. d <= m /\ q[d] = p[d]
    BY <1>3, <1>5, <1>6, <1>8, <1>9
<1> QED
    BY <1>3, <1>10

\* A way that ends at a section controls the name, and no other does.
LEMMA EndControls ==
    ASSUME NEW name, NEW p, NEW l, WholeTrail(p, l, name)
    PROVE  Controlling(name) = {SectionOf(p[l])}
<1>1. l \in Nat /\ p \in UNION {[1 .. m -> Names] : m \in Nat}
    BY DEF WholeTrail, Trail
<1>2. SectionOf(p[l]) \in Controlling(name)
    BY <1>1, ControllingIs
<1>3. ASSUME NEW section \in Controlling(name) PROVE section = SectionOf(p[l])
    <2>1. PICK m, q : m \in Nat /\ WholeTrail(q, m, name) /\ section = SectionOf(q[m])
        BY ControllingIs
    <2>2. Trail(p, l, name) /\ Trail(q, m, name)
        BY <2>1 DEF WholeTrail
    <2>3. l <= m /\ m <= l /\ \A k \in 1 .. l : q[k] = p[k]
        BY <2>1, <2>2, OneWay
    <2>4. l = m /\ l \in 1 .. l
        BY <2>2, <2>3 DEF Trail
    <2> QED
        BY <2>1, <2>3, <2>4
<1> QED
    BY <1>2, <1>3

\* A way that is too long, or ends where there is no section, has no end.
LEMMA DeadEnd ==
    ASSUME NEW name, NEW p, NEW l, Trail(p, l, name), l > MaxNesting + 1 \/ SectionOf(p[l]) = NULL
    PROVE  Controlling(name) = {}
<1> SUFFICES ASSUME NEW section \in Controlling(name) PROVE FALSE
    OBVIOUS
<1>1. PICK m, q : m \in Nat /\ WholeTrail(q, m, name)
    BY ControllingIs
<1>2. l <= m /\ q[l] = p[l]
    <2>1. l <= m /\ \A k \in 1 .. l : q[k] = p[k]
        BY <1>1, OneWay
    <2> QED
        BY <2>1 DEF Trail
<1>3. m <= MaxNesting + 1 /\ l \in Nat \ {0}
    BY <1>1 DEF WholeTrail, Trail
<1>4. l = m \/ l \in 1 .. m - 1
    BY <1>1, <1>2, <1>3
<1>5. SectionOf(q[l]) # NULL
    BY <1>1, <1>4 DEF WholeTrail, Trail
<1> QED
    BY <1>1, <1>2, <1>3, <1>5, ConfigurationAssumption

LEMMA OneName ==
    ASSUME NEW name \in Names
    PROVE  \E p \in UNION {[1 .. l -> Names] : l \in Nat} : Trail(p, 1, name) /\ p[1] = name
<1> DEFINE p == [k \in 1 .. 1 |-> name]
<1>1. p \in [1 .. 1 -> Names] /\ p[1] = name
    OBVIOUS
<1>2. Trail(p, 1, name)
    BY <1>1 DEF Trail
<1>3. p \in UNION {[1 .. l -> Names] : l \in Nat}
    BY <1>1
<1> QED
    BY <1>1, <1>2, <1>3

\* A section without same-as controls its own name.
LEMMA ControlsItself ==
    ASSUME NEW name \in Names, SectionOf(name) # NULL, SectionOf(name).same_as = NULL
    PROVE  Controlling(name) = {SectionOf(name)}
<1>1. PICK p : Trail(p, 1, name) /\ p[1] = name
    BY OneName
<1>2. WholeTrail(p, 1, name)
    BY <1>1, ConfigurationAssumption DEF WholeTrail
<1> QED
    BY <1>1, <1>2, EndControls

-----------------------------------------------------------------------------
\* While a head is looked up, same_as is where the trail from its name has got
\* to, after as many steps as depth says.
OnTheWay ==
    ReadingHeads =>
        \E p \in UNION {[1 .. l -> Names] : l \in Nat} :
            Trail(p, depth + 1, Head(heads)) /\ p[depth + 1] = same_as

\* Without a section it is the output of a head that has none; with one, it is
\* the one of that section, at which a trail may end.
RightOutput(n) ==
    outputs[n] # NULL =>
        IF outputs[n].config = NULL THEN Controlling(n) = {}
        ELSE outputs[n].config = SectionOf(n) /\ SectionOf(n).same_as = NULL

HasHead(output, head) == \E k \in DOMAIN output.add : output.add[k] = head

FollowsTo(n, head) ==
    outputs[n] # NULL /\ HasHead(outputs[n], head) =>
        IF outputs[n].config = NULL THEN Controlling(head) = {} /\ head = n
        ELSE Controlling(head) = {outputs[n].config} /\ outputs[n].config.name = n

FollowInv ==
    /\ OnTheWay
    /\ \A n \in Names : RightOutput(n) /\ \A head \in Names : FollowsTo(n, head)

LEMMA FollowInit == Init => FollowInv
BY DEF Init, FollowInv, OnTheWay, ReadingHeads, RightOutput, FollowsTo

\* The trail of the next head begins with its name.
LEMMA NextHead ==
    ASSUME NEW names \in Seq(Names), ReadHeads(names), config' = config
    PROVE  OnTheWay'
<1> SUFFICES ASSUME names # <<>> PROVE OnTheWay'
    BY DEF ReadHeads, OnTheWay, ReadingHeads
<1>1. Head(names) \in Names
    OBVIOUS
<1>2. PICK p \in UNION {[1 .. l -> Names] : l \in Nat} :
          Trail(p, 1, Head(names)) /\ p[1] = Head(names)
    BY <1>1, OneName
<1>3. heads' = names /\ same_as' = Head(names) /\ depth' + 1 = 1
    BY DEF ReadHeads
<1>4. Trail(p, 1, Head(names))'
    BY <1>2 DEF Trail, SectionOf
<1> QED
    BY <1>2, <1>3, <1>4 DEF OnTheWay

\* An output keeps its heads and its section, or gives its heads up.
LEMMA KeepsOutputs ==
    ASSUME FollowInv, config' = config,
           \A n \in Names : \/ outputs'[n] = outputs[n]
                            \/ /\ outputs[n] # NULL
                               /\ outputs'[n].config = outputs[n].config
                               /\ outputs'[n].add = <<>>
    PROVE  \A n \in Names : RightOutput(n)' /\ \A head \in Names : FollowsTo(n, head)'
<1>1. ASSUME NEW name PROVE Controlling(name)' = Controlling(name) /\ SectionOf(name)' = SectionOf(name)
    BY DEF Controlling, SectionOf
<1>2. ASSUME NEW n \in Names PROVE RightOutput(n)'
    BY <1>1 DEF RightOutput, FollowInv
<1>3. ASSUME NEW n \in Names, NEW head \in Names, outputs'[n] # NULL, HasHead(outputs'[n], head)
      PROVE  outputs'[n] = outputs[n]
    BY <1>3 DEF HasHead
<1>4. ASSUME NEW n \in Names, NEW head \in Names PROVE FollowsTo(n, head)'
    BY <1>1, <1>3 DEF FollowsTo, FollowInv
<1> QED
    BY <1>2, <1>4

LEMMA FollowFollows ==
    ASSUME TypeInv, FollowInv, FollowSameAs
    PROVE  FollowInv'
<1> DEFINE section == SectionOf(same_as)
<1>1. /\ ReadingHeads /\ section # NULL /\ section.same_as # NULL
      /\ same_as' = section.same_as /\ depth' = depth + 1
      /\ UNCHANGED <<stage, config, heads, outputs>>
    BY DEF FollowSameAs, Deeper, SectionOf
<1>2. section.same_as \in Names
    BY <1>1, SectionTyped DEF TypeInv, SectionOf, Sections
<1>3. PICK p \in UNION {[1 .. l -> Names] : l \in Nat} :
          Trail(p, depth + 1, Head(heads)) /\ p[depth + 1] = same_as
    BY <1>1 DEF FollowInv, OnTheWay
<1>4. depth \in Nat /\ p \in [1 .. depth + 1 -> Names]
    BY <1>3 DEF Trail, TypeInv, MainTyped
<1> DEFINE q == [k \in 1 .. depth + 2 |-> IF k = depth + 2 THEN section.same_as ELSE p[k]]
<1>5. q \in [1 .. depth + 2 -> Names]
    <2> SUFFICES ASSUME NEW k \in 1 .. depth + 2, k # depth + 2 PROVE p[k] \in Names
        BY <1>2
    <2>1. k \in 1 .. depth + 1
        BY <1>4
    <2> QED
        BY <1>4, <2>1
<1>6. q[1] = Head(heads) /\ q[depth + 2] = section.same_as
    BY <1>3, <1>4 DEF Trail
<1>7. ASSUME NEW k \in 1 .. depth + 1
      PROVE  SectionOf(q[k]) # NULL /\ SectionOf(q[k]).same_as = q[k + 1]
    <2>1. q[k] = p[k]
        BY <1>4
    <2>2. CASE k = depth + 1
        <3>1. q[k] = same_as /\ q[k + 1] = section.same_as
            BY <2>1, <2>2, <1>3, <1>4, <1>6
        <3> QED
            BY <3>1, <1>1
    <2>3. CASE k # depth + 1
        <3>1. k \in 1 .. (depth + 1) - 1 /\ q[k + 1] = p[k + 1]
            BY <2>3, <1>4
        <3> QED
            BY <2>1, <3>1, <1>3 DEF Trail
    <2> QED
        BY <2>2, <2>3
<1> HIDE DEF q
<1>8. Trail(q, depth + 2, Head(heads))
    BY <1>4, <1>5, <1>6, <1>7 DEF Trail
<1>9. PICK r, l, head :
          /\ r \in UNION {[1 .. x -> Names] : x \in Nat} /\ l \in Nat
          /\ Trail(r, l, head) /\ r[l] = section.same_as
          /\ l = depth + 2 /\ head = Head(heads)
    <2>1. q \in UNION {[1 .. l -> Names] : l \in Nat} /\ depth + 2 \in Nat
        BY <1>4, <1>5
    <2> QED
        BY <2>1, <1>6, <1>8
<1>10. Trail(r, l, head)'
    BY <1>1, <1>9 DEF Trail, SectionOf
<1>11. OnTheWay'
    <2>1. depth' + 1 = l /\ Head(heads') = head /\ r[l] = same_as'
        BY <1>1, <1>4, <1>9
    <2> QED
        BY <1>9, <1>10, <2>1 DEF OnTheWay
<1> QED
    BY <1>1, <1>11, KeepsOutputs DEF FollowInv

\* Where the search for a head ends: at a section that controls it and its own
\* name, or nowhere.
LEMMA SearchEnds ==
    ASSUME TypeInv, FollowInv, head_prepare_enable, NEW section,
           section = IF TooDeep THEN NULL ELSE SectionOf(same_as)
    PROVE  IF section = NULL THEN Controlling(Head(heads)) = {}
           ELSE /\ Controlling(Head(heads)) = {section}
                /\ section.name \in Names
                /\ section = SectionOf(section.name) /\ section.same_as = NULL
<1>1. ReadingHeads /\ (section # NULL => section.same_as = NULL)
    BY DEF head_prepare_enable, SectionOf
<1>2. PICK p : Trail(p, depth + 1, Head(heads)) /\ p[depth + 1] = same_as
    BY <1>1 DEF FollowInv, OnTheWay
<1>3. depth \in Nat /\ same_as \in Names
    BY <1>1 DEF TypeInv, MainTyped, ReadingHeads
<1>4. CASE section = NULL
    <2>1. depth + 1 > MaxNesting + 1 \/ SectionOf(p[depth + 1]) = NULL
        BY <1>2, <1>3, <1>4, ConfigurationAssumption DEF TooDeep
    <2> QED
        BY <1>2, <1>4, <2>1, DeadEnd
<1>5. CASE section # NULL
    <2>1. section = SectionOf(same_as) /\ section.same_as = NULL /\ ~TooDeep
        BY <1>1, <1>5
    <2>2. WholeTrail(p, depth + 1, Head(heads))
        BY <1>2, <1>3, <1>5, <2>1, ConfigurationAssumption DEF WholeTrail, TooDeep
    <2>3. section.name = same_as
        BY <1>5, <2>1, SectionTyped DEF TypeInv, SectionOf
    <2> QED
        BY <1>2, <1>3, <1>5, <2>1, <2>2, <2>3, EndControls
<1> QED
    BY <1>4, <1>5

\* An output that was there is one that the head belongs to: it has the same
\* section, or none for a head without any.
LEMMA SameSection ==
    ASSUME TypeInv, FollowInv, head_prepare_enable, NEW section,
           section = IF TooDeep THEN NULL ELSE SectionOf(same_as),
           OutputName(section) \in Names
    PROVE  ensured(OutputName(section), section).config = section
<1> DEFINE n == OutputName(section)
<1>1. CASE outputs[n] = NULL
    BY <1>1 DEF ensured
<1>2. CASE outputs[n] # NULL
    <2>1. RightOutput(n) /\ ensured(n, section) = outputs[n]
        BY <1>2 DEF FollowInv, ensured
    <2>2. CASE section = NULL
        <3>1. Controlling(n) = {}
            BY <2>2, SearchEnds DEF OutputName
        <3>2. outputs[n].config # NULL => Controlling(n) = {SectionOf(n)}
            BY <1>2, <2>1, ControlsItself DEF RightOutput
        <3> QED
            BY <2>1, <2>2, <3>1, <3>2
    <2>3. CASE section # NULL
        <3>1. n = section.name /\ section = SectionOf(n) /\ section.same_as = NULL
            BY <2>3, SearchEnds DEF OutputName
        <3>2. Controlling(n) = {section}
            BY <2>3, <3>1, ControlsItself
        <3> QED
            BY <1>2, <2>1, <3>1, <3>2 DEF RightOutput
    <2> QED
        BY <2>2, <2>3
<1> QED
    BY <1>1, <1>2

LEMMA PrepareFollows ==
    ASSUME TypeInv, FollowInv, head_prepare_enable
    PROVE  FollowInv'
<1>1. PICK section, n, head :
          /\ section = (IF TooDeep THEN NULL ELSE SectionOf(same_as))
          /\ n = OutputName(section) /\ head = Head(heads)
    OBVIOUS
<1>2. /\ UNCHANGED <<stage, config>> /\ ReadingHeads /\ ReadHeads(Tail(heads))
      /\ outputs' = IF Skips(section) THEN outputs
                    ELSE [outputs EXCEPT ![n] = AddHead(ensured(n, section), head)]
    BY <1>1 DEF head_prepare_enable, SectionOf
<1>3. OnTheWay'
    <2>1. Tail(heads) \in Seq(Names)
        BY <1>2 DEF ReadingHeads, TypeInv, MainTyped
    <2>2. PICK names \in Seq(Names) : names = Tail(heads)
        BY <2>1
    <2> QED
        BY <1>2, <2>2, NextHead
<1>4. head \in Names
    BY <1>1, <1>2 DEF ReadingHeads, TypeInv, MainTyped
<1>5. CASE Skips(section)
    BY <1>2, <1>3, <1>5, KeepsOutputs DEF FollowInv
<1>6. CASE ~Skips(section)
    <2>1. IF section = NULL THEN Controlling(head) = {} /\ n = head
          ELSE /\ Controlling(head) = {section} /\ n = section.name
               /\ section = SectionOf(n) /\ section.same_as = NULL
        BY <1>1, SearchEnds DEF OutputName
    <2>2. n \in Names
        BY <1>1, <1>4, <2>1, SearchEnds
    <2> DEFINE old == ensured(n, section)
               new == AddHead(old, head)
    <2>3. old.config = section
        BY <1>1, <2>2, SameSection
    <2>4. old \in OutputStates
        <3>1. section \in Sections \cup {NULL}
            BY <1>1, SectionTyped DEF TypeInv, SectionOf
        <3> QED
            BY <2>2, <3>1 DEF ensured, OutputStates, TypeInv, MainTyped
    <2>5. ASSUME NEW k \in DOMAIN old.add
          PROVE  IF section = NULL THEN Controlling(old.add[k]) = {} /\ old.add[k] = n
                 ELSE Controlling(old.add[k]) = {section}
        <3>1. old = outputs[n] /\ outputs[n] # NULL
            BY <2>5 DEF ensured
        <3>2. old.add[k] \in Names
            BY <2>4, <2>5 DEF OutputStates
        <3> QED
            BY <2>2, <2>3, <2>5, <3>1, <3>2 DEF FollowInv, FollowsTo, HasHead
    <2>6. /\ new.config = section
          /\ \A k \in DOMAIN new.add : new.add[k] = head \/ \E l \in DOMAIN old.add : new.add[k] = old.add[l]
        <3>1. CASE Len(old.add) >= AddLength
            BY <2>3, <3>1 DEF AddHead
        <3>2. CASE ~(Len(old.add) >= AddLength)
            <4>1. new = [old EXCEPT !.add = Append(old.add, head)]
                BY <3>2 DEF AddHead
            <4>2. old.add \in Seq(Names)
                BY <2>4 DEF OutputStates
            <4>3. new.add = Append(old.add, head) /\ new.config = old.config
                BY <2>4, <4>1 DEF OutputStates
            <4>4. \A k \in DOMAIN Append(old.add, head) :
                      \/ Append(old.add, head)[k] = head
                      \/ k \in DOMAIN old.add /\ Append(old.add, head)[k] = old.add[k]
                BY <4>2, <1>4
            <4> QED
                BY <2>3, <4>3, <4>4
        <3> QED
            BY <3>1, <3>2
    <2> HIDE DEF old, new
    <2>7. PICK added : added = new
        OBVIOUS
    <2>8. outputs' = [outputs EXCEPT ![n] = added] /\ added \in OutputStates
        BY <1>2, <1>4, <1>6, <2>4, <2>7, AddHeadTyped DEF old, new
    <2>9. /\ added.config = section
          /\ \A k \in DOMAIN added.add :
                IF section = NULL THEN Controlling(added.add[k]) = {} /\ added.add[k] = n
                ELSE Controlling(added.add[k]) = {section}
        BY <2>1, <2>5, <2>6, <2>7
    <2>10. outputs'[n] = added /\ \A m \in Names \ {n} : outputs'[m] = outputs[m]
        BY <2>2, <2>8 DEF TypeInv, MainTyped
    <2>11. ASSUME NEW name
           PROVE  Controlling(name)' = Controlling(name) /\ SectionOf(name)' = SectionOf(name)
        BY <1>2 DEF Controlling, SectionOf
    <2>12. ASSUME NEW m \in Names PROVE RightOutput(m)'
        <3>1. CASE m = n
            BY <2>1, <2>9, <2>10, <2>11, <3>1 DEF RightOutput
        <3>2. CASE m # n
            BY <2>10, <2>11, <3>2 DEF RightOutput, FollowInv
        <3> QED
            BY <3>1, <3>2
    <2>13. ASSUME NEW m \in Names, NEW h \in Names PROVE FollowsTo(m, h)'
        <3>1. CASE m = n
            BY <2>1, <2>9, <2>10, <2>11, <3>1 DEF FollowsTo, HasHead
        <3>2. CASE m # n
            BY <2>10, <2>11, <3>2 DEF FollowsTo, FollowInv
        <3> QED
            BY <3>1, <3>2
    <2> QED
        BY <1>3, <2>12, <2>13 DEF FollowInv
<1> QED
    BY <1>5, <1>6

LEMMA ConfigureFollows ==
    ASSUME TypeInv, FollowInv, NEW n \in Names, ConfigureOutput(n)
    PROVE  FollowInv'
<1>1. /\ UNCHANGED <<stage, config, heads, same_as, depth>>
      /\ outputs[n] # NULL /\ outputs[n] \in OutputStates
    BY DEF ConfigureOutput, ToConfigure, TypeInv, MainTyped
<1>2. OnTheWay'
    BY <1>1 DEF ConfigureOutput, FollowInv, OnTheWay, ReadingHeads
<1>3. \/ outputs' = outputs
      \/ \E ok \in BOOLEAN : outputs' = [outputs EXCEPT ![n] =
            [outputs[n] EXCEPT !.add = <<>>, !.enabled = ok,
                               !.settings = configure_output(outputs[n].config)]]
    BY DEF ConfigureOutput
<1>4. \A m \in Names : \/ outputs'[m] = outputs[m]
                       \/ /\ outputs[m] # NULL
                          /\ outputs'[m].config = outputs[m].config
                          /\ outputs'[m].add = <<>>
    <2>1. CASE outputs' = outputs
        BY <2>1
    <2>2. ASSUME NEW ok \in BOOLEAN, NEW output,
                 output = [outputs[n] EXCEPT !.add = <<>>, !.enabled = ok,
                               !.settings = configure_output(outputs[n].config)],
                 outputs' = [outputs EXCEPT ![n] = output]
          PROVE  \A m \in Names : outputs'[m] = outputs[m] \/ (m = n /\ outputs'[m] = output
                    /\ output.config = outputs[n].config /\ output.add = <<>>)
        <3>1. output.config = outputs[n].config /\ output.add = <<>>
            BY <1>1, <2>2 DEF OutputStates
        <3> QED
            BY <2>2, <3>1 DEF TypeInv, MainTyped
    <2> QED
        BY <1>1, <1>3, <2>1, <2>2
<1> QED
    BY <1>1, <1>2, <1>4, KeepsOutputs DEF FollowInv

LEMMA FollowStep == TypeInv /\ FollowInv /\ [Next]_vars => FollowInv'
<1> SUFFICES ASSUME TypeInv, FollowInv, [Next]_vars PROVE FollowInv'
    OBVIOUS
<1>1. CASE FollowSameAs
    BY <1>1, FollowFollows
<1>2. CASE head_prepare_enable
    BY <1>2, PrepareFollows
<1>3. ASSUME NEW n \in Names, ConfigureOutput(n) PROVE FollowInv'
    BY <1>3, ConfigureFollows
<1>4. CASE LoadConfig
    <2>1. outputs' = [n \in Names |-> NULL] /\ heads' = <<>>
        BY <1>4 DEF LoadConfig, Parsed, TypeInv, MainTyped, NothingYet
    <2>2. \A n \in Names : RightOutput(n)' /\ \A head \in Names : FollowsTo(n, head)'
        BY <2>1 DEF RightOutput, FollowsTo
    <2> QED
        BY <2>1, <2>2 DEF FollowInv, OnTheWay, ReadingHeads
<1>5. CASE LoadBackend
    <2>1. outputs' = [n \in Names |-> NULL] /\ config' = config
        BY <1>5 DEF LoadBackend, Parsed, TypeInv, MainTyped, NothingYet
    <2>2. \A n \in Names : RightOutput(n)' /\ \A head \in Names : FollowsTo(n, head)'
        BY <2>1 DEF RightOutput, FollowsTo
    <2>3. OnTheWay'
        <3>1. CASE stage' = "exited"
            BY <3>1 DEF OnTheWay, ReadingHeads
        <3>2. CASE stage' # "exited"
            <4>1. \E names \in Seq(Names) : ReadHeads(names)
                <5>1. heads' \in Seq(Names)
                    BY <1>5, LoadTyped DEF MainTyped
                <5>2. \E names : ReadHeads(names)
                    BY <1>5, <3>2 DEF LoadBackend, Exit, load_drm_backend,
                        load_wayland_backend, load_x11_backend
                <5> QED
                    BY <5>1, <5>2 DEF ReadHeads
            <4> QED
                BY <2>1, <4>1, NextHead
        <3> QED
            BY <3>1, <3>2
    <2> QED
        BY <2>2, <2>3 DEF FollowInv
<1>6. CASE Parse \/ HelpOrVersion \/ ConfigFails \/ HeadsDone \/ Run \/ UNCHANGED vars
    <2>1. /\ UNCHANGED <<config, heads, same_as, depth, outputs>>
          /\ UNCHANGED stage \/ stage' \in {"exited", "outputs", "running"}
        BY <1>6 DEF Parse, HelpOrVersion, ConfigFails, HeadsDone, Run, Exit, vars, configVars
    <2>2. OnTheWay'
        <3>1. CASE UNCHANGED stage
            BY <2>1, <3>1 DEF FollowInv, OnTheWay, ReadingHeads, Trail, SectionOf
        <3>2. CASE stage' \in {"exited", "outputs", "running"}
            BY <3>2 DEF OnTheWay, ReadingHeads
        <3> QED
            BY <2>1, <3>1, <3>2
    <2> QED
        BY <2>1, <2>2, KeepsOutputs DEF FollowInv
<1> QED
    BY <1>1, <1>2, <1>3, <1>4, <1>5, <1>6 DEF Next

\* For any file and however its same-as lead: a head is put on the output of the
\* one section they lead to, or on one of its own when they lead nowhere or too
\* far, and all the heads of an output agree on its configuration, which only the
\* first of them sets (main.c:419-488).
THEOREM HeadsFollowSameAsHolds == Spec => []HeadsFollowSameAs
<1>1. TypeInv /\ FollowInv => HeadsFollowSameAs
    <2> SUFFICES ASSUME TypeInv, FollowInv, NEW n \in Names, outputs[n] # NULL,
                        NEW k \in DOMAIN outputs[n].add
                 PROVE  LET head == outputs[n].add[k]
                            ends == Controlling(head)
                        IN  IF outputs[n].config = NULL THEN ends = {} /\ head = n
                            ELSE ends = {outputs[n].config} /\ outputs[n].config.name = n
        BY DEF HeadsFollowSameAs
    <2>1. outputs[n].add[k] \in Names
        BY DEF TypeInv, MainTyped, OutputStates
    <2>2. FollowsTo(n, outputs[n].add[k]) /\ HasHead(outputs[n], outputs[n].add[k])
        BY <2>1 DEF FollowInv, HasHead
    <2> QED
        BY <2>2 DEF FollowsTo
<1> QED
    BY <1>1, FollowInit, FollowStep, TypeInvHolds, PTL DEF Spec

-----------------------------------------------------------------------------
(* What the passes over the command line have read.                          *)

\* Where the words of the current call stood in the command line.
Selects(f) ==
    /\ f \in [1 .. argc - 1 -> DOMAIN input.line]
    /\ \A k \in 1 .. argc - 1 : given[k] = input.line[f[k]]
    /\ \A k, l \in 1 .. argc - 1 : k < l => f[k] < f[l]

OriginGrows == \A k, l \in 1 .. j - 1 : k < l => origin[k] < origin[l]

BetweenPasses == tables = <<>> => i = 1 /\ j = 1 /\ origin = <<>>

\* Which call it is.
Passes ==
    \/ stage = "options" /\ backend = NULL /\ tables = <<CoreOptions>>
    \/ stage \in {"options", "exited"} /\ backend = NULL /\ tables = <<>>
    \/ /\ stage = "backend" /\ backend \in Backends
       /\ tables \in {BackendOptions(backend), Tail(BackendOptions(backend)), <<>>}
    \/ stage \notin {"options", "backend"} /\ backend \in Backends /\ tables = <<>>

Present(line, o) == \E k \in DOMAIN line : Takes(line, k, {o})

WordsInv ==
    /\ \E f \in [1 .. argc - 1 -> DOMAIN input.line] : Selects(f)
    /\ OriginGrows /\ BetweenPasses /\ Passes
    /\ \A o \in Options : val[o] # NULL => Present(input.line, o)

LEMMA LineTyped ==
    ASSUME TypeInv
    PROVE  /\ input.line \in Seq(Words) /\ Len(input.line) \in Nat
           /\ DOMAIN input.line = 1 .. Len(input.line)
           /\ argc \in Nat /\ i \in 1 .. argc /\ j \in 1 .. i
           /\ origin \in Seq(Nat) /\ Len(origin) = j - 1 /\ argv \in Seq(Cells)
           /\ argc <= Len(argv)
<1>1. input.line \in Seq(Words)
    BY ConfigurationAssumption DEF TypeInv, MainTyped
<1> QED
    BY <1>1 DEF TypeInv, ParserInv, Indices, CompactsInPlace

LEMMA WordsInit == Init => WordsInv
<1> SUFFICES ASSUME Init PROVE WordsInv
    OBVIOUS
<1>1. input.line \in Seq(Words)
    BY ConfigurationAssumption DEF Init
<1>2. /\ given = Append(input.line, NULL) /\ argc = Len(given)
      /\ i = 1 /\ j = 1 /\ origin = <<>> /\ val = [o \in Options |-> NULL]
      /\ tables = <<CoreOptions>> /\ stage = "options" /\ backend = NULL
    BY DEF Init, ParseInit
<1>3. argc - 1 = Len(input.line) /\ \A k \in 1 .. Len(input.line) : given[k] = input.line[k]
    BY <1>1, <1>2
<1> DEFINE f == [k \in 1 .. argc - 1 |-> k]
<1>4. Selects(f)
    BY <1>1, <1>3 DEF Selects
<1>5. f \in [1 .. argc - 1 -> DOMAIN input.line]
    BY <1>4 DEF Selects
<1> HIDE DEF f
<1> QED
    BY <1>2, <1>4, <1>5 DEF WordsInv, OriginGrows, BetweenPasses, Passes

\* The word that is read stands in the line.
LEMMA WordInLine ==
    ASSUME TypeInv, NEW f, Selects(f), i < argc
    PROVE  /\ i \in 1 .. argc - 1 /\ f[i] \in DOMAIN input.line
           /\ argv[i] = input.line[f[i]] /\ argv[i] \in Words
           /\ i + 1 < argc => /\ f[i + 1] \in DOMAIN input.line /\ f[i] < f[i + 1]
                              /\ argv[i + 1] = input.line[f[i + 1]] /\ argv[i + 1] \in Words
<1>1. i \in 1 .. argc - 1 /\ (i + 1 < argc => i + 1 \in 1 .. argc - 1)
    BY LineTyped
<1>2. argv[i] = given[i] /\ (i + 1 < argc => argv[i + 1] = given[i + 1])
    BY <1>1, LineTyped DEF TypeInv, ParserInv, CompactsInPlace
<1>3. argv[i] \in Words /\ (i + 1 < argc => argv[i + 1] \in Words)
    BY <1>1 DEF TypeInv, ReadWell
<1> QED
    BY <1>1, <1>2, <1>3 DEF Selects

\* The words of the next call are those that were kept.
LEMMA NextSelects ==
    ASSUME TypeInv, OriginGrows, NEW f, Selects(f), ParseEnd, input' = input
    PROVE  \E g \in [1 .. j - 1 -> DOMAIN input.line] :
               Selects(g)' /\ \A k \in 1 .. j - 1 : g[k] = f[origin[k]]
<1>1. /\ argv' = [argv EXCEPT ![j] = NULL] /\ argc' = j /\ given' = argv'
    BY DEF ParseEnd, Shorten
<1>2. /\ argc \in Nat /\ i \in 1 .. argc /\ j \in 1 .. i /\ argv \in Seq(Cells)
      /\ argc <= Len(argv) /\ Len(input.line) \in Nat /\ DOMAIN input.line = 1 .. Len(input.line)
    BY LineTyped
<1>3. ASSUME NEW k \in 1 .. j - 1
      PROVE  /\ origin[k] \in 1 .. argc - 1
             /\ given'[k] = input.line[f[origin[k]]]
    <2>1. origin[k] \in 1 .. i - 1 /\ argv[k] = given[origin[k]]
        BY DEF TypeInv, ParserInv, CompactsInPlace
    <2>2. given'[k] = argv[k] /\ origin[k] \in 1 .. argc - 1
        BY <1>1, <1>2, <2>1
    <2> QED
        BY <2>1, <2>2 DEF Selects
<1> DEFINE h == [k \in 1 .. j - 1 |-> f[origin[k]]]
<1>4. h \in [1 .. j - 1 -> DOMAIN input.line]
    BY <1>3 DEF Selects
<1>5. PICK g \in [1 .. j - 1 -> DOMAIN input.line] : g = h
    BY <1>4
<1>6. \A k \in 1 .. j - 1 : g[k] = f[origin[k]]
    BY <1>5
<1>7. ASSUME NEW k \in 1 .. j - 1, NEW l \in 1 .. j - 1, k < l PROVE g[k] < g[l]
    <2>1. origin[k] < origin[l]
        BY <1>7 DEF OriginGrows
    <2> QED
        BY <2>1, <1>3, <1>6 DEF Selects
<1>8. Selects(g)'
    BY <1>1, <1>3, <1>6, <1>7 DEF Selects
<1> QED
    BY <1>6, <1>8

LEMMA OriginKeeps ==
    ASSUME TypeInv, OriginGrows,
           \/ UNCHANGED <<j, origin>>
           \/ j' = j + 1 /\ origin' = Append(origin, i)
    PROVE  OriginGrows'
<1>1. CASE UNCHANGED <<j, origin>>
    BY <1>1 DEF OriginGrows
<1>2. CASE j' = j + 1 /\ origin' = Append(origin, i)
    <2>1. /\ origin \in Seq(Nat) /\ Len(origin) = j - 1 /\ i \in Nat /\ j \in Nat \ {0}
        BY LineTyped
    <2>2. \A k \in 1 .. j - 1 : origin[k] \in Nat /\ origin[k] < i
        BY <2>1 DEF TypeInv, ParserInv, CompactsInPlace
    <2>3. \A k \in 1 .. Len(origin) + 1 :
              origin'[k] = IF k = Len(origin) + 1 THEN i ELSE origin[k]
        BY <2>1, <1>2
    <2>4. ASSUME NEW k \in 1 .. j' - 1, NEW l \in 1 .. j' - 1, k < l
          PROVE  origin'[k] < origin'[l]
        <3>1. k \in 1 .. j - 1 /\ (l = j \/ l \in 1 .. j - 1)
            BY <1>2, <2>1, <2>4
        <3>2. origin'[k] = origin[k] /\ origin'[l] = IF l = j THEN i ELSE origin[l]
            BY <2>1, <2>3, <3>1
        <3> QED
            BY <2>2, <2>4, <3>1, <3>2 DEF OriginGrows
    <2> QED
        BY <2>4 DEF OriginGrows
<1> QED
    BY <1>1, <1>2

\* The calls of each backend, one after the other.
LEMMA BackendPasses ==
    /\ BackendOptions("drm") = <<DrmOptions>> /\ Tail(<<DrmOptions>>) = <<>>
    /\ BackendOptions("wayland") = <<WindowedOptions, WaylandOptions>>
    /\ Tail(<<WindowedOptions, WaylandOptions>>) = <<WaylandOptions>>
    /\ Tail(<<WaylandOptions>>) = <<>>
    /\ BackendOptions("x11") = <<WindowedOptions, X11Options>>
    /\ Tail(<<WindowedOptions, X11Options>>) = <<X11Options>> /\ Tail(<<X11Options>>) = <<>>
    /\ Tail(<<CoreOptions>>) = <<>>
<1>1. \A a, b : Tail(<<a>>) = <<>> /\ Tail(<<a, b>>) = <<b>>
    OBVIOUS
<1>2. /\ BackendOptions("drm") = <<DrmOptions>>
      /\ BackendOptions("wayland") = <<WindowedOptions, WaylandOptions>>
      /\ BackendOptions("x11") = <<WindowedOptions, X11Options>>
    BY DEF BackendOptions
<1> QED
    BY <1>1, <1>2

LEMMA PassesStep == TypeInv /\ Passes /\ [Next]_vars => Passes'
<1> SUFFICES ASSUME TypeInv, Passes, [Next]_vars PROVE Passes'
    OBVIOUS
<1>1. CASE ParseEnd /\ UNCHANGED configVars
    <2>1. tables # <<>> /\ tables' = Tail(tables) /\ UNCHANGED <<stage, backend>>
        BY <1>1 DEF ParseEnd, configVars
    <2>2. CASE tables = <<CoreOptions>>
        BY <2>1, <2>2, BackendPasses DEF Passes
    <2>3. CASE stage = "backend" /\ backend \in Backends
        <3>1. tables \in {BackendOptions(backend), Tail(BackendOptions(backend))}
            BY <2>1, <2>3 DEF Passes
        <3>2. tables' \in {Tail(BackendOptions(backend)), <<>>}
            BY <2>1, <2>3, <3>1, BackendPasses DEF Backends
        <3> QED
            BY <2>1, <2>3, <3>2 DEF Passes
    <2> QED
        BY <2>1, <2>2, <2>3 DEF Passes
<1>2. CASE LoadConfig
    BY <1>2, ConfigLoads DEF LoadConfig, Parsed, Passes, TypeInv
<1>3. CASE UNCHANGED <<stage, backend, tables>>
    BY <1>3 DEF Passes
<1>4. CASE ParseWord /\ UNCHANGED configVars
    BY <1>3, <1>4 DEF ParseWord, configVars
<1>5. CASE HelpOrVersion \/ ConfigFails
    BY <1>5 DEF HelpOrVersion, ConfigFails, Parsed, Exit, Passes, parseVars
<1>6. CASE LoadBackend
    <2>1. stage = "backend" /\ tables = <<>> /\ UNCHANGED <<tables, backend>>
          /\ stage' \in {"exited", "heads"}
        BY <1>6 DEF LoadBackend, Parsed, Exit, parseVars
    <2> QED
        BY <2>1 DEF Passes
<1>7. CASE HeadsDone \/ Run
    BY <1>7 DEF HeadsDone, Run, parseVars, Passes
<1>8. CASE FollowSameAs \/ head_prepare_enable \/ (\E n \in Names : ConfigureOutput(n))
           \/ UNCHANGED vars
    BY <1>3, <1>8 DEF FollowSameAs, head_prepare_enable, ConfigureOutput, parseVars, vars, configVars
<1> QED
    BY <1>1, <1>2, <1>4, <1>5, <1>6, <1>7, <1>8 DEF Next, Parse, ParseNext

LEMMA WordsKeep ==
    ASSUME WordsInv, Passes', UNCHANGED <<input, argc, given, j, i, val, origin>>,
           tables' = tables \/ tables = <<>>
    PROVE  WordsInv'
<1>1. PICK f \in [1 .. argc - 1 -> DOMAIN input.line] : Selects(f)
    BY DEF WordsInv
<1>2. Selects(f)'
    BY <1>1 DEF Selects
<1>3. f \in [1 .. argc' - 1 -> DOMAIN input'.line]
    BY <1>1
<1> QED
    BY <1>2, <1>3 DEF WordsInv, OriginGrows, BetweenPasses, Present

\* The options of the table that a word is read with.
LEMMA WordRead ==
    ASSUME TypeInv, WordsInv, ParseWord, UNCHANGED configVars, Passes'
    PROVE  WordsInv'
<1>1. PICK f \in [1 .. argc - 1 -> DOMAIN input.line] : Selects(f)
    BY DEF WordsInv
<1>2. /\ Reading /\ i < argc /\ tables # <<>>
      /\ UNCHANGED <<tables, argc, given, input>>
    BY DEF ParseWord, configVars, Reading
<1>3. f[i] \in DOMAIN input.line /\ argv[i] = input.line[f[i]] /\ argv[i] \in Words
    BY <1>1, <1>2, WordInLine
<1>4. Selects(f)' /\ f \in [1 .. argc' - 1 -> DOMAIN input'.line]
    BY <1>1, <1>2 DEF Selects
<1>5. OriginGrows'
    <2>1. UNCHANGED <<j, origin>> \/ (j' = j + 1 /\ origin' = Append(origin, i))
        BY DEF ParseWord, Use, UseNext, Keep
    <2> QED
        BY <2>1, OriginKeeps DEF WordsInv
<1>6. ASSUME NEW o \in Options, val'[o] # NULL PROVE Present(input.line, o)
    <2>1. CASE val'[o] # val[o]
        <3>1. IsNamed(argv[i]) /\ \E value : val' = [val EXCEPT ![argv[i].name] = value]
            BY <2>1 DEF ParseWord, Use, UseNext, Keep, Complete, long_option, short_option,
                TakesNext, Store
        <3>2. argv[i].name = o
            BY <2>1, <3>1 DEF TypeInv, ReadWell
        <3>3. o # NULL
            BY WordsAssumption
        <3>4. Takes(input.line, f[i], {o})
            BY <1>3, <3>1, <3>2, <3>3 DEF IsNamed, Takes, NamesOption
        <3> QED
            BY <1>3, <3>4 DEF Present
    <2>2. CASE val'[o] = val[o]
        BY <1>6, <2>2 DEF WordsInv
    <2> QED
        BY <2>1, <2>2
<1> QED
    BY <1>2, <1>4, <1>5, <1>6 DEF WordsInv, BetweenPasses

LEMMA WordsStep == TypeInv /\ WordsInv /\ [Next]_vars => WordsInv'
<1> SUFFICES ASSUME TypeInv, WordsInv, [Next]_vars PROVE WordsInv'
    OBVIOUS
<1>0. Passes'
    BY PassesStep DEF WordsInv
<1>1. CASE ParseWord /\ UNCHANGED configVars
    BY <1>0, <1>1, WordRead
<1>2. CASE ParseEnd /\ UNCHANGED configVars
    <2>1. input' = input /\ val' = val /\ argc' = j /\ i' = 1 /\ j' = 1 /\ origin' = <<>>
        BY <1>2 DEF ParseEnd, Shorten, configVars
    <2>2. PICK f \in [1 .. argc - 1 -> DOMAIN input.line] : Selects(f)
        BY DEF WordsInv
    <2>3. PICK g \in [1 .. j - 1 -> DOMAIN input.line] : Selects(g)'
        BY <1>2, <2>1, <2>2, NextSelects DEF WordsInv
    <2>4. OriginGrows'
        BY <2>1 DEF OriginGrows
    <2> QED
        BY <1>0, <2>1, <2>3, <2>4 DEF WordsInv, BetweenPasses
<1>3. CASE LoadConfig
    <2>1. UNCHANGED <<input, argc, given, j, i, val, origin>> /\ tables = <<>>
        BY <1>3 DEF LoadConfig, Parsed
    <2> QED
        BY <1>0, <2>1, WordsKeep
<1>4. CASE UNCHANGED <<input, argc, given, j, i, val, origin, tables>>
    BY <1>0, <1>4, WordsKeep
<1>5. CASE \/ HelpOrVersion \/ ConfigFails \/ LoadBackend \/ FollowSameAs \/ head_prepare_enable
           \/ HeadsDone \/ (\E n \in Names : ConfigureOutput(n)) \/ Run \/ UNCHANGED vars
    BY <1>4, <1>5 DEF HelpOrVersion, ConfigFails, LoadBackend, FollowSameAs, head_prepare_enable,
        HeadsDone, ConfigureOutput, Run, parseVars, configVars, vars
<1> QED
    BY <1>1, <1>2, <1>3, <1>5 DEF Next, Parse, ParseNext

-----------------------------------------------------------------------------
(* One pass over a plain line: which of its words it goes over, how far it    *)
(* is, which of them it kept and what the values are.  It is about any line   *)
(* and any table, of which done are the options of the passes before.         *)

NumberAt(line, k) == IF OneWord(line[k]) THEN line[k].number ELSE line[k + 1].number

NotValue(line, k, options) ==
    k > 1 => ~(Takes(line, k - 1, options) /\ ~OneWord(line[k - 1]))

\* Where an option is named in a line, before some place.
Named(line, o, bound) == {k \in DOMAIN line : k < bound /\ Takes(line, k, {o})}

\* A value is the last one before some place.
LastRead(line, o, bound, value) ==
    IF Named(line, o, bound) = {} THEN value = NULL
    ELSE \E k \in Named(line, o, bound) :
            /\ \A l \in Named(line, o, bound) : l <= k
            /\ value = [word |-> line[k], number |-> NumberAt(line, k)]

\* How much of the line has been read.
Bound(line, f, n, at) == IF at < n THEN f[at] ELSE Len(line) + 1

Grows(line, f, n) ==
    f \in [1 .. n - 1 -> DOMAIN line] /\ \A k, l \in 1 .. n - 1 : k < l => f[k] < f[l]

\* The words that a pass goes over are those that are left by the ones before.
GoesOver(line, f, n, done) ==
    Grows(line, f, n) /\ LeftOver(line, done) = {f[k] : k \in 1 .. n - 1}

ReadSoFar(line, f, n, at, done, current, values) ==
    \A o \in Options :
        LastRead(line, o, IF o \in done THEN Len(line) + 1
                          ELSE IF o \in current THEN Bound(line, f, n, at) ELSE 1, values[o])

KeptBefore(line, f, at, options) == {k \in 1 .. at - 1 : f[k] \in LeftOver(line, options)}

IsKept(line, f, at, options, kept) == kept = KeptBefore(line, f, at, options)

Pass(line, f, n, at, kept, done, current, values) ==
    /\ GoesOver(line, f, n, done)
    /\ at < n => NotValue(line, f[at], current)
    /\ kept = KeptBefore(line, f, at, done \cup current)
    /\ ReadSoFar(line, f, n, at, done, current, values)

\* The options of a later pass are left by the earlier ones.
LEMMA TakesIsLeft ==
    ASSUME NEW line \in Seq(Words), Plain(line), NEW done, NEW options,
           done \cap options = {}, NEW k \in DOMAIN line, Takes(line, k, options)
    PROVE  k \in LeftOver(line, done)
<1>1. ~Takes(line, k, done)
    BY DEF Takes
<1>2. ASSUME k > 1, Takes(line, k - 1, done), ~OneWord(line[k - 1]) PROVE FALSE
    <2>1. k - 1 \in DOMAIN line /\ (k - 1) + 1 = k
        BY <1>2
    <2>2. TwoWords(line, k - 1)
        BY <1>2, <2>1 DEF Plain, Takes
    <2>3. line[k].dashes = 0
        BY <2>1, <2>2 DEF TwoWords
    <2>4. line[k].dashes > 0
        BY DEF Takes, NamesOption
    <2> QED
        BY <2>3, <2>4
<1> QED
    BY <1>1, <1>2 DEF LeftOver

\* What a pass has not got to yet it has not read.
LEMMA ReadBefore ==
    ASSUME NEW line \in Seq(Words), Plain(line), NEW done, NEW current, done \cap current = {},
           NEW n \in Nat \ {0}, NEW f, GoesOver(line, f, n, done),
           NEW at \in 1 .. n,
           NEW x \in DOMAIN line, Takes(line, x, current), x < Bound(line, f, n, at)
    PROVE  \E m \in 1 .. at - 1 : x = f[m]
<1>1. x \in LeftOver(line, done)
    BY TakesIsLeft
<1>2. PICK m \in 1 .. n - 1 : x = f[m]
    BY <1>1 DEF GoesOver
<1>3. CASE at < n
    <2>1. f[m] < f[at] /\ at \in 1 .. n - 1
        BY <1>2, <1>3 DEF Bound
    <2>2. ~(at < m) /\ at # m
        BY <2>1 DEF GoesOver, Grows
    <2> QED
        BY <1>2, <2>2
<1>4. CASE ~(at < n)
    BY <1>2, <1>4
<1> QED
    BY <1>3, <1>4

LEMMA NamedTakes ==
    ASSUME NEW line, NEW o, NEW options, o \in options, NEW bound, NEW k \in Named(line, o, bound)
    PROVE  k \in DOMAIN line /\ k < bound /\ Takes(line, k, options) /\ line[k].name = o
BY DEF Named, Takes

\* The options of the passes that are over are read to the end, no other is.
ReadOver(line, done, values) ==
    \A o \in Options : IF o \in done THEN LastRead(line, o, Len(line) + 1, values[o])
                       ELSE values[o] = NULL

\* A pass begins with nothing read or kept.
LEMMA PassBegins ==
    ASSUME NEW line \in Seq(Words), Plain(line), NEW done, NEW current, done \cap current = {},
           NEW n \in Nat \ {0}, NEW f, GoesOver(line, f, n, done), NEW values,
           ReadOver(line, done, values)
    PROVE  Pass(line, f, n, 1, {}, done, current, values)
<1>0. 1 \in 1 .. n /\ 1 .. 1 - 1 = {}
    OBVIOUS
<1>1. ASSUME 1 < n PROVE NotValue(line, f[1], current)
    <2> SUFFICES ASSUME f[1] > 1, Takes(line, f[1] - 1, current) PROVE FALSE
        BY DEF NotValue
    <2>1. f[1] \in DOMAIN line /\ Bound(line, f, n, 1) = f[1]
        BY <1>1 DEF GoesOver, Grows, Bound
    <2>2. f[1] - 1 \in DOMAIN line /\ f[1] - 1 < f[1]
        BY <2>1
    <2>3. \E m \in 1 .. 1 - 1 : f[1] - 1 = f[m]
        BY <1>0, <2>1, <2>2, ReadBefore
    <2> QED
        BY <1>0, <2>3
<1>2. ASSUME NEW o \in Options, o \notin done
      PROVE  LastRead(line, o, IF o \in current THEN Bound(line, f, n, 1) ELSE 1, values[o])
    <2>1. values[o] = NULL
        BY <1>2 DEF ReadOver
    <2>2. Named(line, o, 1) = {}
        BY DEF Named
    <2>3. ASSUME o \in current, NEW k \in Named(line, o, Bound(line, f, n, 1)) PROVE FALSE
        <3>1. k \in DOMAIN line /\ k < Bound(line, f, n, 1) /\ Takes(line, k, current)
            BY <2>3, NamedTakes
        <3>2. \E m \in 1 .. 1 - 1 : k = f[m]
            BY <1>0, <3>1, ReadBefore
        <3> QED
            BY <1>0, <3>2
    <2> QED
        BY <2>1, <2>2, <2>3 DEF LastRead
<1>3. ReadSoFar(line, f, n, 1, done, current, values)
    BY <1>2 DEF ReadSoFar, ReadOver
<1>4. KeptBefore(line, f, 1, done \cup current) = {}
    BY <1>0 DEF KeptBefore
<1> QED
    BY <1>1, <1>3, <1>4 DEF Pass

\* From one word to a later one, without any option in between.
LEMMA NothingBetween ==
    ASSUME NEW line \in Seq(Words), Plain(line), NEW done, NEW current, done \cap current = {},
           NEW n \in Nat \ {0}, NEW f, GoesOver(line, f, n, done),
           NEW at \in 1 .. n - 1, NEW next \in at + 1 .. n,
           \A m \in at + 1 .. next - 1 : ~Takes(line, f[m], current)
    PROVE  /\ \A x \in DOMAIN line :
                 x < Bound(line, f, n, next) /\ Takes(line, x, current) => x = f[at] \/ x < f[at]
           /\ f[at] < Bound(line, f, n, next)
           /\ next < n => NotValue(line, f[next], current)
                          \/ (next = at + 1 /\ Takes(line, f[at], current) /\ ~OneWord(line[f[at]]))
<1>1. ASSUME NEW x \in DOMAIN line, x < Bound(line, f, n, next), Takes(line, x, current)
      PROVE  x = f[at] \/ x < f[at]
    <2>1. next \in 1 .. n
        OBVIOUS
    <2>2. PICK m \in 1 .. next - 1 : x = f[m]
        BY <1>1, <2>1, ReadBefore
    <2>3. m \notin at + 1 .. next - 1
        BY <1>1, <2>2
    <2>4. m = at \/ m < at
        BY <2>3
    <2> QED
        BY <2>2, <2>4 DEF GoesOver, Grows
<1>2. f[at] < Bound(line, f, n, next)
    <2>1. f[at] \in 1 .. Len(line)
        BY DEF GoesOver, Grows
    <2>2. next < n => f[at] < f[next]
        BY DEF GoesOver, Grows
    <2> QED
        BY <2>1, <2>2 DEF Bound
<1>3. ASSUME next < n, ~NotValue(line, f[next], current)
      PROVE  next = at + 1 /\ Takes(line, f[at], current) /\ ~OneWord(line[f[at]])
    <2> DEFINE x == f[next] - 1
    <2>1. f[next] > 1 /\ Takes(line, x, current) /\ ~OneWord(line[x])
        BY <1>3 DEF NotValue
    <2>2. f[next] \in DOMAIN line /\ f[at] \in DOMAIN line /\ f[at] < f[next]
        BY <1>3 DEF GoesOver, Grows
    <2>3. x \in DOMAIN line /\ x < Bound(line, f, n, next)
        BY <1>3, <2>1, <2>2 DEF Bound
    <2>4. x = f[at] \/ x < f[at]
        BY <1>1, <2>1, <2>3
    <2>5. x = f[at]
        BY <2>2, <2>4
    <2>6. ~(at + 1 < next)
        <3> SUFFICES ASSUME at + 1 < next PROVE FALSE
            OBVIOUS
        <3>1. f[at] < f[at + 1] /\ f[at + 1] < f[next] /\ f[at + 1] \in DOMAIN line
            BY <1>3 DEF GoesOver, Grows
        <3> QED
            BY <2>2, <2>5, <3>1
    <2> QED
        BY <2>1, <2>5, <2>6
<1> QED
    BY <1>1, <1>2, <1>3

\* What a word of the pass is left for: neither an option of its table, nor the
\* value of one.
LEMMA LeftAfter ==
    ASSUME NEW line, NEW done, NEW current, NEW k \in LeftOver(line, done)
    PROVE  k \in LeftOver(line, done \cup current) <=>
              ~Takes(line, k, current) /\ NotValue(line, k, current)
<1>1. \A l : Takes(line, l, done \cup current) <=> Takes(line, l, done) \/ Takes(line, l, current)
    BY DEF Takes
<1> QED
    BY <1>1 DEF LeftOver, NotValue

\* Values from one word to a later one, of which only the first may name an
\* option of the table.
LEMMA ReadOn ==
    ASSUME NEW line \in Seq(Words), Plain(line), NEW done, NEW current, done \cap current = {},
           NEW n \in Nat \ {0}, NEW f, GoesOver(line, f, n, done),
           NEW at \in 1 .. n - 1, NEW next \in at + 1 .. n,
           \A m \in at + 1 .. next - 1 : ~Takes(line, f[m], current),
           NEW old, NEW new, ReadSoFar(line, f, n, at, done, current, old),
           IF Takes(line, f[at], current)
           THEN new = [old EXCEPT ![line[f[at]].name] =
                          [word |-> line[f[at]], number |-> NumberAt(line, f[at])]]
           ELSE new = old,
           DOMAIN old = Options
    PROVE  ReadSoFar(line, f, n, next, done, current, new)
<1> DEFINE p == f[at]
<1>0. p \in DOMAIN line /\ p \in Int /\ Bound(line, f, n, at) = p
    BY DEF GoesOver, Grows, Bound
<1>1. /\ \A x \in DOMAIN line :
            x < Bound(line, f, n, next) /\ Takes(line, x, current) => x = p \/ x < p
      /\ p < Bound(line, f, n, next)
    BY NothingBetween
<1>2. Bound(line, f, n, next) \in Int
    BY DEF Bound, GoesOver, Grows
<1> SUFFICES ASSUME NEW o \in Options
             PROVE  LastRead(line, o, IF o \in done THEN Len(line) + 1
                             ELSE IF o \in current THEN Bound(line, f, n, next) ELSE 1, new[o])
    BY DEF ReadSoFar
<1>3. LastRead(line, o, IF o \in done THEN Len(line) + 1
                        ELSE IF o \in current THEN p ELSE 1, old[o])
    BY <1>0 DEF ReadSoFar
<1>4. CASE o \in current /\ Takes(line, p, {o})
    <2>1. Takes(line, p, current) /\ line[p].name = o
        BY <1>4 DEF Takes
    <2>2. new[o] = [word |-> line[p], number |-> NumberAt(line, p)]
        BY <2>1
    <2>3. p \in Named(line, o, Bound(line, f, n, next))
        BY <1>0, <1>1, <1>4 DEF Named
    <2>4. \A l \in Named(line, o, Bound(line, f, n, next)) : l <= p
        <3> SUFFICES ASSUME NEW l \in Named(line, o, Bound(line, f, n, next)) PROVE l <= p
            OBVIOUS
        <3>1. l \in DOMAIN line /\ l < Bound(line, f, n, next) /\ Takes(line, l, current)
            BY <1>4, NamedTakes
        <3> QED
            BY <1>0, <1>1, <3>1
    <2>5. LastRead(line, o, Bound(line, f, n, next), new[o])
        BY <2>2, <2>3, <2>4 DEF LastRead
    <2> QED
        BY <1>4, <2>5
<1>5. CASE o \in current /\ ~Takes(line, p, {o})
    <2>1. new[o] = old[o]
        BY <1>5 DEF Takes
    <2>2. \A k : k \in Named(line, o, Bound(line, f, n, next)) <=> k \in Named(line, o, p)
        <3>1. ASSUME NEW k \in Named(line, o, Bound(line, f, n, next)) PROVE k \in Named(line, o, p)
            <4>1. k \in DOMAIN line /\ k < Bound(line, f, n, next) /\ Takes(line, k, current)
                BY <1>5, NamedTakes
            <4>2. k # p /\ Takes(line, k, {o})
                BY <1>5 DEF Named
            <4> QED
                BY <1>1, <4>1, <4>2 DEF Named
        <3>2. ASSUME NEW k \in Named(line, o, p) PROVE k \in Named(line, o, Bound(line, f, n, next))
            BY <1>0, <1>1, <1>2 DEF Named
        <3> QED
            BY <3>1, <3>2
    <2>3. Named(line, o, Bound(line, f, n, next)) = Named(line, o, p)
        BY <2>2
    <2>4. LastRead(line, o, Bound(line, f, n, next), new[o])
        BY <1>3, <1>5, <2>1, <2>3 DEF LastRead
    <2> QED
        BY <1>5, <2>4
<1>6. CASE o \notin current
    <2>1. new[o] = old[o]
        BY <1>6 DEF Takes
    <2> QED
        BY <1>3, <1>6, <2>1
<1> QED
    BY <1>4, <1>5, <1>6

\* The words kept up to the next one: this one, if it is left after the pass.
LEMMA PassHere ==
    ASSUME NEW line, NEW done, NEW current, NEW n \in Nat \ {0}, NEW f, NEW kept, NEW old,
           NEW at \in 1 .. n - 1, Pass(line, f, n, at, kept, done, current, old),
           NEW next, next = at + 1
    PROVE  /\ GoesOver(line, f, n, done) /\ NotValue(line, f[at], current)
           /\ ReadSoFar(line, f, n, at, done, current, old)
           /\ f[at] \in LeftOver(line, done) /\ f[at] \in DOMAIN line
           /\ Takes(line, f[at], current) => IsKept(line, f, next, done \cup current, kept)
           /\ ~Takes(line, f[at], current) =>
                 IsKept(line, f, next, done \cup current, kept \cup {at})
<1> DEFINE p == f[at]
           left == LeftOver(line, done \cup current)
<1>1. /\ GoesOver(line, f, n, done) /\ NotValue(line, p, current)
      /\ kept = KeptBefore(line, f, at, done \cup current)
      /\ ReadSoFar(line, f, n, at, done, current, old)
    BY DEF Pass
<1>2. p \in LeftOver(line, done) /\ p \in DOMAIN line
    BY <1>1 DEF GoesOver, Grows
<1>3. p \in left <=> ~Takes(line, p, current)
    BY <1>1, <1>2, LeftAfter
<1>4. KeptBefore(line, f, at + 1, done \cup current) = IF p \in left THEN kept \cup {at} ELSE kept
    BY <1>1 DEF KeptBefore
<1> QED
    BY <1>1, <1>2, <1>3, <1>4 DEF IsKept

LEMMA PassLeaves ==
    ASSUME NEW line \in Seq(Words), Plain(line), NEW done, NEW current, done \cap current = {},
           NEW n \in Nat \ {0}, NEW f, NEW kept, NEW old, DOMAIN old = Options,
           NEW at \in 1 .. n - 1, Pass(line, f, n, at, kept, done, current, old),
           ~Takes(line, f[at], current)
    PROVE  Pass(line, f, n, at + 1, kept \cup {at}, done, current, old)
<1>1. /\ GoesOver(line, f, n, done) /\ ReadSoFar(line, f, n, at, done, current, old)
      /\ IsKept(line, f, at + 1, done \cup current, kept \cup {at})
    BY PassHere
<1>2. at + 1 \in at + 1 .. n /\ at + 1 .. (at + 1) - 1 = {}
    OBVIOUS
<1>3. ReadSoFar(line, f, n, at + 1, done, current, old)
    BY <1>1, <1>2, ReadOn
<1>4. at + 1 < n => NotValue(line, f[at + 1], current)
    BY <1>1, <1>2, NothingBetween
<1> QED
    BY <1>1, <1>3, <1>4 DEF Pass, IsKept

LEMMA PassTakesOne ==
    ASSUME NEW line \in Seq(Words), Plain(line), NEW done, NEW current, done \cap current = {},
           NEW n \in Nat \ {0}, NEW f, NEW kept, NEW old, DOMAIN old = Options,
           NEW at \in 1 .. n - 1, Pass(line, f, n, at, kept, done, current, old),
           NEW w, w = line[f[at]], Takes(line, f[at], current), OneWord(w),
           NEW new, new = [old EXCEPT ![w.name] = [word |-> w, number |-> w.number]]
    PROVE  Pass(line, f, n, at + 1, kept, done, current, new)
<1>1. /\ GoesOver(line, f, n, done) /\ ReadSoFar(line, f, n, at, done, current, old)
      /\ IsKept(line, f, at + 1, done \cup current, kept)
    BY PassHere
<1>2. at + 1 \in at + 1 .. n /\ at + 1 .. (at + 1) - 1 = {}
    OBVIOUS
<1>3. NumberAt(line, f[at]) = w.number
    BY DEF NumberAt
<1>4. ReadSoFar(line, f, n, at + 1, done, current, new)
    BY <1>1, <1>2, <1>3, ReadOn
<1>5. at + 1 < n => NotValue(line, f[at + 1], current)
    BY <1>1, <1>2, NothingBetween
<1> QED
    BY <1>1, <1>4, <1>5 DEF Pass, IsKept

ValueFollows(line, f, n, at) == at + 1 < n /\ f[at + 1] = f[at] + 1

\* The value of an option is the next word of the pass, and is not kept.
LEMMA ValueNext ==
    ASSUME NEW line \in Seq(Words), Plain(line), NEW done, NEW current, done \cap current = {},
           NEW n \in Nat \ {0}, NEW f, NEW kept, NEW old,
           NEW at \in 1 .. n - 1, Pass(line, f, n, at, kept, done, current, old),
           Takes(line, f[at], current), ~OneWord(line[f[at]])
    PROVE  /\ ValueFollows(line, f, n, at)
           /\ ~Takes(line, f[at + 1], current)
           /\ f[at + 1] \notin LeftOver(line, done \cup current)
<1> DEFINE p == f[at]
<1>0. GoesOver(line, f, n, done) /\ p \in LeftOver(line, done) /\ p \in DOMAIN line
    BY PassHere
<1>2. TwoWords(line, p)
    BY <1>0 DEF Plain, Takes
<1>3. p + 1 \in DOMAIN line /\ line[p + 1].dashes = 0 /\ p \in Nat
    BY <1>0, <1>2 DEF TwoWords
<1>4. \A options : ~Takes(line, p + 1, options)
    BY <1>3 DEF Takes, NamesOption
<1>5. p + 1 \in LeftOver(line, done)
    <2>1. ~Takes(line, p, done)
        BY <1>0 DEF Takes
    <2>2. (p + 1) - 1 = p
        BY <1>3
    <2> QED
        BY <1>3, <1>4, <2>1, <2>2 DEF LeftOver
<1>6. at + 1 < n /\ f[at + 1] = p + 1
    <2>1. PICK m \in 1 .. n - 1 : f[m] = p + 1
        BY <1>0, <1>5 DEF GoesOver
    <2>2. at < m
        <3>1. f[m] > p /\ (m < at => f[m] < f[at])
            BY <1>0, <1>3, <2>1 DEF GoesOver, Grows
        <3>2. f[m] # f[at] /\ ~(f[m] < f[at])
            BY <1>3, <2>1, <3>1
        <3> QED
            BY <3>1, <3>2
    <2>3. ~(at + 1 < m)
        <3> SUFFICES ASSUME at + 1 < m PROVE FALSE
            OBVIOUS
        <3>1. p < f[at + 1] /\ f[at + 1] < f[m] /\ f[at + 1] \in DOMAIN line
            BY <1>0, <2>1 DEF GoesOver, Grows
        <3> QED
            BY <1>3, <2>1, <3>1
    <2> QED
        BY <2>1, <2>2, <2>3
<1>10. p + 1 \notin LeftOver(line, done \cup current)
    <2>1. (p + 1) - 1 = p /\ p + 1 > 1
        BY <1>0, <1>3
    <2>2. ~NotValue(line, p + 1, current)
        BY <2>1 DEF NotValue
    <2> QED
        BY <1>5, <2>2, LeftAfter
<1> QED
    BY <1>3, <1>4, <1>6, <1>10 DEF ValueFollows

LEMMA NotAfter ==
    ASSUME NEW line \in Seq(Words), Plain(line), NEW done, NEW current, done \cap current = {},
           NEW n \in Nat \ {0}, NEW f, GoesOver(line, f, n, done),
           NEW at \in 1 .. n - 1, NEW next \in at + 1 .. n, next # at + 1, next < n,
           \A m \in at + 1 .. next - 1 : ~Takes(line, f[m], current)
    PROVE  NotValue(line, f[next], current)
BY NothingBetween

LEMMA PassTakesTwo ==
    ASSUME NEW line \in Seq(Words), Plain(line), NEW done, NEW current, done \cap current = {},
           NEW n \in Nat \ {0}, NEW f, NEW kept, NEW old, DOMAIN old = Options,
           NEW at \in 1 .. n - 1, Pass(line, f, n, at, kept, done, current, old),
           NEW w, w = line[f[at]], Takes(line, f[at], current), ~OneWord(w),
           NEW new, new = [old EXCEPT ![w.name] =
                              [word |-> w, number |-> NumberAt(line, f[at])]]
    PROVE  Pass(line, f, n, at + 2, kept, done, current, new)
<1>0. /\ GoesOver(line, f, n, done) /\ ReadSoFar(line, f, n, at, done, current, old)
      /\ IsKept(line, f, at + 1, done \cup current, kept)
    BY PassHere
<1>1. /\ at + 1 < n /\ ~Takes(line, f[at + 1], current)
      /\ f[at + 1] \notin LeftOver(line, done \cup current)
    BY ValueNext DEF ValueFollows
<1>2. PICK next : next = at + 2
    OBVIOUS
<1>3. /\ next \in at + 1 .. n /\ next # at + 1
      /\ \A m \in at + 1 .. next - 1 : ~Takes(line, f[m], current)
    BY <1>1, <1>2
<1>4. ReadSoFar(line, f, n, next, done, current, new)
    BY <1>0, <1>3, ReadOn
<1>5. next < n => NotValue(line, f[next], current)
    BY <1>0, <1>3, NotAfter
<1>6. IsKept(line, f, next, done \cup current, kept)
    <2>1. 1 .. next - 1 = 1 .. (at + 1) - 1 \cup {at + 1}
        BY <1>2
    <2> QED
        BY <1>0, <1>1, <2>1 DEF KeptBefore, IsKept
<1> QED
    BY <1>0, <1>2, <1>4, <1>5, <1>6 DEF Pass, IsKept

ImageOf(f, S) == {f[k] : k \in S}

\* The next pass goes over what this one kept.
LEMMA PassEnds ==
    ASSUME NEW line \in Seq(Words), Plain(line), NEW done, NEW current, done \cap current = {},
           NEW next, (done \cup current) \cap next = {},
           NEW n \in Nat \ {0}, NEW f, NEW kept, NEW values,
           Pass(line, f, n, n, kept, done, current, values),
           NEW m \in Nat \ {0}, NEW g, Grows(line, g, m),
           ImageOf(g, 1 .. m - 1) = ImageOf(f, kept)
    PROVE  Pass(line, g, m, 1, {}, done \cup current, next, values)
<1>1. LeftOver(line, done \cup current) \subseteq LeftOver(line, done)
    BY DEF LeftOver, Takes
<1>2. {f[k] : k \in kept} = LeftOver(line, done \cup current)
    <2>1. kept = {k \in 1 .. n - 1 : f[k] \in LeftOver(line, done \cup current)}
        BY DEF Pass, KeptBefore
    <2>2. LeftOver(line, done) = {f[k] : k \in 1 .. n - 1}
        BY DEF Pass, GoesOver
    <2>3. ASSUME NEW x \in LeftOver(line, done \cup current) PROVE \E k \in kept : x = f[k]
        <3>1. PICK k \in 1 .. n - 1 : x = f[k]
            BY <1>1, <2>2
        <3> QED
            BY <2>1, <3>1
    <2>4. \A k \in kept : f[k] \in LeftOver(line, done \cup current)
        BY <2>1
    <2> QED
        BY <2>3, <2>4
<1>3. GoesOver(line, g, m, done \cup current)
    BY <1>2 DEF GoesOver, ImageOf
<1>4. ReadOver(line, done \cup current, values)
    <2> SUFFICES ASSUME NEW o \in Options
                 PROVE  IF o \in done \cup current THEN LastRead(line, o, Len(line) + 1, values[o])
                        ELSE values[o] = NULL
        BY DEF ReadOver
    <2>1. LastRead(line, o, IF o \in done THEN Len(line) + 1
                            ELSE IF o \in current THEN Len(line) + 1 ELSE 1, values[o])
        BY DEF Pass, ReadSoFar, Bound
    <2>2. Named(line, o, 1) = {}
        BY DEF Named
    <2> QED
        BY <2>1, <2>2 DEF LastRead
<1> QED
    BY <1>3, <1>4, PassBegins

-----------------------------------------------------------------------------
(* The passes of main and of the backends.                                   *)

DoneOf(b, left) ==
    IF b = NULL THEN IF left = <<>> THEN CoreOptions ELSE {}
    ELSE CoreOptions \cup UNION {BackendOptions(b)[k] : k \in 1 .. Len(BackendOptions(b)) - Len(left)}

\* The options of the passes that are over, and of the one there is.
Done    == DoneOf(backend, tables)
Current == IF tables = <<>> THEN {} ELSE Head(tables)

Kept == {origin[k] : k \in 1 .. j - 1}

PlainInv ==
    Plain(input.line) =>
        \E f \in [1 .. argc - 1 -> DOMAIN input.line] :
            Selects(f) /\ Pass(input.line, f, argc, i, Kept, Done, Current, val)

LEMMA DoneOne ==
    ASSUME NEW b, b # NULL, NEW a, BackendOptions(b) = <<a>>
    PROVE  DoneOf(b, <<a>>) = CoreOptions /\ DoneOf(b, <<>>) = CoreOptions \cup a
<1>1. /\ Len(<<a>>) = 1 /\ Len(<<>>) = 0 /\ <<a>>[1] = a
      /\ 1 .. 1 - 1 = {} /\ 1 .. 1 - 0 = {1}
    OBVIOUS
<1> QED
    BY <1>1 DEF DoneOf

LEMMA DoneTwo ==
    ASSUME NEW b, b # NULL, NEW a, NEW c, BackendOptions(b) = <<a, c>>
    PROVE  /\ DoneOf(b, <<a, c>>) = CoreOptions /\ DoneOf(b, <<c>>) = CoreOptions \cup a
           /\ DoneOf(b, <<>>) = CoreOptions \cup a \cup c
<1>1. /\ Len(<<a, c>>) = 2 /\ Len(<<c>>) = 1 /\ Len(<<>>) = 0
      /\ <<a, c>>[1] = a /\ <<a, c>>[2] = c
      /\ 1 .. 2 - 2 = {} /\ 1 .. 2 - 1 = {1} /\ 1 .. 2 - 0 = {1, 2}
    OBVIOUS
<1> QED
    BY <1>1 DEF DoneOf

LEMMA DoneCore == DoneOf(NULL, <<CoreOptions>>) = {} /\ DoneOf(NULL, <<>>) = CoreOptions
<1>1. <<CoreOptions>> # <<>>
    OBVIOUS
<1> QED
    BY <1>1 DEF DoneOf

LEMMA TablesDisjoint ==
    /\ CoreOptions \cap (WindowedOptions \cup WaylandOptions \cup X11Options \cup DrmOptions) = {}
    /\ WindowedOptions \cap (WaylandOptions \cup X11Options) = {}
BY DEF CoreOptions, WindowedOptions, WaylandOptions, X11Options, DrmOptions

LEMMA DoneTable ==
    /\ DoneOf("drm", <<DrmOptions>>) = CoreOptions
    /\ DoneOf("drm", <<>>) = CoreOptions \cup DrmOptions
    /\ DoneOf("wayland", <<WindowedOptions, WaylandOptions>>) = CoreOptions
    /\ DoneOf("wayland", <<WaylandOptions>>) = CoreOptions \cup WindowedOptions
    /\ DoneOf("wayland", <<>>) = CoreOptions \cup WindowedOptions \cup WaylandOptions
    /\ DoneOf("x11", <<WindowedOptions, X11Options>>) = CoreOptions
    /\ DoneOf("x11", <<X11Options>>) = CoreOptions \cup WindowedOptions
    /\ DoneOf("x11", <<>>) = CoreOptions \cup WindowedOptions \cup X11Options
<1>1. "drm" # NULL /\ "wayland" # NULL /\ "x11" # NULL
    BY ConfigurationAssumption DEF Backends
<1> QED
    <2>1. /\ DoneOf("drm", <<DrmOptions>>) = CoreOptions
          /\ DoneOf("drm", <<>>) = CoreOptions \cup DrmOptions
        BY <1>1, BackendPasses, DoneOne
    <2>2. /\ DoneOf("wayland", <<WindowedOptions, WaylandOptions>>) = CoreOptions
          /\ DoneOf("wayland", <<WaylandOptions>>) = CoreOptions \cup WindowedOptions
          /\ DoneOf("wayland", <<>>) = CoreOptions \cup WindowedOptions \cup WaylandOptions
        BY <1>1, BackendPasses, DoneTwo
    <2>3. /\ DoneOf("x11", <<WindowedOptions, X11Options>>) = CoreOptions
          /\ DoneOf("x11", <<X11Options>>) = CoreOptions \cup WindowedOptions
          /\ DoneOf("x11", <<>>) = CoreOptions \cup WindowedOptions \cup X11Options
        BY <1>1, BackendPasses, DoneTwo
    <2> QED
        BY <2>1, <2>2, <2>3

\* Which pass it is, by its table.
LEMMA PassTable ==
    ASSUME Passes
    PROVE  \/ tables = <<>>
           \/ backend = NULL /\ tables = <<CoreOptions>>
           \/ backend = "drm" /\ tables = <<DrmOptions>>
           \/ backend = "wayland" /\ tables = <<WindowedOptions, WaylandOptions>>
           \/ backend = "wayland" /\ tables = <<WaylandOptions>>
           \/ backend = "x11" /\ tables = <<WindowedOptions, X11Options>>
           \/ backend = "x11" /\ tables = <<X11Options>>
BY BackendPasses DEF Passes, Backends

\* No option is in the tables of two passes, and each pass adds its own to those
\* that are done.
LEMMA DoneGrows ==
    ASSUME Passes
    PROVE  /\ Done \cap Current = {}
           /\ tables # <<>> =>
                 /\ DoneOf(backend, Tail(tables)) = Done \cup Current
                 /\ Tail(tables) # <<>> => (Done \cup Current) \cap Head(Tail(tables)) = {}
<1>1. \A a, c : /\ Head(<<a>>) = a /\ Head(<<a, c>>) = a /\ <<a>> # <<>> /\ <<a, c>> # <<>>
                /\ Tail(<<a>>) = <<>> /\ Tail(<<a, c>>) = <<c>>
    OBVIOUS
<1>2. CASE tables = <<>>
    BY <1>2 DEF Current
<1>3. CASE backend = NULL /\ tables = <<CoreOptions>>
    BY <1>1, <1>3, DoneCore DEF Done, Current
<1>4. CASE backend = "drm" /\ tables = <<DrmOptions>>
    BY <1>1, <1>4, DoneTable, TablesDisjoint DEF Done, Current
<1>5. CASE \/ backend = "wayland" /\ tables = <<WindowedOptions, WaylandOptions>>
           \/ backend = "wayland" /\ tables = <<WaylandOptions>>
    <2>1. CASE tables = <<WindowedOptions, WaylandOptions>>
        <3>1. /\ Current = WindowedOptions /\ tables # <<>> /\ Tail(tables) = <<WaylandOptions>>
              /\ Head(<<WaylandOptions>>) = WaylandOptions
            BY <1>1, <2>1 DEF Current
        <3>2. backend = "wayland"
            BY <1>1, <1>5, <2>1
        <3> QED
            BY <2>1, <3>1, <3>2, DoneTable, TablesDisjoint DEF Done
    <2>2. CASE tables = <<WaylandOptions>>
        <3>1. Current = WaylandOptions /\ tables # <<>> /\ Tail(tables) = <<>>
            BY <1>1, <2>2 DEF Current
        <3>2. backend = "wayland"
            BY <1>5
        <3> QED
            BY <2>2, <3>1, <3>2, DoneTable, TablesDisjoint DEF Done
    <2> QED
        BY <1>5, <2>1, <2>2
<1>6. CASE \/ backend = "x11" /\ tables = <<WindowedOptions, X11Options>>
           \/ backend = "x11" /\ tables = <<X11Options>>
    <2>1. CASE tables = <<WindowedOptions, X11Options>>
        <3>1. /\ Current = WindowedOptions /\ tables # <<>> /\ Tail(tables) = <<X11Options>>
              /\ Head(<<X11Options>>) = X11Options
            BY <1>1, <2>1 DEF Current
        <3>2. backend = "x11"
            BY <1>1, <1>6, <2>1
        <3> QED
            BY <2>1, <3>1, <3>2, DoneTable, TablesDisjoint DEF Done
    <2>2. CASE tables = <<X11Options>>
        <3>1. Current = X11Options /\ tables # <<>> /\ Tail(tables) = <<>>
            BY <1>1, <2>2 DEF Current
        <3>2. backend = "x11"
            BY <1>6
        <3> QED
            BY <2>2, <3>1, <3>2, DoneTable, TablesDisjoint DEF Done
    <2> QED
        BY <1>6, <2>1, <2>2
<1> QED
    BY <1>2, <1>3, <1>4, <1>5, <1>6, PassTable

LEMMA FirstTable ==
    ASSUME NEW b \in Backends
    PROVE  /\ BackendOptions(b) # <<>> /\ DoneOf(b, BackendOptions(b)) = CoreOptions
           /\ CoreOptions \cap Head(BackendOptions(b)) = {}
<1>1. \A a, c : Head(<<a>>) = a /\ Head(<<a, c>>) = a /\ <<a>> # <<>> /\ <<a, c>> # <<>>
    OBVIOUS
<1> QED
    BY <1>1, DoneTable, TablesDisjoint, BackendPasses DEF Backends

LEMMA PlainInit == Init => PlainInv
<1> SUFFICES ASSUME Init, Plain(input.line)
             PROVE  \E f \in [1 .. argc - 1 -> DOMAIN input.line] :
                        Selects(f) /\ Pass(input.line, f, argc, i, Kept, Done, Current, val)
    BY DEF PlainInv
<1>1. input.line \in Seq(Words)
    BY ConfigurationAssumption DEF Init
<1>2. /\ given = Append(input.line, NULL) /\ argc = Len(given)
      /\ i = 1 /\ j = 1 /\ origin = <<>> /\ val = [o \in Options |-> NULL]
      /\ tables = <<CoreOptions>> /\ backend = NULL
    BY DEF Init, ParseInit
<1>3. /\ argc - 1 = Len(input.line) /\ \A k \in 1 .. Len(input.line) : given[k] = input.line[k]
      /\ argc \in Nat \ {0} /\ DOMAIN input.line = 1 .. argc - 1
    BY <1>1, <1>2
<1> DEFINE f == [k \in 1 .. argc - 1 |-> k]
<1>4. Selects(f) /\ Grows(input.line, f, argc)
    BY <1>1, <1>3 DEF Selects, Grows
<1>5. Done = {} /\ Kept = {}
    BY <1>2, DoneCore DEF Done, Kept
<1>6. LeftOver(input.line, {}) = {f[k] : k \in 1 .. argc - 1}
    BY <1>3 DEF LeftOver, Takes
<1>7. GoesOver(input.line, f, argc, {})
    BY <1>4, <1>6 DEF GoesOver
<1>8. f \in [1 .. argc - 1 -> DOMAIN input.line]
    BY <1>4 DEF Selects
<1> HIDE DEF f
<1>9. {} \cap Current = {} /\ \A o \in Options : val[o] = NULL
    BY <1>2
<1>10. Pass(input.line, f, argc, 1, {}, {}, Current, val)
    <2>1. ReadOver(input.line, {}, val)
        BY <1>9 DEF ReadOver
    <2> QED
        BY <1>1, <1>3, <1>7, <1>9, <2>1, PassBegins
<1> QED
    BY <1>2, <1>4, <1>5, <1>8, <1>10

LEMMA NoName ==
    ASSUME NEW v \in Words, v.dashes = 0
    PROVE  v.name = NULL
BY WordsAssumption

\* Nothing of a plain line is misread: a word that names an option of the table
\* is used, with its value, and every other word is kept.
LEMMA PlainWord ==
    ASSUME TypeInv, WordsInv, PlainInv, ParseWord, UNCHANGED configVars
    PROVE  PlainInv'
<1> SUFFICES ASSUME Plain(input.line) PROVE PlainInv'
    BY DEF PlainInv, configVars
<1>1. PICK f \in [1 .. argc - 1 -> DOMAIN input.line] :
          Selects(f) /\ Pass(input.line, f, argc, i, Kept, Done, Current, val)
    BY DEF PlainInv
<1>2. PICK line : line = input.line
    OBVIOUS
<1>3. /\ Reading /\ i < argc /\ tables # <<>>
      /\ UNCHANGED <<tables, argc, given, input, backend>>
    BY DEF ParseWord, configVars, Reading
<1>4. /\ line \in Seq(Words) /\ Plain(line) /\ i \in 1 .. argc - 1 /\ argc \in Nat \ {0}
      /\ DOMAIN line = 1 .. Len(line) /\ Len(line) \in Nat
    BY <1>2, <1>3, LineTyped
<1>5. Done \cap Current = {} /\ DOMAIN val = Options
    BY DoneGrows DEF WordsInv, TypeInv, ReadWell
<1>6. /\ f[i] \in DOMAIN line /\ argv[i] = line[f[i]]
      /\ i + 1 < argc => argv[i + 1] = line[f[i + 1]] /\ argv[i + 1] \in Words
    BY <1>1, <1>2, <1>3, WordInLine
<1> DEFINE w == argv[i]
<1>7. Takes(line, f[i], Current) <=> IsNamed(w)
    <2>1. Current = Head(tables)
        BY <1>3 DEF Current
    <2>2. IsNamed(w) => w.name \in Options
        BY <1>3, NamedInTable DEF TypeInv
    <2> QED
        BY <1>6, <2>1, <2>2, WordsAssumption DEF Takes, NamesOption, IsNamed
<1>8. IsNamed(w) => (Complete(w) <=> OneWord(w))
    <2>1. w \in Words
        BY <1>3, <1>1, WordInLine
    <2>2. w.dashes \in 0 .. 2 /\ w.after \in {"end", "equals", "more"}
        BY <2>1, WordsAssumption DEF WordShapes
    <2> QED
        BY <2>2 DEF Complete, long_option, short_option, OneWord, IsNamed
<1>9. Takes(line, f[i], Current) /\ ~OneWord(w) => TwoWords(line, f[i])
    BY <1>4, <1>6 DEF Plain, Takes
<1>10. Selects(f)' /\ f \in [1 .. argc' - 1 -> DOMAIN input'.line]
    BY <1>1, <1>3 DEF Selects
<1>11. Done' = Done /\ Current' = Current
    BY <1>3 DEF Done, Current
<1>12. SUFFICES Pass(line, f, argc, i', Kept', Done, Current, val')
    BY <1>2, <1>3, <1>10, <1>11 DEF PlainInv
<1>13. Pass(line, f, argc, i, Kept, Done, Current, val)
    BY <1>1, <1>2
<1>14. CASE Complete(w) /\ Use(w, w.number, 1)
    <2>1. /\ i' = i + 1 /\ Kept' = Kept
          /\ val' = [val EXCEPT ![w.name] = [word |-> w, number |-> w.number]]
        BY <1>14 DEF Use, Store, Kept
    <2>2. Takes(line, f[i], Current) /\ OneWord(w)
        BY <1>7, <1>8, <1>14 DEF Complete, long_option, short_option
    <2>3. PICK new : new = val'
        OBVIOUS
    <2>4. Pass(line, f, argc, i + 1, Kept, Done, Current, new)
        BY <1>4, <1>5, <1>6, <1>13, <2>1, <2>2, <2>3, PassTakesOne
    <2> QED
        BY <2>1, <2>3, <2>4
<1>15. CASE TakesNext(w) /\ UseNext(w)
    <2>1. /\ i' = i + 2 /\ Kept' = Kept
          /\ val' = [val EXCEPT ![w.name] = [word |-> w, number |-> NumberOf(argv[i + 1])]]
        BY <1>15 DEF UseNext, Use, Store, Kept
    <2>2. Takes(line, f[i], Current) /\ ~OneWord(w)
        BY <1>7, <1>8, <1>15 DEF TakesNext
    <2>3. TwoWords(line, f[i])
        BY <1>6, <1>9, <2>2
    <2>4. i + 1 < argc /\ f[i + 1] = f[i] + 1
        <3>1. Takes(line, f[i], Current) /\ ~OneWord(line[f[i]])
            BY <1>6, <2>2
        <3>2. ValueFollows(line, f, argc, i)
            BY <1>4, <1>5, <1>13, <3>1, ValueNext
        <3> QED
            BY <3>2 DEF ValueFollows
    <2>5. NumberOf(argv[i + 1]) = NumberAt(line, f[i])
        <3>1. argv[i + 1] = line[f[i] + 1] /\ argv[i + 1] \in Words
            BY <1>6, <2>4
        <3>2. argv[i + 1].dashes = 0
            BY <2>3, <3>1 DEF TwoWords
        <3>3. argv[i + 1].name = NULL
            BY <3>1, <3>2, NoName
        <3> QED
            BY <1>6, <2>2, <3>1, <3>3 DEF NumberOf, NumberAt
    <2>6. PICK new : new = val'
        OBVIOUS
    <2>7. new = [val EXCEPT ![w.name] = [word |-> w, number |-> NumberAt(line, f[i])]]
        BY <2>1, <2>5, <2>6
    <2>8. Pass(line, f, argc, i + 2, Kept, Done, Current, new)
        BY <1>4, <1>5, <1>6, <1>13, <2>2, <2>7, PassTakesTwo
    <2> QED
        BY <2>1, <2>6, <2>8
<1>16. CASE MisreadFlag(w)
    <2>1. TwoWords(line, f[i])
        BY <1>7, <1>8, <1>9, <1>16 DEF MisreadFlag
    <2> QED
        BY <1>6, <1>16, <2>1 DEF MisreadFlag, TwoWords
<1>17. CASE ~Complete(w) /\ ~TakesNext(w) /\ ~MisreadFlag(w) /\ Keep
    <2>1. ~Takes(line, f[i], Current)
        <3> SUFFICES ASSUME Takes(line, f[i], Current) PROVE FALSE
            OBVIOUS
        <3>1. IsNamed(w) /\ ~OneWord(w) /\ TwoWords(line, f[i])
            BY <1>7, <1>8, <1>9, <1>17
        <3>3. i + 1 < argc /\ f[i + 1] = f[i] + 1
            <4>1. Takes(line, f[i], Current) /\ ~OneWord(line[f[i]])
                BY <1>6, <3>1
            <4>2. ValueFollows(line, f, argc, i)
                BY <1>4, <1>5, <1>13, <4>1, ValueNext
            <4> QED
                BY <4>2 DEF ValueFollows
        <3>4. argv[i + 1] = line[f[i] + 1] /\ argv[i + 1] \in Words
            BY <1>6, <3>3
        <3>5. argv[i + 1].dashes = 0 /\ Valid(w.name, argv[i + 1].number) /\ w.name \notin Flags
            BY <1>6, <3>1, <3>4 DEF TwoWords
        <3>6. argv[i + 1].name = NULL
            BY <3>4, <3>5, NoName
        <3> QED
            BY <1>17, <3>1, <3>3, <3>5, <3>6 DEF TakesNext, NumberOf
    <2>2. i' = i + 1 /\ j' = j + 1 /\ val' = val /\ origin' = Append(origin, i)
        BY <1>17 DEF Keep
    <2>3. Kept' = Kept \cup {i}
        <3>1. origin \in Seq(Nat) /\ Len(origin) = j - 1 /\ j \in Nat \ {0} /\ i \in Nat
            BY LineTyped
        <3>2. /\ \A k \in 1 .. j - 1 : origin'[k] = origin[k]
              /\ origin'[j] = i
            BY <2>2, <3>1
        <3>3. 1 .. j' - 1 = 1 .. j - 1 \cup {j}
            BY <2>2, <3>1
        <3> QED
            BY <3>2, <3>3 DEF Kept
    <2>4. Pass(line, f, argc, i + 1, Kept \cup {i}, Done, Current, val)
        BY <1>4, <1>5, <1>13, <2>1, PassLeaves
    <2> QED
        BY <2>2, <2>3, <2>4
<1> QED
    BY <1>14, <1>15, <1>16, <1>17 DEF ParseWord

LEMMA PlainEnd ==
    ASSUME TypeInv, WordsInv, PlainInv, ParseEnd, UNCHANGED configVars
    PROVE  PlainInv'
<1> SUFFICES ASSUME Plain(input.line) PROVE PlainInv'
    BY DEF PlainInv, configVars
<1>1. PICK f \in [1 .. argc - 1 -> DOMAIN input.line] :
          Selects(f) /\ Pass(input.line, f, argc, i, Kept, Done, Current, val)
    BY DEF PlainInv
<1>2. /\ argc' = j /\ i' = 1 /\ j' = 1 /\ origin' = <<>> /\ tables # <<>> /\ i >= argc
      /\ tables' = Tail(tables) /\ UNCHANGED <<val, input, backend>>
    BY DEF ParseEnd, Shorten, configVars
<1>3. PICK g \in [1 .. j - 1 -> DOMAIN input.line] :
          Selects(g)' /\ \A k \in 1 .. j - 1 : g[k] = f[origin[k]]
    BY <1>1, <1>2, NextSelects DEF WordsInv
<1>4. /\ argc \in Nat \ {0} /\ j \in Nat \ {0} /\ i = argc /\ input.line \in Seq(Words)
    BY <1>2, LineTyped
<1>5. /\ Done \cap Current = {} /\ Done' = Done \cup Current
      /\ (Done \cup Current) \cap Current' = {}
    BY <1>2, DoneGrows DEF WordsInv, Done, Current
<1>6. Grows(input.line, g, j)
    BY <1>2, <1>3 DEF Selects, Grows
<1>7. ImageOf(g, 1 .. j - 1) = ImageOf(f, Kept)
    BY <1>3 DEF Kept, ImageOf
<1>8. PICK next : next = Current'
    OBVIOUS
<1>9. Pass(input.line, f, argc, argc, Kept, Done, Current, val)
    BY <1>1, <1>4
<1>10. Pass(input.line, g, j, 1, {}, Done \cup Current, next, val)
    BY <1>4, <1>5, <1>6, <1>7, <1>8, <1>9, PassEnds
<1>11. Kept' = {}
    BY <1>2 DEF Kept
<1>12. Pass(input.line, g, argc, i, Kept, Done, Current, val)'
    BY <1>2, <1>5, <1>8, <1>10, <1>11
<1> QED
    BY <1>2, <1>3, <1>12 DEF PlainInv

\* Between the passes every option of those that are over is read to the end.
LEMMA ReadAtRest ==
    ASSUME NEW line \in Seq(Words), NEW f, NEW n, NEW at, NEW done, NEW current, NEW values,
           ReadSoFar(line, f, n, at, done, current, values), current = {}
    PROVE  ReadOver(line, done, values)
<1> SUFFICES ASSUME NEW o \in Options
             PROVE  IF o \in done THEN LastRead(line, o, Len(line) + 1, values[o])
                    ELSE values[o] = NULL
    BY DEF ReadOver
<1>1. LastRead(line, o, IF o \in done THEN Len(line) + 1 ELSE 1, values[o])
    BY DEF ReadSoFar
<1>2. Named(line, o, 1) = {}
    BY DEF Named
<1> QED
    BY <1>1, <1>2 DEF LastRead

LEMMA PlainLoad ==
    ASSUME TypeInv, WordsInv, PlainInv, LoadConfig
    PROVE  PlainInv'
<1> SUFFICES ASSUME Plain(input.line) PROVE PlainInv'
    BY DEF PlainInv, LoadConfig
<1>1. PICK f \in [1 .. argc - 1 -> DOMAIN input.line] :
          Selects(f) /\ Pass(input.line, f, argc, i, Kept, Done, Current, val)
    BY DEF PlainInv
<1>2. /\ tables = <<>> /\ stage = "options"
      /\ UNCHANGED <<argv, argc, i, j, val, given, origin, input>>
    BY DEF LoadConfig, Parsed
<1>3. i = 1 /\ j = 1 /\ origin = <<>> /\ backend = NULL
    BY <1>2 DEF WordsInv, BetweenPasses, Passes
<1>4. Done = CoreOptions /\ Current = {} /\ Kept = {}
    BY <1>2, <1>3, DoneCore DEF Done, Current, Kept
<1>5. PICK line : line = input.line
    OBVIOUS
<1>6. line \in Seq(Words) /\ Plain(line) /\ argc \in Nat \ {0}
    BY <1>5, LineTyped
<1>7. Pass(line, f, argc, 1, {}, CoreOptions, {}, val)
    BY <1>1, <1>3, <1>4, <1>5
<1>8. CASE ChooseBackend(config')
    <2>0. stage' = "backend" /\ tables' = BackendOptions(backend')
        BY <1>8 DEF ChooseBackend
    <2>1. backend' \in Backends
        BY <2>0, ConfigLoads DEF TypeInv
    <2>2. PICK b \in Backends : b = backend'
        BY <2>1
    <2>9. PICK next : next = Head(BackendOptions(b))
        OBVIOUS
    <2>3. Done' = CoreOptions /\ Current' = next /\ CoreOptions \cap next = {}
        BY <2>0, <2>2, <2>9, FirstTable DEF Done, Current
    <2>6. PICK values : values = val
        OBVIOUS
    <2>4. ReadOver(line, CoreOptions, values)
        <3>1. PICK none : none = {}
            OBVIOUS
        <3>2. ReadSoFar(line, f, argc, 1, CoreOptions, none, values)
            BY <1>7, <2>6, <3>1 DEF Pass
        <3> QED
            BY <1>6, <3>1, <3>2, ReadAtRest
    <2>5. GoesOver(line, f, argc, CoreOptions)
        BY <1>7 DEF Pass
    <2>7. Pass(line, f, argc, 1, {}, CoreOptions, next, values)
        BY <1>6, <2>3, <2>4, <2>5, <2>6, PassBegins
    <2>8. Selects(f)' /\ f \in [1 .. argc' - 1 -> DOMAIN input'.line] /\ Kept' = {}
        BY <1>1, <1>2, <1>4 DEF Selects, Kept
    <2> QED
        BY <1>2, <1>3, <1>5, <2>3, <2>6, <2>7, <2>8 DEF PlainInv
<1>9. CASE UnknownBackend(config')
    <2>1. UNCHANGED <<tables, backend>>
        BY <1>9 DEF UnknownBackend
    <2>2. Done' = Done /\ Current' = Current /\ Kept' = Kept
        BY <1>2, <2>1 DEF Done, Current, Kept
    <2>3. Selects(f)' /\ f \in [1 .. argc' - 1 -> DOMAIN input'.line]
        BY <1>1, <1>2 DEF Selects
    <2> QED
        BY <1>1, <1>2, <2>2, <2>3 DEF PlainInv
<1> QED
    BY <1>8, <1>9 DEF LoadConfig

LEMMA PlainKeep ==
    ASSUME PlainInv, UNCHANGED <<tables, backend, argc, i, j, val, given, origin, input>>
    PROVE  PlainInv'
<1> SUFFICES ASSUME Plain(input.line) PROVE PlainInv'
    BY DEF PlainInv
<1>1. PICK f \in [1 .. argc - 1 -> DOMAIN input.line] :
          Selects(f) /\ Pass(input.line, f, argc, i, Kept, Done, Current, val)
    BY DEF PlainInv
<1>2. Done' = Done /\ Current' = Current /\ Kept' = Kept
    BY DEF Done, Current, Kept
<1>3. Selects(f)' /\ f \in [1 .. argc' - 1 -> DOMAIN input'.line]
    BY <1>1 DEF Selects
<1> QED
    BY <1>1, <1>2, <1>3 DEF PlainInv

LEMMA PlainStep == TypeInv /\ WordsInv /\ PlainInv /\ [Next]_vars => PlainInv'
<1> SUFFICES ASSUME TypeInv, WordsInv, PlainInv, [Next]_vars PROVE PlainInv'
    OBVIOUS
<1>1. CASE Parse
    BY <1>1, PlainWord, PlainEnd DEF Parse, ParseNext
<1>2. CASE LoadConfig
    BY <1>2, PlainLoad
<1>3. CASE UNCHANGED <<tables, backend, argc, i, j, val, given, origin, input>>
    BY <1>3, PlainKeep
<1>4. CASE \/ HelpOrVersion \/ ConfigFails \/ LoadBackend \/ FollowSameAs \/ head_prepare_enable
           \/ HeadsDone \/ (\E n \in Names : ConfigureOutput(n)) \/ Run \/ UNCHANGED vars
    BY <1>3, <1>4 DEF HelpOrVersion, ConfigFails, LoadBackend, FollowSameAs, head_prepare_enable,
        HeadsDone, ConfigureOutput, Run, parseVars, configVars, vars
<1> QED
    BY <1>1, <1>2, <1>4 DEF Next

-----------------------------------------------------------------------------
(* What is left of the line, and what it says.                               *)

LEMMA CountsImage ==
    ASSUME NEW m \in Nat, NEW f, \A k, l \in 1 .. m : f[k] = f[l] => k = l,
           NEW T, T = ImageOf(f, 1 .. m)
    PROVE  Cardinality(T) = m
<1> DEFINE g == [k \in 1 .. m |-> f[k]]
<1>1. g \in [1 .. m -> T]
    BY DEF ImageOf
<1>2. \A k, l \in 1 .. m : g[k] = g[l] => k = l
    OBVIOUS
<1>3. \A t \in T : \E k \in 1 .. m : g[k] = t
    BY DEF ImageOf
<1>4. g \in Bijection(1 .. m, T)
    BY <1>1, <1>2, <1>3 DEF Bijection, Injection, IsInjective, Surjection
<1> QED
    BY <1>4, FS_CountingElements DEF ExistsBijection

UpTo(T, t) == {l \in T : l <= t}

\* In a set of places that f runs through in order, f[m] is the m-th.
LEMMA Ranked ==
    ASSUME NEW line \in Seq(Words), NEW n \in Nat \ {0}, NEW f, Grows(line, f, n),
           NEW T, T = ImageOf(f, 1 .. n - 1)
    PROVE  /\ Cardinality(T) = n - 1
           /\ \A m \in 1 .. n - 1 : Cardinality(UpTo(T, f[m])) = m
<1>1. \A k \in 1 .. n - 1 : f[k] \in Int
    BY DEF Grows
<1>2. \A k, l \in 1 .. n - 1 : f[k] = f[l] => k = l
    <2> SUFFICES ASSUME NEW k \in 1 .. n - 1, NEW l \in 1 .. n - 1, f[k] = f[l] PROVE k = l
        OBVIOUS
    <2>1. ~(k < l) /\ ~(l < k)
        BY <1>1 DEF Grows
    <2> QED
        BY <2>1
<1>3. Cardinality(T) = n - 1
    <2>1. n - 1 \in Nat
        OBVIOUS
    <2> QED
        BY <1>2, <2>1, CountsImage
<1>4. ASSUME NEW m \in 1 .. n - 1 PROVE Cardinality(UpTo(T, f[m])) = m
    <2>1. \A l \in 1 .. n - 1 : f[l] <= f[m] <=> l \in 1 .. m
        <3> SUFFICES ASSUME NEW l \in 1 .. n - 1 PROVE f[l] <= f[m] <=> l \in 1 .. m
            OBVIOUS
        <3>1. (l < m => f[l] < f[m]) /\ (m < l => f[m] < f[l])
            BY DEF Grows
        <3>2. f[l] \in Int /\ f[m] \in Int
            BY <1>1
        <3> QED
            BY <3>1, <3>2
    <2>2. UpTo(T, f[m]) = ImageOf(f, 1 .. m)
        <3>1. ASSUME NEW t \in UpTo(T, f[m]) PROVE t \in ImageOf(f, 1 .. m)
            BY <2>1, <3>1 DEF UpTo, ImageOf
        <3>2. ASSUME NEW t \in ImageOf(f, 1 .. m) PROVE t \in UpTo(T, f[m])
            <4>1. PICK l \in 1 .. m : t = f[l]
                BY <3>2 DEF ImageOf
            <4>2. l \in 1 .. n - 1
                OBVIOUS
            <4> QED
                BY <2>1, <4>1, <4>2 DEF UpTo, ImageOf
        <3> QED
            BY <3>1, <3>2
    <2>3. m \in Nat /\ \A k, l \in 1 .. m : f[k] = f[l] => k = l
        BY <1>2
    <2> QED
        BY <2>2, <2>3, CountsImage
<1> QED
    BY <1>3, <1>4

ReadToEnd(line, o, value) == LastRead(line, o, Len(line) + 1, value)

\* The last of the places where an option is given.
LEMMA LastOfRead ==
    ASSUME NEW line \in Seq(Words), Plain(line), NEW o, NEW value, ReadToEnd(line, o, value)
    PROVE  /\ LastOf(line, o) = NULL <=> value = NULL
           /\ value # NULL =>
                 value = [word |-> line[LastOf(line, o)], number |-> NumberAsked(line, o)]
           /\ value = NULL => ~Present(line, o)
<1> DEFINE K == {k \in DOMAIN line : NamesOption(line, k) /\ line[k].name = o}
<1>1. K = Named(line, o, Len(line) + 1)
    BY DEF Named, Takes
<1>2. CASE K = {}
    <2>1. ~Present(line, o)
        BY <1>2 DEF Present, Takes
    <2> QED
        BY <1>1, <1>2, <2>1 DEF ReadToEnd, LastRead, LastOf
<1>3. CASE K # {}
    <2>1. PICK k \in K : /\ \A l \in K : l <= k
                         /\ value = [word |-> line[k], number |-> NumberAt(line, k)]
        BY <1>1, <1>3 DEF ReadToEnd, LastRead
    <2>2. \A l \in K : (\A x \in K : x <= l) => l = k
        BY <2>1
    <2>3. LastOf(line, o) = k
        <3>1. LastOf(line, o) = CHOOSE l \in K : \A x \in K : x <= l
            BY <1>3 DEF LastOf
        <3> HIDE DEF K
        <3> QED
            BY <2>1, <2>2, <3>1
    <2>4. k # NULL /\ line[k] \in Words
        BY WordsAssumption
    <2>5. NumberAsked(line, o) = NumberAt(line, k)
        BY <2>3, <2>4 DEF NumberAsked, NumberAt
    <2>6. NumberAt(line, k) \in Int \cup {NULL}
        <3>1. \A w \in Words : w.number \in Int \cup {NULL}
            BY WordsAssumption DEF WordShapes
        <3>2. ~OneWord(line[k]) => line[k + 1] \in Words
            BY <2>1 DEF Plain, TwoWords
        <3> QED
            BY <2>4, <3>1, <3>2 DEF NumberAt
    <2>7. value # NULL
        BY <2>1, <2>4, <2>6, WordsAssumption
    <2> QED
        BY <2>1, <2>3, <2>4, <2>5, <2>7
<1> QED
    BY <1>2, <1>3

\* After all the passes: what is read, and what is left.

LEMMA AllPassesDone ==
    ASSUME TypeInv, WordsInv, PlainInv, stage \in {"heads", "outputs", "running"},
           NEW line, line = input.line, Plain(line)
    PROVE  /\ line \in Seq(Words)
           /\ ReadOver(line, Understood, val)
           /\ \E f : /\ GoesOver(line, f, argc, Understood)
                     /\ \A k \in 1 .. argc - 1 : argv[k] = line[f[k]]
<1>1. PICK f \in [1 .. argc - 1 -> DOMAIN input.line] :
          Selects(f) /\ Pass(input.line, f, argc, i, Kept, Done, Current, val)
    BY DEF PlainInv
<1>2. tables = <<>> /\ backend \in Backends
    BY DEF WordsInv, Passes
<1>3. i = 1 /\ j = 1
    BY <1>2 DEF WordsInv, BetweenPasses
<1>4. Done = Understood /\ Current = {}
    <2>1. backend # NULL
        BY <1>2, ConfigurationAssumption
    <2>2. \A a, c : /\ Len(<<a>>) - Len(<<>>) = 1 /\ DOMAIN <<a>> = 1 .. 1
                    /\ Len(<<a, c>>) - Len(<<>>) = 2 /\ DOMAIN <<a, c>> = 1 .. 2
        OBVIOUS
    <2>3. 1 .. Len(BackendOptions(backend)) - Len(<<>>) = DOMAIN BackendOptions(backend)
        BY <1>2, <2>2, BackendPasses DEF Backends
    <2> QED
        BY <1>2, <2>1, <2>2, <2>3 DEF Done, DoneOf, Understood, Current
<1>5. line \in Seq(Words) /\ argc \in Nat \ {0}
    BY LineTyped
<1>6. GoesOver(line, f, argc, Understood) /\ ReadSoFar(line, f, argc, 1, Understood, {}, val)
    BY <1>1, <1>3, <1>4 DEF Pass
<1>7. ReadOver(line, Understood, val)
    <2>1. PICK none, values : none = {} /\ values = val
        OBVIOUS
    <2>2. ReadSoFar(line, f, argc, 1, Understood, none, values)
        BY <1>6, <2>1
    <2> QED
        BY <1>5, <2>1, <2>2, ReadAtRest
<1>8. ASSUME NEW k \in 1 .. argc - 1 PROVE argv[k] = line[f[k]]
    BY <1>1, <1>3, <1>8 DEF Selects, TypeInv, ParserInv, CompactsInPlace
<1> QED
    BY <1>5, <1>6, <1>7, <1>8

LEMMA ReadExactly ==
    ASSUME NEW line \in Seq(Words), Plain(line), NEW done, NEW values, ReadOver(line, done, values),
           NEW o \in Options
    PROVE  values[o] = IF o \notin done \/ LastOf(line, o) = NULL THEN NULL
                       ELSE [word |-> line[LastOf(line, o)], number |-> NumberAsked(line, o)]
<1>1. CASE o \in done
    <2>1. PICK value : value = values[o]
        OBVIOUS
    <2>2. ReadToEnd(line, o, value)
        BY <1>1, <2>1 DEF ReadOver, ReadToEnd
    <2>3. LastOf(line, o) = NULL <=> value = NULL
        BY <2>2, LastOfRead
    <2>4. value # NULL =>
              value = [word |-> line[LastOf(line, o)], number |-> NumberAsked(line, o)]
        BY <2>2, LastOfRead
    <2> QED
        BY <1>1, <2>1, <2>3, <2>4
<1>2. CASE o \notin done
    BY <1>2 DEF ReadOver
<1> QED
    BY <1>1, <1>2

\* A plain command line means what it says, whatever words it has and however
\* many: after all the passes each option of main and of the backend has the
\* value that was given last, no other option has any, and what is left of argv
\* is the rest, in its order (option-parser.c:164-202, main.c:1140, 550, 601,
\* 679, 732).
THEOREM PlainLinesExactHolds == Spec => []PlainLinesExact
<1>1. TypeInv /\ WordsInv /\ PlainInv => PlainLinesExact
    <2> SUFFICES ASSUME TypeInv, WordsInv, PlainInv,
                        stage \in {"heads", "outputs", "running"}, Plain(input.line)
                 PROVE  LET line == input.line
                            left == LeftOver(line, Understood)
                        IN
                        /\ \A o \in Understood : LET k == LastOf(line, o) IN
                              val[o] = IF k = NULL THEN NULL
                                       ELSE [word |-> line[k], number |-> NumberAsked(line, o)]
                        /\ \A o \in Options \ Understood : val[o] = NULL
                        /\ argc = Cardinality(left) + 1
                        /\ \A k \in left : argv[Cardinality({l \in left : l <= k})] = line[k]
        BY DEF PlainLinesExact
    <2>1. PICK line : line = input.line
        OBVIOUS
    <2>2. /\ line \in Seq(Words) /\ Plain(line) /\ ReadOver(line, Understood, val)
          /\ \E f : /\ GoesOver(line, f, argc, Understood)
                    /\ \A k \in 1 .. argc - 1 : argv[k] = line[f[k]]
        BY <2>1, AllPassesDone
    <2>3. PICK f : /\ GoesOver(line, f, argc, Understood)
                   /\ \A k \in 1 .. argc - 1 : argv[k] = line[f[k]]
        BY <2>2
    <2>4. PICK left : left = LeftOver(line, Understood)
        OBVIOUS
    <2>5. left = ImageOf(f, 1 .. argc - 1) /\ Grows(line, f, argc)
        BY <2>3, <2>4 DEF GoesOver, ImageOf
    <2>6. argc \in Nat \ {0}
        BY LineTyped
    <2>7. /\ Cardinality(left) = argc - 1
          /\ \A m \in 1 .. argc - 1 : Cardinality(UpTo(left, f[m])) = m
        BY <2>2, <2>5, <2>6, Ranked
    <2>8. ASSUME NEW k \in left PROVE argv[Cardinality({l \in left : l <= k})] = line[k]
        <3>1. PICK m \in 1 .. argc - 1 : k = f[m]
            BY <2>5 DEF ImageOf
        <3> QED
            BY <2>3, <2>7, <3>1 DEF UpTo
    <2>9. ASSUME NEW o \in Options
          PROVE  val[o] = IF o \notin Understood \/ LastOf(line, o) = NULL THEN NULL
                          ELSE [word |-> line[LastOf(line, o)], number |-> NumberAsked(line, o)]
        BY <2>2, ReadExactly
    <2>10. Understood \subseteq Options
        <3>1. backend \in Backends
            BY DEF WordsInv, Passes
        <3> QED
            BY <3>1, BackendPasses DEF Understood, Backends, Options
    <2>11. \A o \in Understood :
               val[o] = IF LastOf(line, o) = NULL THEN NULL
                        ELSE [word |-> line[LastOf(line, o)], number |-> NumberAsked(line, o)]
        BY <2>9, <2>10
    <2>12. \A o \in Options \ Understood : val[o] = NULL
        BY <2>9
    <2>13. argc = Cardinality(LeftOver(line, Understood)) + 1
        BY <2>4, <2>6, <2>7
    <2>14. \A k \in LeftOver(line, Understood) :
              argv[Cardinality({l \in LeftOver(line, Understood) : l <= k})] = line[k]
        BY <2>4, <2>8
    <2> QED
        BY <2>1, <2>11, <2>12, <2>13, <2>14
<1> QED
    BY <1>1, WordsInit, WordsStep, PlainInit, PlainStep, TypeInvHolds, PTL DEF Spec

-----------------------------------------------------------------------------
(* What may crash it.                                                        *)

\* A word that makes the parser fail.
LEMMA CrashParse ==
    ASSUME TypeInv, WordsInv, ParseWord, UNCHANGED configVars
    PROVE  /\ fault' = "long_option_with_arg" =>
                 \E k \in 1 .. Len(input.line) - 1 :
                     /\ input.line[k].dashes = 2 /\ input.line[k].name \in Flags
                     /\ input.line[k].after # "end"
           /\ fault' = "handle_option" => backend = "wayland" /\ Present(input.line, "sprawl")
           /\ fault' # "wl_display_destroy"
<1>1. PICK f \in [1 .. argc - 1 -> DOMAIN input.line] : Selects(f)
    BY DEF WordsInv
<1>2. /\ fault = "none" /\ i < argc /\ tables # <<>>
    BY DEF ParseWord, Reading
<1>3. /\ f[i] \in DOMAIN input.line /\ argv[i] = input.line[f[i]] /\ argv[i] \in Words
      /\ i + 1 < argc => f[i + 1] \in DOMAIN input.line /\ f[i] < f[i + 1]
    BY <1>1, <1>2, WordInLine
<1>4. Len(input.line) \in Nat /\ DOMAIN input.line = 1 .. Len(input.line)
    BY LineTyped
<1> DEFINE w == argv[i]
<1>5. fault' = "long_option_with_arg" => MisreadFlag(w)
    BY <1>2 DEF ParseWord, Use, UseNext, Keep
<1>6. ASSUME MisreadFlag(w)
      PROVE  f[i] \in 1 .. Len(input.line) - 1 /\ w.dashes = 2 /\ w.name \in Flags /\ w.after # "end"
    <2>1. i + 1 < argc /\ w.dashes = 2 /\ w.name \in Flags /\ ~Complete(w) /\ IsNamed(w)
        BY <1>6 DEF MisreadFlag
    <2>2. f[i] \in 1 .. Len(input.line) - 1
        BY <1>3, <1>4, <2>1
    <2> QED
        BY <2>1, <2>2 DEF Complete, long_option
<1>7. fault' = "handle_option" => IsNamed(w) /\ w.name = "sprawl"
    BY <1>2 DEF ParseWord, Use, UseNext, Keep, MayOverrun, Complete, long_option, short_option,
        TakesNext
<1>8. ASSUME IsNamed(w), w.name = "sprawl"
      PROVE  backend = "wayland" /\ Present(input.line, "sprawl")
    <2>1. "sprawl" \in Head(tables) /\ w.dashes > 0
        BY <1>8 DEF IsNamed
    <2>2. "sprawl" \notin CoreOptions \cup WindowedOptions \cup DrmOptions \cup X11Options
        BY DEF CoreOptions, WindowedOptions, DrmOptions, X11Options
    <2>3. \A a, c : Head(<<a>>) = a /\ Head(<<a, c>>) = a
        OBVIOUS
    <2>4. backend = "wayland"
        BY <1>2, <2>1, <2>2, <2>3, PassTable DEF WordsInv
    <2>5. "sprawl" # NULL
        BY WordsAssumption DEF Options, WaylandOptions
    <2>6. Takes(input.line, f[i], {"sprawl"})
        BY <1>3, <1>8, <2>1, <2>5 DEF Takes, NamesOption
    <2> QED
        BY <1>3, <2>4, <2>6 DEF Present
<1>9. fault' # "wl_display_destroy"
    BY <1>2 DEF ParseWord, Use, UseNext, Keep
<1> QED
    BY <1>3, <1>5, <1>6, <1>7, <1>8, <1>9

LEMMA CrashConfig ==
    ASSUME TypeInv, WordsInv, PlainInv, ConfigFails
    PROVE  /\ input.file = NULL /\ Present(input.line, "config")
           /\ Plain(input.line) => ~Present(input.line, "no-config")
<1>0. {"config", "no-config"} \subseteq Options /\ {"config", "no-config"} \subseteq CoreOptions
    BY DEF Options, CoreOptions
<1>1. /\ input.file = NULL /\ val["config"] # NULL /\ val["no-config"] = NULL
      /\ tables = <<>> /\ stage = "options"
    BY DEF ConfigFails, Loaded, MustLoad, Given, Parsed
<1>2. Present(input.line, "config")
    BY <1>0, <1>1 DEF WordsInv
<1>3. ASSUME Plain(input.line) PROVE ~Present(input.line, "no-config")
    <2>1. PICK f \in [1 .. argc - 1 -> DOMAIN input.line] :
              Selects(f) /\ Pass(input.line, f, argc, i, Kept, Done, Current, val)
        BY <1>3 DEF PlainInv
    <2>2. Done = CoreOptions /\ Current = {}
        BY <1>1, DoneCore DEF Done, Current, WordsInv, Passes
    <2>3. PICK line, none, values : line = input.line /\ none = {} /\ values = val
        OBVIOUS
    <2>4. ReadSoFar(line, f, argc, i, CoreOptions, none, values) /\ line \in Seq(Words) /\ Plain(line)
        BY <1>3, <2>1, <2>2, <2>3, LineTyped DEF Pass
    <2>5. ReadOver(line, CoreOptions, values)
        BY <2>3, <2>4, ReadAtRest
    <2>6. ReadToEnd(line, "no-config", NULL)
        BY <1>0, <1>1, <2>3, <2>5 DEF ReadOver, ReadToEnd
    <2> QED
        BY <2>3, <2>4, <2>6, LastOfRead
<1> QED
    BY <1>1, <1>2, <1>3

LEMMA CrashStep == TypeInv /\ WordsInv /\ PlainInv /\ CrashesOnlyOn /\ [Next]_vars => CrashesOnlyOn'
<1> SUFFICES ASSUME TypeInv, WordsInv, PlainInv, CrashesOnlyOn, [Next]_vars PROVE CrashesOnlyOn'
    OBVIOUS
<1>0. \A line, o : Present(line, o) <=> \E k \in DOMAIN line : NamesOption(line, k) /\ line[k].name = o
    BY DEF Present, Takes
<1>1. CASE ParseWord /\ UNCHANGED configVars
    <2>1. input' = input /\ backend' = backend
        BY <1>1 DEF configVars
    <2> QED
        BY <1>0, <1>1, <2>1, CrashParse DEF CrashesOnlyOn
<1>2. CASE ConfigFails
    <2>1. input' = input /\ fault' = "wl_display_destroy"
        BY <1>2 DEF ConfigFails
    <2> QED
        BY <1>0, <1>2, <2>1, CrashConfig DEF CrashesOnlyOn
<1>3. ASSUME NEW n \in Names, ConfigureOutput(n) PROVE CrashesOnlyOn'
    <2>1. UNCHANGED <<input, backend>> /\ fault' \in {fault, "drm_configure_output"}
        BY <1>3 DEF ConfigureOutput
    <2> QED
        BY <2>1 DEF CrashesOnlyOn
<1>4. CASE UNCHANGED <<input, backend, fault>>
    BY <1>4 DEF CrashesOnlyOn
<1>5. CASE LoadConfig
    <2>1. fault' = "none"
        BY <1>5 DEF LoadConfig, Parsed
    <2> QED
        BY <2>1 DEF CrashesOnlyOn
<1>6. CASE (ParseEnd /\ UNCHANGED configVars) \/ HelpOrVersion \/ LoadBackend \/ FollowSameAs
           \/ head_prepare_enable \/ HeadsDone \/ Run \/ UNCHANGED vars
    BY <1>4, <1>6 DEF ParseEnd, HelpOrVersion, LoadBackend, FollowSameAs, head_prepare_enable,
        HeadsDone, Run, parseVars, configVars, vars
<1> QED
    BY <1>1, <1>2, <1>3, <1>5, <1>6 DEF Next, Parse, ParseNext

\* Whatever the words are, only these three things crash it before it runs: a flag
\* that goes on after its name, with a word after it; the value of --sprawl, on
\* the wayland backend; and a configuration file that was asked for and is not
\* there (option-parser.c:106, main.c:673, main.c:1154).
THEOREM CrashesOnlyOnHolds == Spec => []CrashesOnlyOn
<1>1. Init => CrashesOnlyOn
    BY DEF Init, ParseInit, CrashesOnlyOn
<1> QED
    BY <1>1, CrashStep, WordsInit, WordsStep, PlainInit, PlainStep, TypeInvHolds, PTL DEF Spec

-----------------------------------------------------------------------------
(* What the outputs become.                                                  *)

\* An output is configured with what the passes have read, which is all there is
\* to read, and by the backend that they were for.
ConfiguredInv ==
    /\ stage \in {"options", "backend"} => api = "none"
    /\ api = "drm" => backend = "drm"
    /\ api = "window" => backend \in {"wayland", "x11"}
    /\ \A n \in Names : outputs[n] # NULL /\ outputs[n].settings # NULL =>
          /\ stage \in {"outputs", "running"}
          /\ api \in {"drm", "window"}
          /\ \A section : section = outputs[n].config =>
                outputs[n].settings = configure_output(section)

LEMMA ConfiguredKeeps ==
    ASSUME ConfiguredInv, UNCHANGED <<api, backend, outputs>>,
           val' = val \/ (\A n \in Names : outputs[n] # NULL => outputs[n].settings = NULL),
           stage \in {"outputs", "running"} => stage' \in {"outputs", "running"},
           stage' \in {"options", "backend"} => stage \in {"options", "backend"}
    PROVE  ConfiguredInv'
<1>1. CASE val' = val
    BY <1>1 DEF ConfiguredInv, configure_output, drm_configure_output, windowed_configure_output,
        drm_mode, windowed_size, Override, Cmdline, Given
<1>2. CASE \A n \in Names : outputs[n] # NULL => outputs[n].settings = NULL
    BY <1>2 DEF ConfiguredInv
<1> QED
    BY <1>1, <1>2

LEMMA ConfiguredInit == Init => ConfiguredInv
BY DEF Init, ConfiguredInv

\* A head is put on an output that nobody has configured yet.
LEMMA ConfiguredPrepare ==
    ASSUME TypeInv, ConfiguredInv, head_prepare_enable
    PROVE  ConfiguredInv'
<1>1. stage = "heads" /\ UNCHANGED <<stage, api, backend>>
    BY DEF head_prepare_enable, ReadingHeads
<1>2. outputs \in [Names -> OutputStates \cup {NULL}]
    BY DEF TypeInv, MainTyped
<1>3. \A n \in Names : outputs[n] # NULL => outputs[n].settings = NULL
    BY <1>1 DEF ConfiguredInv
<1>4. ASSUME NEW name, NEW section
      PROVE  name \in Names => ensured(name, section).settings = NULL
    BY <1>3 DEF ensured
<1>5. \A output, head : AddHead(output, head).settings = output.settings
    BY DEF AddHead
<1>6. ASSUME NEW n \in Names, outputs'[n] # NULL PROVE outputs'[n].settings = NULL
    <2>1. outputs' = outputs \/ \E name, section :
              outputs' = [outputs EXCEPT ![name] = AddHead(ensured(name, section), Head(heads))]
        BY DEF head_prepare_enable
    <2>2. CASE outputs' = outputs
        BY <1>3, <1>6, <2>2
    <2>3. ASSUME NEW name, NEW section,
                 outputs' = [outputs EXCEPT ![name] = AddHead(ensured(name, section), Head(heads))]
          PROVE  outputs'[n].settings = NULL
        BY <1>2, <1>3, <1>4, <1>5, <1>6, <2>3
    <2> QED
        BY <2>1, <2>2, <2>3
<1> QED
    BY <1>1, <1>6 DEF ConfiguredInv

LEMMA ConfiguredOutput ==
    ASSUME TypeInv, ConfiguredInv, NEW n \in Names, ConfigureOutput(n)
    PROVE  ConfiguredInv'
<1>1. /\ stage = "outputs" /\ outputs[n] # NULL
      /\ UNCHANGED <<stage, api, backend, val>>
    BY DEF ConfigureOutput, ToConfigure
<1>2. ASSUME NEW section PROVE configure_output(section)' = configure_output(section)
    BY <1>1 DEF configure_output, drm_configure_output, windowed_configure_output,
        drm_mode, windowed_size, Override, Cmdline, Given
<1>3. outputs \in [Names -> OutputStates \cup {NULL}] /\ api \in {"none", "drm", "window"}
    BY DEF TypeInv, MainTyped
<1>4. CASE UNCHANGED outputs
    <2>1. stage \in {"outputs", "running"} => stage' \in {"outputs", "running"}
        BY <1>1
    <2> QED
        BY <1>1, <1>4, ConfiguredKeeps
<1>5. ASSUME NEW ok \in BOOLEAN,
             outputs' = [outputs EXCEPT ![n] =
                 [outputs[n] EXCEPT !.add = <<>>, !.enabled = ok,
                                    !.settings = configure_output(outputs[n].config)]]
      PROVE  ConfiguredInv'
    <2>1. outputs[n] \in OutputStates
        BY <1>1, <1>3
    <2>2. /\ outputs'[n].config = outputs[n].config
          /\ outputs'[n].settings = configure_output(outputs[n].config)
          /\ \A m \in Names : m # n => outputs'[m] = outputs[m]
        BY <1>3, <1>5, <2>1 DEF OutputStates
    <2>3. configure_output(outputs[n].config) # NULL => api \in {"drm", "window"}
        BY <1>3 DEF configure_output
    <2>4. ASSUME NEW m \in Names, outputs'[m] # NULL, outputs'[m].settings # NULL
          PROVE  /\ stage' \in {"outputs", "running"} /\ api' \in {"drm", "window"}
                 /\ \A section : section = outputs'[m].config =>
                        outputs'[m].settings = configure_output(section)'
        <3>1. api \in {"drm", "window"}
            BY <2>2, <2>3, <2>4 DEF ConfiguredInv
        <3>2. ASSUME NEW section, section = outputs'[m].config
              PROVE  outputs'[m].settings = configure_output(section)'
            <4>1. outputs'[m].settings = configure_output(section)
                BY <2>2, <2>4, <3>2 DEF ConfiguredInv
            <4> QED
                BY <4>1, <1>2
        <3> QED
            BY <1>1, <3>1, <3>2
    <2> QED
        BY <1>1, <2>4 DEF ConfiguredInv
<1> QED
    BY <1>4, <1>5 DEF ConfigureOutput

LEMMA ConfiguredStep ==
    TypeInv /\ WordsInv /\ ConfiguredInv /\ [Next]_vars => ConfiguredInv'
<1> SUFFICES ASSUME TypeInv, WordsInv, ConfiguredInv, [Next]_vars PROVE ConfiguredInv'
    OBVIOUS
<1>0. stage \in {"options", "backend"} =>
          \A n \in Names : outputs[n] # NULL => outputs[n].settings = NULL
    BY DEF ConfiguredInv
<1>1. CASE Parse
    <2>1. stage \in {"options", "backend"} /\ UNCHANGED configVars
        BY <1>1 DEF Parse, ParseNext, ParseWord, ParseEnd, Reading, WordsInv, Passes
    <2> QED
        BY <1>0, <2>1, ConfiguredKeeps DEF configVars
<1>2. CASE LoadConfig
    <2>1. /\ stage = "options" /\ api = "none" /\ UNCHANGED <<api, outputs, val>>
        BY <1>2 DEF LoadConfig, Parsed, ConfiguredInv
    <2>2. \A n \in Names : outputs'[n] # NULL => outputs'[n].settings = NULL
        BY <1>0, <2>1
    <2> QED
        BY <2>1, <2>2 DEF ConfiguredInv
<1>3. CASE LoadBackend
    <2>1. /\ stage = "backend" /\ UNCHANGED <<outputs, backend>>
        BY <1>3 DEF LoadBackend, Parsed
    <2>2. \A n \in Names : outputs'[n] # NULL => outputs'[n].settings = NULL
        BY <1>0, <2>1
    <2>3. /\ stage' \in {"exited", "heads"}
          /\ api' = "drm" => backend = "drm"
          /\ api' = "window" => backend \in {"wayland", "x11"}
        BY <1>3 DEF LoadBackend, Exit, load_drm_backend, load_wayland_backend, load_x11_backend,
            ConfiguredInv
    <2> QED
        BY <2>1, <2>2, <2>3 DEF ConfiguredInv
<1>4. CASE head_prepare_enable
    BY <1>4, ConfiguredPrepare
<1>5. ASSUME NEW n \in Names, ConfigureOutput(n) PROVE ConfiguredInv'
    BY <1>5, ConfiguredOutput
<1>6. CASE HelpOrVersion \/ ConfigFails
    <2>1. stage = "options" /\ stage' = "exited" /\ UNCHANGED <<api, backend, outputs, val>>
        BY <1>6 DEF HelpOrVersion, ConfigFails, Parsed, Exit, parseVars
    <2> QED
        BY <1>0, <2>1, ConfiguredKeeps
<1>7. CASE FollowSameAs \/ HeadsDone \/ Run \/ UNCHANGED vars
    <2>1. /\ UNCHANGED <<api, backend, outputs, val>>
          /\ stage \in {"outputs", "running"} => stage' \in {"outputs", "running"}
          /\ stage' \in {"options", "backend"} => stage \in {"options", "backend"}
        BY <1>7 DEF FollowSameAs, HeadsDone, Run, parseVars, vars, configVars
    <2> QED
        BY <2>1, ConfiguredKeeps
<1> QED
    BY <1>1, <1>2, <1>3, <1>4, <1>5, <1>6, <1>7 DEF Next

\* What the command line asks for of an option of the backend.
LEMMA AskedFor ==
    ASSUME NEW line \in Seq(Words), Plain(line), ReadOver(line, Understood, val), ReadWell,
           NEW o \in Understood \cap Options
    PROVE  /\ Given(o) <=> LastOf(line, o) # NULL
           /\ o \in {"width", "height", "scale"} =>
                 \A x : Override(o, x) =
                    IF NumberAsked(line, o) \in {NULL, 0} THEN x ELSE NumberAsked(line, o)
<1> DEFINE last == LastOf(line, o)
           asked == NumberAsked(line, o)
<1>0. PICK value : value = val[o]
    OBVIOUS
<1>1. ReadToEnd(line, o, value)
    BY <1>0 DEF ReadOver, ReadToEnd
<1>2. last = NULL => asked = NULL
    BY DEF NumberAsked
<1>3. last = NULL <=> value = NULL
    BY <1>1, LastOfRead
<1>5. value # NULL => value = [word |-> line[last], number |-> asked]
    BY <1>1, LastOfRead
<1>4. ASSUME o \in {"width", "height", "scale"}, NEW x
      PROVE  Override(o, x) = IF asked \in {NULL, 0} THEN x ELSE asked
    <2>1. NULL # 0
        BY WordsAssumption
    <2>2. CASE last = NULL
        <3>1. Cmdline(o) = 0
            BY <1>0, <1>3, <2>2 DEF Cmdline, Given
        <3> QED
            BY <1>2, <2>2, <3>1 DEF Override
    <2>3. CASE last # NULL
        <3>1. Cmdline(o) = asked
            BY <1>0, <1>3, <1>5, <2>3 DEF Cmdline, Given
        <3>2. asked \in Int
            <4>1. val[o].number \in ValueOf(o)
                BY <1>0, <1>3, <2>3 DEF ReadWell
            <4> QED
                BY <1>0, <1>3, <1>5, <1>4, <2>3, <4>1 DEF ValueOf, Numbers
        <3>3. asked # NULL
            BY <3>2, WordsAssumption
        <3> QED
            BY <3>1, <3>3 DEF Override
    <2> QED
        BY <2>2, <2>3
<1> QED
    BY <1>0, <1>3, <1>4 DEF Given

\* Whatever a plain command line and the file say, the command line decides what
\* an output becomes, then the section, then the default; and the current mode is
\* asked for only for an output that has a section (main.c:164-309).
THEOREM ConfiguredAsAskedHolds == Spec => []ConfiguredAsAsked
<1>1. TypeInv /\ WordsInv /\ PlainInv /\ NotOffInv /\ ConfiguredInv => ConfiguredAsAsked
    <2> SUFFICES ASSUME TypeInv, WordsInv, PlainInv, NotOffInv, ConfiguredInv,
                        Plain(input.line), NEW n \in Names, outputs[n] # NULL, outputs[n].settings # NULL
                 PROVE  LET Asked(o) == NumberAsked(input.line, o)
                            First(o, x) == IF Asked(o) \in {NULL, 0} THEN x ELSE Asked(o)
                            section == outputs[n].config
                            is      == outputs[n].settings
                            size    == IF section = NULL \/ section.mode # "size" THEN DefaultSize
                                       ELSE section.size
                            scale   == IF section = NULL THEN 1 ELSE section.scale
                        IN  IF api = "window"
                            THEN /\ is.size = <<First("width", size[1]), First("height", size[2])>>
                                 /\ is.scale = First("scale", scale)
                            ELSE /\ is.mode = "current" <=>
                                       /\ section # NULL
                                       /\ \/ section.mode = "current"
                                          \/ LastOf(input.line, "current-mode") # NULL
                                 /\ is.mode = "modeline" => section.mode \in {"size", "other"}
                                 /\ is.scale = scale
        BY DEF ConfiguredAsAsked
    <2>1. PICK line, section, is :
              line = input.line /\ section = outputs[n].config /\ is = outputs[n].settings
        OBVIOUS
    <2>2. /\ stage \in {"outputs", "running"} /\ api \in {"drm", "window"}
          /\ is = configure_output(section)
        BY <2>1 DEF ConfiguredInv
    <2>3. line \in Seq(Words) /\ ReadOver(line, Understood, val) /\ Plain(line)
        BY <2>1, <2>2, AllPassesDone
    <2>4. ReadWell /\ section \in Sections \cup {NULL}
        BY <2>1 DEF TypeInv, MainTyped, OutputStates
    <2>5. CASE api = "window"
        <3>1. {"width", "height", "scale"} \subseteq Understood \cap Options
            <4>1. backend \in {"wayland", "x11"}
                BY <2>5 DEF ConfiguredInv
            <4>2. WindowedOptions \subseteq Understood
                BY <4>1, BackendPasses DEF Understood
            <4> QED
                BY <4>2 DEF WindowedOptions, Options
        <3>2. \A o \in {"width", "height", "scale"} : \A x : Override(o, x) =
                  IF NumberAsked(line, o) \in {NULL, 0} THEN x ELSE NumberAsked(line, o)
            BY <2>3, <2>4, <3>1, AskedFor
        <3>3. is.size = windowed_size(section) /\ is.scale = Override("scale", Scale(section))
            BY <2>2, <2>5 DEF configure_output, windowed_configure_output
        <3> QED
            BY <2>1, <2>5, <3>2, <3>3 DEF windowed_size, Scale
    <2>6. CASE api = "drm"
        <3>1. "current-mode" \in Understood \cap Options
            <4>1. backend = "drm"
                BY <2>6 DEF ConfiguredInv
            <4>2. DrmOptions \subseteq Understood
                BY <4>1, BackendPasses DEF Understood
            <4> QED
                BY <4>2 DEF DrmOptions, Options
        <3>2. Given("current-mode") <=> LastOf(line, "current-mode") # NULL
            BY <2>3, <2>4, <3>1, AskedFor
        <3>3. is.mode = drm_mode(section) /\ is.scale = Scale(section)
            BY <2>2, <2>6 DEF configure_output, drm_configure_output
        <3>4. is.mode = "modeline" => section.mode \in {"size", "other"}
            <4>1. section # NULL => section \in Sections /\ section.mode # "off"
                BY <2>1, <2>4 DEF NotOffInv, NotOff
            <4> QED
                BY <3>3, <4>1 DEF drm_mode, Sections, OutputModes
        <3> QED
            BY <2>1, <2>6, <3>2, <3>3, <3>4 DEF drm_mode, Scale
    <2> QED
        BY <2>2, <2>5, <2>6
<1> QED
    BY <1>1, ConfiguredInit, ConfiguredStep, WordsInit, WordsStep, PlainInit, PlainStep,
        NotOffInit, NotOffStep, TypeInvHolds, PTL DEF Spec

-----------------------------------------------------------------------------
(* It comes to an end.                                                       *)

Ended == stage \in {"running", "exited"} \/ fault # "none"

\* What is left to do: stages; then passes over the command line, heads or
\* outputs; then words of this pass, or same-as to follow.
Measure ==
    CASE Ended                        -> <<0, 0, 0>>
      [] ~Ended /\ stage = "outputs"  -> <<1, Cardinality(ToConfigure), 0>>
      [] ~Ended /\ stage = "heads"    -> <<2, Len(heads), MaxNesting + 1 - depth>>
      [] ~Ended /\ stage = "backend"  -> <<3, Len(tables), argc - i>>
      [] ~Ended /\ stage = "options"  -> <<4, Len(tables), argc - i>>

Lower(m, n) ==
    \/ m[1] < n[1]
    \/ m[1] = n[1] /\ m[2] < n[2]
    \/ m[1] = n[1] /\ m[2] = n[2] /\ m[3] < n[3]

\* A step that leaves less to do.
Progress == ~Ended /\ Measure' \in Nat \X Nat \X Nat /\ Lower(Measure', Measure)

Existing == {n \in Names : outputs[n] # NULL}

EndInv == IsFiniteSet(Existing) /\ (stage = "heads" => fault = "none")

LEMMA EndInit == Init => EndInv
<1> SUFFICES ASSUME Init PROVE EndInv
    OBVIOUS
<1>1. Existing = {}
    BY DEF Init, Existing
<1> QED
    BY <1>1, FS_EmptySet DEF EndInv, Init

\* A head adds one output at most.
LEMMA EndPrepare ==
    ASSUME TypeInv, EndInv, head_prepare_enable
    PROVE  EndInv'
<1>1. UNCHANGED <<stage, fault>>
    BY DEF head_prepare_enable, parseVars
<1>2. PICK name : Existing' \subseteq Existing \cup {name}
    BY DEF head_prepare_enable, Existing, TypeInv, MainTyped
<1>3. IsFiniteSet(Existing \cup {name})
    BY FS_AddElement DEF EndInv
<1> QED
    BY <1>1, <1>2, <1>3, FS_Subset DEF EndInv

LEMMA EndStep == TypeInv /\ WordsInv /\ EndInv /\ [Next]_vars => EndInv'
<1> SUFFICES ASSUME TypeInv, WordsInv, EndInv, [Next]_vars PROVE EndInv'
    OBVIOUS
<1>1. CASE head_prepare_enable
    BY <1>1, EndPrepare
<1>2. ASSUME NEW n \in Names, ConfigureOutput(n) PROVE EndInv'
    <2>1. stage' = "outputs" /\ Existing' \subseteq Existing
        BY <1>2 DEF ConfigureOutput, ToConfigure, Existing, TypeInv, MainTyped
    <2> QED
        BY <2>1, FS_Subset DEF EndInv
<1>3. CASE Parse
    <2>1. UNCHANGED <<stage, outputs>> /\ stage # "heads"
        BY <1>3 DEF Parse, ParseNext, ParseWord, ParseEnd, Reading, configVars, WordsInv, Passes
    <2> QED
        BY <2>1 DEF EndInv, Existing
<1>4. CASE \/ HelpOrVersion \/ ConfigFails \/ LoadConfig \/ LoadBackend
           \/ FollowSameAs \/ HeadsDone \/ Run \/ UNCHANGED vars
    <2>1. outputs' = outputs /\ (stage' = "heads" => fault' = "none")
        BY <1>4 DEF HelpOrVersion, ConfigFails, LoadConfig, ChooseBackend, UnknownBackend,
            LoadBackend, FollowSameAs, HeadsDone, Run, Exit, Parsed, ReadingHeads,
            vars, configVars, parseVars, EndInv
    <2> QED
        BY <2>1 DEF EndInv, Existing
<1> QED
    BY <1>1, <1>2, <1>3, <1>4 DEF Next

LEMMA MeasureTyped ==
    ASSUME TypeInv, EndInv
    PROVE  Measure \in Nat \X Nat \X Nat
<1>1. Cardinality(ToConfigure) \in Nat
    <2>1. ToConfigure \subseteq Existing
        BY DEF ToConfigure, Existing
    <2> QED
        BY <2>1, FS_Subset, FS_CardinalityType DEF EndInv
<1>2. Len(heads) \in Nat /\ MaxNesting + 1 - depth \in Nat
    BY ConfigurationAssumption DEF TypeInv, MainTyped
<1>3. Len(tables) \in Nat /\ argc - i \in Nat
    BY DEF TypeInv, ReadWell, ParserInv, Indices
<1> QED
    BY <1>1, <1>2, <1>3 DEF Measure, Ended, TypeInv, MainTyped

LEMMA ParseLowers ==
    ASSUME TypeInv, WordsInv, Parse
    PROVE  ~Ended /\ Lower(Measure', Measure)
<1>1. fault = "none" /\ tables # <<>> /\ UNCHANGED stage
    BY DEF Parse, ParseNext, ParseWord, ParseEnd, Reading, configVars
<1>2. stage \in {"options", "backend"}
    BY <1>1 DEF WordsInv, Passes
<1>3. /\ tables \in Seq(SUBSET Options) /\ argc \in Nat /\ i \in Nat
    BY DEF TypeInv, ReadWell, ParserInv, Indices
<1>4. CASE ParseWord
    <2>1. /\ tables' = tables /\ argc' = argc
          /\ i' \in {i, i + 1, i + 2} /\ (i' = i => fault' # "none")
        BY <1>3, <1>4 DEF ParseWord, Use, UseNext, Keep
    <2> QED
        BY <1>1, <1>2, <1>3, <2>1 DEF Ended, Measure, Lower
<1>5. CASE ParseEnd
    <2>1. tables' = Tail(tables) /\ fault' = fault /\ Len(tables') < Len(tables)
        BY <1>1, <1>3, <1>5 DEF ParseEnd
    <2> QED
        BY <1>1, <1>2, <1>3, <2>1 DEF Ended, Measure, Lower
<1> QED
    BY <1>4, <1>5 DEF Parse, ParseNext

LEMMA HeadsLower ==
    ASSUME TypeInv, EndInv, FollowSameAs \/ head_prepare_enable
    PROVE  ~Ended /\ Lower(Measure', Measure)
<1>1. stage = "heads" /\ fault = "none" /\ UNCHANGED <<stage, fault>> /\ heads # <<>>
    BY DEF FollowSameAs, head_prepare_enable, ReadingHeads, parseVars, EndInv
<1>2. heads \in Seq(Names) /\ depth \in Nat /\ MaxNesting \in Nat
    BY ConfigurationAssumption DEF TypeInv, MainTyped
<1>3. CASE FollowSameAs
    <2>1. heads' = heads /\ depth' = depth + 1
        BY <1>3 DEF FollowSameAs, Deeper
    <2> QED
        BY <1>1, <1>2, <2>1 DEF Ended, Measure, Lower
<1>4. CASE head_prepare_enable
    <2>1. heads' = Tail(heads) /\ Len(heads') < Len(heads)
        BY <1>1, <1>2, <1>4 DEF head_prepare_enable, ReadHeads
    <2> QED
        BY <1>1, <1>2, <2>1 DEF Ended, Measure, Lower
<1> QED
    BY <1>3, <1>4

\* An output that was configured has no heads to add.
LEMMA ConfigureLowers ==
    ASSUME TypeInv, EndInv, NEW n \in Names, ConfigureOutput(n)
    PROVE  ~Ended /\ Lower(Measure', Measure)
<1>1. stage = "outputs" /\ fault = "none" /\ stage' = stage /\ n \in ToConfigure
    BY DEF ConfigureOutput
<1>2. CASE fault' # "none"
    BY <1>1, <1>2 DEF Ended, Measure, Lower
<1>3. CASE fault' = "none"
    <2>1. PICK ok \in BOOLEAN : outputs' = [outputs EXCEPT ![n] =
              [outputs[n] EXCEPT !.add = <<>>, !.enabled = ok,
                                 !.settings = configure_output(outputs[n].config)]]
        BY <1>3 DEF ConfigureOutput
    <2>2. outputs[n] \in OutputStates
        BY <1>1 DEF ToConfigure, TypeInv, MainTyped
    <2>3. outputs'[n].add = <<>> /\ \A m \in Names \ {n} : outputs'[m] = outputs[m]
        BY <2>1, <2>2 DEF TypeInv, MainTyped, OutputStates
    <2>4. ToConfigure' = ToConfigure \ {n}
        BY <2>3 DEF ToConfigure
    <2>5. IsFiniteSet(ToConfigure)
        BY FS_Subset DEF EndInv, ToConfigure, Existing
    <2>6. /\ Cardinality(ToConfigure') = Cardinality(ToConfigure) - 1
          /\ Cardinality(ToConfigure) \in Nat
        BY <1>1, <2>4, <2>5, FS_RemoveElement, FS_CardinalityType
    <2> QED
        BY <1>1, <1>3, <2>6 DEF Ended, Measure, Lower
<1> QED
    BY <1>2, <1>3

LEMMA StageLowers ==
    ASSUME TypeInv, WordsInv, EndInv,
           HelpOrVersion \/ ConfigFails \/ LoadConfig \/ LoadBackend \/ HeadsDone \/ Run
    PROVE  ~Ended /\ Lower(Measure', Measure)
<1> DEFINE Rank(s, f) == IF f # "none" \/ s \in {"running", "exited"} THEN 0
                         ELSE CASE s = "outputs" -> 1 [] s = "heads" -> 2
                                [] s = "backend" -> 3 [] s = "options" -> 4
<1>1. /\ ~Ended
      /\ \/ stage' = "exited"
         \/ stage = "options" /\ stage' = "backend" /\ fault' = fault
         \/ stage = "backend" /\ stage' = "heads" /\ fault' = fault
         \/ stage = "heads" /\ stage' = "outputs" /\ fault' = fault
         \/ stage = "outputs" /\ stage' = "running"
    BY DEF HelpOrVersion, ConfigFails, LoadConfig, ChooseBackend, UnknownBackend, LoadBackend,
        HeadsDone, Run, Exit, Parsed, Ended, parseVars, EndInv
<1>2. Measure[1] = Rank(stage, fault) /\ Measure'[1] = Rank(stage', fault')
    BY <1>1 DEF Measure, Ended, TypeInv, MainTyped
<1>3. Rank(stage', fault') < Rank(stage, fault)
    BY <1>1 DEF Ended, TypeInv, MainTyped
<1> QED
    BY <1>1, <1>2, <1>3 DEF Lower

\* No run is endless, whatever the arguments, the file and the heads, and even
\* with same-as that go round: every step leaves less to do, and none is made
\* after the end (option-parser.c:164-202, main.c:385-395, 419-525).
THEOREM EveryStepProgresses == Spec => [][Progress]_vars
<1>1. TypeInv /\ WordsInv /\ EndInv /\ TypeInv' /\ EndInv' /\ [Next]_vars => [Progress]_vars
    <2> SUFFICES ASSUME TypeInv, WordsInv, EndInv, TypeInv', EndInv', Next PROVE Progress
        OBVIOUS
    <2>1. Measure' \in Nat \X Nat \X Nat
        <3>1. (TypeInv /\ EndInv => Measure \in Nat \X Nat \X Nat)'
            BY MeasureTyped, PTL
        <3> QED
            BY <3>1
    <2>2. ~Ended /\ Lower(Measure', Measure)
        BY ParseLowers, HeadsLower, ConfigureLowers, StageLowers DEF Next
    <2> QED
        BY <2>1, <2>2 DEF Progress
<1> QED
    BY <1>1, EndInit, EndStep, WordsInit, WordsStep, TypeInvHolds, PTL DEF Spec

=============================================================================
