--------------------------- MODULE MCConfiguration ---------------------------
(***************************************************************************)
(* A small instance of Configuration for TLC.  What the parser does with   *)
(* any line of three words is checked with few files; what the outputs     *)
(* become is checked with few lines and any file of three sections.        *)
(***************************************************************************)
EXTENDS Configuration

Word(dashes, name, after, number) ==
    [dashes |-> dashes, name |-> name, after |-> after, number |-> number]

Long(name) == Word(2, name, "end", NULL)
LongNumber(name, number) == Word(2, name, "equals", number)
Other(number) == Word(0, NULL, "end", number)

MCWords ==
    {Long("help"), Long("no-config"), Long("config"), Long("width"), Long("sprawl"),
     Long("current-mode"),
     Word(1, "config", "end", NULL),           \* -c
     Word(1, "backend", "more", NULL),         \* -Bfile
     Word(2, "help", "more", NULL),            \* --helpful
     Word(2, "width", "more", NULL),           \* --widthx
     LongNumber("width", 640), LongNumber("width", NULL),
     LongNumber("output-count", 2), LongNumber("scale", 2),
     Word(2, NULL, "end", NULL),               \* --unknown
     Other(2), Other(NULL)}

MCWordsAndZeros == MCWords \cup {LongNumber("width", 0), LongNumber("scale", 0)}

LinesUpTo(n) == UNION {[1 .. l -> MCWords] : l \in 0 .. n}

FewLines ==
    {<<>>,
     <<LongNumber("width", 640), LongNumber("scale", 0), Long("current-mode")>>,
     <<LongNumber("output-count", 2), Long("no-config")>>}

MCNames ==
    {<<"WL", 1>>, <<"wayland", 0>>, <<"wayland", 1>>, <<"screen", 0>>, <<"screen", 1>>,
     <<"wlparent", 0>>, <<"HDMI", 1>>, <<"HDMI", 2>>}

Section(name, next, mode) ==
    [name |-> name, same_as |-> next, mode |-> mode, size |-> <<800, 600>>,
     scale |-> IF mode = "size" THEN 3 ELSE 1,
     transform |-> IF mode = "other" THEN "invalid" ELSE "90"]

\* Chains within the names of a graphics card's outputs, and a windowed output.
MCSections ==
    {Section(name, next, NULL) :
        name \in {<<"HDMI", 1>>, <<"HDMI", 2>>, <<"WL", 1>>},
        next \in {<<"HDMI", 1>>, <<"HDMI", 2>>, <<"WL", 1>>}}
    \cup {Section(name, NULL, mode) :
        name \in {<<"HDMI", 2>>, <<"WL", 1>>}, mode \in OutputModes}
    \cup {Section(NULL, NULL, "off")}

File(b, sections) == [backend |-> b, outputs |-> sections]

OneFile == File(NULL, <<Section(<<"WL", 1>>, NULL, "size")>>)

AnyFiles == {File(b, s) : b \in {"drm", "wayland"}, s \in UNION {[1 .. n -> MCSections] : n \in 0 .. 2}}
            \cup {File("drm", s) : s \in {t \in [1 .. 3 -> MCSections] :
                      t[1].same_as # NULL /\ t[2].same_as # NULL}}
            \cup {File("other", <<>>)}

MCInputs ==
    [line : LinesUpTo(3), file : {OneFile}]
    \cup [line : LinesUpTo(2), file : {NULL}]
    \cup [line : FewLines, file : AnyFiles]

MCConnectedHeads ==
    {<< <<"HDMI", 1>>, <<"HDMI", 2>>, <<"WL", 1>> >>, << <<"HDMI", 2>>, <<"HDMI", 1>> >>}

=============================================================================
