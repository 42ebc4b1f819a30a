----------------------------- MODULE OutputConfig -----------------------------
(***************************************************************************)
(* What src/src/main.c makes of the [output] sections of the configuration *)
(* file and of the command line for one output: which section is meant     *)
(* (weston_config_get_section), and the mode, size, scale and transform it *)
(* is configured with (configure_output and what it calls).                *)
(*                                                                         *)
(* The mode of a section is one of the words the code compares it with,    *)
(* "size" for a string that reads as WxH, or "other".  The name of a head  *)
(* is a prefix and a number, as windowed_create_outputs matches and builds *)
(* it.                                                                     *)
(***************************************************************************)
EXTENDS OptionParser, FiniteSets

CONSTANT Names

Backends    == {"drm", "wayland", "x11"}
OutputModes == {NULL, "off", "current", "preferred", "size", "other"}
Transforms  == {"normal", "90", "180", "270",
                "flipped", "flipped-90", "flipped-180", "flipped-270"}
DefaultSize == <<1024, 768>>

Sections ==
    [name : Names \cup {NULL}, same_as : Names \cup {NULL}, mode : OutputModes,
     size : Int \X Int, scale : Int, transform : Transforms \cup {"invalid"}]

ConfigFiles == [backend : Backends \cup {"other", NULL}, outputs : Seq(Sections)]

NoConfig == [backend |-> NULL, outputs |-> <<>>]

Settings ==
    [mode : {NULL, "current", "preferred", "modeline"}, size : (Int \X Int) \cup {NULL},
     scale : Int, transform : Transforms]

\* weston_config_get_section: the first section of that name.
SectionNamed(sections, name) ==
    LET named == {k \in DOMAIN sections : sections[k].name = name}
    IN  IF named = {} THEN NULL
        ELSE sections[CHOOSE k \in named : \A l \in named : k <= l]

-----------------------------------------------------------------------------
Given(o) == val[o] # NULL

\* A number of ivi->cmdline: zero unless it was given.
Cmdline(o) == IF Given(o) THEN val[o].number ELSE 0

MutOverride(o, configured) == IF configured # 0 THEN configured ELSE Cmdline(o)
Override(o, configured) == IF Cmdline(o) # 0 THEN Cmdline(o) ELSE configured

Scale(section) == IF section = NULL THEN 1 ELSE section.scale

parse_transform(section) ==
    IF section # NULL /\ section.transform \in Transforms THEN section.transform ELSE "normal"

drm_mode(section) ==
    IF section = NULL THEN "preferred"
    ELSE IF Given("current-mode") \/ section.mode = "current" THEN "current"
    ELSE IF section.mode \in {NULL, "preferred"} THEN "preferred"
    ELSE "modeline"

windowed_size(section) ==
    LET size == IF section # NULL /\ section.mode = "size" THEN section.size ELSE DefaultSize
    IN  <<Override("width", size[1]), Override("height", size[2])>>

drm_configure_output(section) ==
    [mode |-> drm_mode(section), size |-> NULL,
     scale |-> Scale(section), transform |-> parse_transform(section)]

windowed_configure_output(section) ==
    [mode |-> NULL, size |-> windowed_size(section),
     scale |-> Override("scale", Scale(section)), transform |-> parse_transform(section)]

-----------------------------------------------------------------------------
\* windowed_create_outputs: the names of the heads it creates.
OutputPrefix  == [wayland |-> "WL", x11 |-> "X"]
DefaultPrefix == [wayland |-> "wayland", x11 |-> "screen"]

OutputCount == IF Given("output-count") THEN val["output-count"].number ELSE 1

Matching(sections, backend) ==
    {k \in DOMAIN sections :
        sections[k].name # NULL /\ sections[k].name[1] = OutputPrefix[backend]}

windowed_create_outputs(sections, backend) ==
    LET matching == Matching(sections, backend)
        Turn(m)  == Cardinality({l \in matching : l <= m})
    IN  [n \in 1 .. OutputCount |->
            IF \E m \in matching : Turn(m) = n
            THEN sections[CHOOSE m \in matching : Turn(m) = n].name
            ELSE <<DefaultPrefix[backend], n - 1>>]

=============================================================================
