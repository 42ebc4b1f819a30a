---------------------------- MODULE Configuration ----------------------------
(***************************************************************************)
(* From the command line and the configuration file to configured outputs: *)
(* the stages of main (src/src/main.c) up to the first heads_changed.      *)
(*                                                                         *)
(*   options    parse_options for main, then load_config                   *)
(*   backend    parse_options for the backend, then load the backend       *)
(*   heads      heads_changed finds the output of every head, one          *)
(*              same-as after the other (find_controlling_output_config)   *)
(*   outputs    configure_output for every output that got a head          *)
(*   running    or exited                                                  *)
(*                                                                         *)
(* What libweston does with an output and its heads is in Outputs, whose   *)
(* Controls stands for the result of the stage heads.                      *)
(***************************************************************************)
EXTENDS OutputConfig

CONSTANTS
    Inputs,        \* [line, file]: arguments, and the file's contents or NULL
    ConnectedHeads,\* sequences of heads that a graphics card may have
    MaxNesting,    \* 8: as many same-as are followed, and one more is too deep
    AddLength      \* ARRAY_LENGTH(output->add)

\* What --output-count may be given.
Counts ==
    {1} \cup ({w.number : w \in {v \in Words : v.name \in {"output-count", NULL}}} \ {NULL})

ASSUME ConfigurationAssumption ==
    /\ \A input \in Inputs : /\ input.line \in Seq(Words)
                             /\ input.file \in ConfigFiles \cup {NULL}
    /\ ConnectedHeads \subseteq Seq(Names)
    /\ MaxNesting \in Nat
    /\ AddLength \in Nat \ {0}
    /\ NULL \notin ConfigFiles \cup Sections \cup Names \cup Settings \cup Backends \cup {"other"}
    /\ <<"wlparent", 0>> \in Names
    /\ \A b \in DOMAIN DefaultPrefix : \A n \in Counts : \A k \in 0 .. n - 1 :
          <<DefaultPrefix[b], k>> \in Names

VARIABLES
    stage,
    input,      \* what it was started with, never changed
    config,     \* the contents of ivi->config
    backend,
    api,        \* ivi->drm_api or ivi->window_api, whichever is set
    heads,      \* the heads that heads_changed still has to look at
    same_as, depth,    \* find_controlling_output_config
    outputs     \* ivi->outputs

configVars == <<stage, input, config, backend, api, heads, same_as, depth, outputs>>
vars == <<parseVars, configVars>>

OutputStates ==
    [config : Sections \cup {NULL}, add : Seq(Names), enabled : BOOLEAN,
     settings : Settings \cup {NULL}]

Init ==
    /\ stage = "options"
    /\ input \in Inputs
    /\ ParseInit(input.line)
    /\ config = NoConfig
    /\ backend = NULL
    /\ api = "none"
    /\ heads = <<>> /\ same_as = NULL /\ depth = 0
    /\ outputs = [n \in Names |-> NULL]

-----------------------------------------------------------------------------
Parse == ParseNext /\ UNCHANGED configVars

Parsed(s) == stage = s /\ tables = <<>> /\ fault = "none"

Exit == stage' = "exited"

\* usage exits; --version returns.
HelpOrVersion ==
    /\ Parsed("options")
    /\ Given("help") \/ Given("version")
    /\ Exit
    /\ UNCHANGED <<parseVars, input, config, backend, api, heads, same_as, depth, outputs>>

Loaded == IF Given("no-config") THEN NULL ELSE input.file

MutMustLoad == Given("config")
MustLoad == Given("config") /\ ~Given("no-config")

\* load_config fails and main goes to error_signals, where it destroys a
\* display that is still null.
ConfigFails ==
    /\ Parsed("options")
    /\ ~Given("help") /\ ~Given("version")
    /\ Loaded = NULL /\ MustLoad
    /\ fault' = "wl_display_destroy"
    /\ Exit
    /\ UNCHANGED <<tables, argv, argc, i, j, val, given, origin>>
    /\ UNCHANGED <<input, config, backend, api, heads, same_as, depth, outputs>>

BackendOptions(b) ==
    CASE b = "drm"     -> <<DrmOptions>>
      [] b = "wayland" -> <<WindowedOptions, WaylandOptions>>
      [] b = "x11"     -> <<WindowedOptions, X11Options>>

\* The backend: from the command line, else from the file, else from the
\* environment (choose_default_backend).  What the line or the file names may
\* be none of the three: load_backend fails.
ChooseBackend(cfg) ==
    /\ backend' \in IF ~Given("backend") /\ cfg.backend # NULL THEN {cfg.backend} \cap Backends
                                                                ELSE Backends
    /\ stage' = "backend"
    /\ tables' = BackendOptions(backend')

UnknownBackend(cfg) ==
    /\ Given("backend") \/ cfg.backend = "other"
    /\ Exit
    /\ UNCHANGED <<tables, backend>>

LoadConfig ==
    /\ Parsed("options")
    /\ ~Given("help") /\ ~Given("version")
    /\ ~(Loaded = NULL /\ MustLoad)
    /\ config' = IF Loaded = NULL THEN NoConfig ELSE Loaded
    /\ ChooseBackend(config') \/ UnknownBackend(config')
    /\ UNCHANGED <<argv, argc, i, j, val, fault, given, origin>>
    /\ UNCHANGED <<input, api, heads, same_as, depth, outputs>>

-----------------------------------------------------------------------------
\* find_controlling_output_config starts with the name of the next head.
ReadHeads(names) ==
    /\ heads' = names
    /\ same_as' = IF names = <<>> THEN NULL ELSE Head(names)
    /\ depth' = 0

load_drm_backend ==
    /\ backend = "drm" /\ api' = "drm"
    /\ \E hs \in ConnectedHeads : ReadHeads(hs)

\* With sprawl, or on a fullscreen shell, it has no api and its one output.
load_wayland_backend ==
    /\ backend = "wayland"
    /\ \/ /\ ~Given("sprawl")
          /\ api' = "window" /\ ReadHeads(windowed_create_outputs(config.outputs, "wayland"))
       \/ api' = "none" /\ ReadHeads(<< <<"wlparent", 0>> >>)

load_x11_backend ==
    /\ backend = "x11" /\ api' = "window"
    /\ ReadHeads(windowed_create_outputs(config.outputs, "x11"))

\* Any of them may fail.
LoadBackend ==
    /\ Parsed("backend")
    /\ \/ Exit /\ UNCHANGED <<api, heads, same_as, depth>>
       \/ stage' = "heads" /\ (load_drm_backend \/ load_wayland_backend \/ load_x11_backend)
    /\ UNCHANGED <<parseVars, input, config, backend, outputs>>

ReadingHeads == stage = "heads" /\ heads # <<>>

MutTooDeep == depth > MaxNesting + 1
TooDeep == depth > MaxNesting

MutDeeper == depth
Deeper == depth + 1

FollowSameAs ==
    LET section == SectionNamed(config.outputs, same_as) IN
    /\ ReadingHeads
    /\ section # NULL /\ ~TooDeep /\ section.same_as # NULL
    /\ same_as' = section.same_as
    /\ depth' = Deeper
    /\ UNCHANGED <<parseVars, stage, input, config, backend, api, heads, outputs>>

\* ivi_ensure_output: an output there is keeps its configuration.
ensured(name, section) ==
    IF outputs[name] # NULL THEN outputs[name]
    ELSE [config |-> section, add |-> <<>>, enabled |-> FALSE, settings |-> NULL]

AddHead(output, head) ==
    IF Len(output.add) >= AddLength THEN output
    ELSE [output EXCEPT !.add = Append(@, head)]

MutSkips(section) == FALSE
Skips(section) == section # NULL /\ section.mode = "off"

OutputName(section) == IF section # NULL THEN section.name ELSE Head(heads)

head_prepare_enable ==
    LET found   == SectionNamed(config.outputs, same_as)
        section == IF TooDeep THEN NULL ELSE found
        name    == OutputName(section)
    IN
    /\ ReadingHeads
    /\ section # NULL => section.same_as = NULL
    /\ outputs' = IF Skips(section) THEN outputs
                  ELSE [outputs EXCEPT ![name] = AddHead(ensured(name, section), Head(heads))]
    /\ ReadHeads(Tail(heads))
    /\ UNCHANGED <<parseVars, stage, input, config, backend, api>>

HeadsDone ==
    /\ stage = "heads" /\ heads = <<>>
    /\ stage' = "outputs"
    /\ UNCHANGED <<parseVars, input, config, backend, api, heads, same_as, depth, outputs>>

-----------------------------------------------------------------------------
ToConfigure == {n \in Names : outputs[n] # NULL /\ outputs[n].add # <<>>}

configure_output(section) ==
    CASE api = "drm"    -> drm_configure_output(section)
      [] api = "window" -> windowed_configure_output(section)
      [] api = "none"   -> NULL

\* The assertion of drm_configure_output.
TurnedOff(section) == api = "drm" /\ section # NULL /\ section.mode = "off"

\* process_output: the backend may reject what it is given, or the output.
ConfigureOutput(n) ==
    LET section == outputs[n].config IN
    /\ stage = "outputs" /\ fault = "none"
    /\ n \in ToConfigure
    /\ IF TurnedOff(section)
       THEN fault' = "drm_configure_output" /\ UNCHANGED outputs
       ELSE /\ \E ok \in BOOLEAN :
                  outputs' = [outputs EXCEPT ![n] =
                      [@ EXCEPT !.add = <<>>, !.enabled = ok,
                                !.settings = configure_output(section)]]
            /\ UNCHANGED fault
    /\ UNCHANGED <<tables, argv, argc, i, j, val, given, origin>>
    /\ UNCHANGED <<stage, input, config, backend, api, heads, same_as, depth>>

Run ==
    /\ stage = "outputs" /\ fault = "none" /\ ToConfigure = {}
    /\ stage' = "running"
    /\ UNCHANGED <<parseVars, input, config, backend, api, heads, same_as, depth, outputs>>

Next ==
    \/ Parse
    \/ HelpOrVersion \/ ConfigFails \/ LoadConfig \/ LoadBackend
    \/ FollowSameAs \/ head_prepare_enable \/ HeadsDone
    \/ (\E n \in Names : ConfigureOutput(n)) \/ Run

Spec == Init /\ [][Next]_vars /\ WF_vars(Next)

-----------------------------------------------------------------------------
TypeOK ==
    /\ ParseTypeOK
    /\ stage \in {"options", "backend", "heads", "outputs", "running", "exited"}
    /\ input \in Inputs
    /\ config \in ConfigFiles
    /\ backend \in Backends \cup {NULL}
    /\ api \in {"none", "drm", "window"}
    /\ heads \in Seq(Names)
    /\ same_as \in Names \cup {NULL}
    /\ depth \in 0 .. MaxNesting + 1
    /\ outputs \in [Names -> OutputStates \cup {NULL}]
    /\ fault \in {"none", "handle_option", "long_option_with_arg", "wl_display_destroy",
                  "drm_configure_output"}

(* A plain command line: every option is one word, or one word and a value    *)
(* after it that starts with no dash.                                          *)
NamesOption(line, k) == line[k].dashes > 0 /\ line[k].name # NULL

OneWord(w) ==
    IF w.name \in Flags THEN w.after = "end"
    ELSE Valid(w.name, w.number) /\ IF w.dashes = 2 THEN w.after = "equals" ELSE w.after # "end"

TwoWords(line, k) ==
    /\ line[k].name \notin Flags /\ line[k].after = "end"
    /\ k < Len(line)
    /\ line[k + 1].dashes = 0 /\ Valid(line[k].name, line[k + 1].number)

Plain(line) ==
    \A k \in DOMAIN line : NamesOption(line, k) => OneWord(line[k]) \/ TwoWords(line, k)

LastOf(line, o) ==
    LET K == {k \in DOMAIN line : NamesOption(line, k) /\ line[k].name = o}
    IN  IF K = {} THEN NULL ELSE CHOOSE k \in K : \A l \in K : l <= k

NumberAsked(line, o) ==
    LET k == LastOf(line, o)
    IN  IF k = NULL THEN NULL
        ELSE IF OneWord(line[k]) THEN line[k].number ELSE line[k + 1].number

Understood == CoreOptions \cup UNION {BackendOptions(backend)[k] : k \in DOMAIN BackendOptions(backend)}

\* The places of a plain line that are neither such an option nor its value.
Takes(line, k, options) == NamesOption(line, k) /\ line[k].name \in options

LeftOver(line, options) ==
    {k \in DOMAIN line :
        /\ ~Takes(line, k, options)
        /\ k > 1 => ~(Takes(line, k - 1, options) /\ ~OneWord(line[k - 1]))}

\* A plain command line means what it says after all the passes over it: each
\* option of main and of the backend has the value that was given last, and
\* nothing but the rest is left of argv, in its order (option-parser.c:164-202
\* as main.c:1140, 550, 601, 679 and 732 call it).
PlainLinesExact ==
    stage \in {"heads", "outputs", "running"} /\ Plain(input.line) =>
        LET line == input.line
            left == LeftOver(line, Understood)
        IN
        /\ \A o \in Understood : LET k == LastOf(line, o) IN
              val[o] = IF k = NULL THEN NULL
                       ELSE [word |-> line[k], number |-> NumberAsked(line, o)]
        /\ \A o \in Options \ Understood : val[o] = NULL
        /\ argc = Cardinality(left) + 1
        /\ \A k \in left : argv[Cardinality({l \in left : l <= k})] = line[k]

\* The sections at the end of the same-as of a name: one, or none if a section
\* is missing or they are too many.
Controlling(name) ==
    LET Section(n) == SectionNamed(config.outputs, n)
        Path(p) == /\ p[1] = name
                   /\ \A k \in DOMAIN p : Section(p[k]) # NULL
                   /\ \A k \in DOMAIN p \ {Len(p)} : Section(p[k]).same_as = p[k + 1]
                   /\ Section(p[Len(p)]).same_as = NULL
    IN  {Section(p[Len(p)]) : p \in {q \in UNION {[1 .. l -> Names] : l \in 1 .. MaxNesting + 1} : Path(q)}}

\* A head is put on the output of the section that its same-as lead to, with
\* that section for configuration, or on one of its own without any; and every
\* head of an output agrees on its configuration, which only the first of them
\* sets (main.c:419-488).
HeadsFollowSameAs ==
    \A n \in Names : outputs[n] # NULL =>
        \A k \in DOMAIN outputs[n].add :
            LET head == outputs[n].add[k]
                ends == Controlling(head)
            IN  IF outputs[n].config = NULL THEN ends = {} /\ head = n
                ELSE ends = {outputs[n].config} /\ outputs[n].config.name = n

\* An output with mode=off never gets as far as the assertion that this "should
\* have been handled earlier" (main.c:179-180).
NeverConfiguredOff == fault # "drm_configure_output"

\* Of a plain command line and the file, the command line decides what an output
\* becomes, then the section, then the default; the current mode is asked for
\* only for an output that has a section (main.c:164-309).
ConfiguredAsAsked ==
    LET Asked(o) == NumberAsked(input.line, o)
        First(o, x) == IF Asked(o) \in {NULL, 0} THEN x ELSE Asked(o)
    IN  Plain(input.line) => \A n \in Names :
        outputs[n] # NULL /\ outputs[n].settings # NULL =>
            LET section == outputs[n].config
                is      == outputs[n].settings
                size    == IF section = NULL \/ section.mode # "size" THEN DefaultSize
                           ELSE section.size
                scale   == IF section = NULL THEN 1 ELSE section.scale
            IN  IF api = "window"
                THEN /\ is.size = <<First("width", size[1]), First("height", size[2])>>
                     /\ is.scale = First("scale", scale)
                ELSE /\ is.mode = "current" <=>
                           /\ section # NULL
                           /\ section.mode = "current" \/ LastOf(input.line, "current-mode") # NULL
                     /\ is.mode = "modeline" => section.mode \in {"size", "other"}
                     /\ is.scale = scale

\* What may crash it before it runs: the assertion on a flag that goes on, with
\* any word after it; the value of --sprawl; and a configuration file that was
\* asked for and is not there (option-parser.c:106, main.c:673, main.c:1154).
CrashesOnlyOn ==
    LET line == input.line
        Has(k, o) == NamesOption(line, k) /\ line[k].name = o
    IN
    /\ fault = "long_option_with_arg" =>
          \E k \in 1 .. Len(line) - 1 :
              line[k].dashes = 2 /\ line[k].name \in Flags /\ line[k].after # "end"
    /\ fault = "handle_option" =>
          backend = "wayland" /\ \E k \in DOMAIN line : Has(k, "sprawl")
    /\ fault = "wl_display_destroy" =>
          /\ input.file = NULL
          /\ \E k \in DOMAIN line : Has(k, "config")
          /\ Plain(line) => \A k \in DOMAIN line : ~Has(k, "no-config")

\* "Since long_option() should handle all booleans, we should never reach this"
\* (option-parser.c:103-106).
BooleansAreHandled == fault # "long_option_with_arg"

\* It gets to run, or ends, or crashes, even with same-as that go round
\* (main.c:419-450).
Settles == <>(stage \in {"running", "exited"} \/ fault # "none")

=============================================================================
