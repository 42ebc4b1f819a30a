----------------------------- MODULE OptionParser -----------------------------
(***************************************************************************)
(* src/shared/option-parser.c: parse_options, which main and the backends  *)
(* call one after the other, each with a table of its own, on the argument *)
(* vector that the last call has left.  A step is one turn of its loop.    *)
(*                                                                         *)
(* What matters of a word is how many dashes it starts with, the option    *)
(* whose name (or, after one dash, letter) comes next, what comes after    *)
(* that, and the number its value is, if it is one.  In the tables of main *)
(* no name is a prefix of another and no letter is used twice, so there is *)
(* one such option at most, and it does not matter where in the table.     *)
(***************************************************************************)
EXTENDS Integers, Sequences

CONSTANTS NULL, Words

CoreOptions     == {"backend", "socket", "log", "help", "version", "no-config", "config", "debug"}
WindowedOptions == {"width", "height", "scale", "use-pixman", "fullscreen", "output-count"}
WaylandOptions  == {"display", "sprawl"}
X11Options      == {"no-input"}
DrmOptions      == {"seat", "tty", "drm-device", "current-mode", "use-pixman"}

Options == CoreOptions \cup WindowedOptions \cup WaylandOptions \cup X11Options \cup DrmOptions

Flags == {"help", "version", "no-config", "debug", "use-pixman", "fullscreen", "no-input",
          "current-mode"}
Numbers == {"width", "height", "scale", "output-count", "tty"}
Letters == {"backend", "socket", "help", "config"}

\* number: of the value within the word, if the word names an option, else of
\* the word itself.
WordShapes ==
    [dashes : 0 .. 2, name : Options \cup {NULL}, after : {"end", "equals", "more"},
     number : Int \cup {NULL}]

ASSUME WordsAssumption ==
    /\ NULL \notin Options \cup Int
    /\ Words \subseteq WordShapes
    /\ \A w \in Words : /\ w.dashes = 0 => w.name = NULL
                        /\ w.dashes = 1 => w.name \in Letters \cup {NULL}
    /\ NULL \notin Words \cup [word : Words, number : Int \cup {NULL}]

VARIABLES
    tables,    \* the calls of parse_options still to come, the current one first
    argv,      \* from argv[1] on, with the null pointer that ends it
    argc,
    i, j,
    val,       \* where each option's value comes from, or NULL: not given
    fault,     \* the C function that failed, or "none"
    given,     \* history: argv when the current call began,
    origin     \* and where each word that was kept stood in it

parseVars == <<tables, argv, argc, i, j, val, fault, given, origin>>

\* line: the arguments, without the name of the program.
ParseInit(line) ==
    /\ tables = <<CoreOptions>>
    /\ given = Append(line, NULL)
    /\ argv = given
    /\ argc = Len(given)
    /\ i = 1 /\ j = 1
    /\ val = [o \in Options |-> NULL]
    /\ fault = "none"
    /\ origin = <<>>

-----------------------------------------------------------------------------
\* long_option and short_option: the word is an option with all it needs.

IsNamed(w) == w.dashes > 0 /\ w.name \in Head(tables)

\* handle_option: a string takes any value.
Valid(o, number) == o \in Numbers => number # NULL

long_option(w) ==
    /\ IsNamed(w) /\ w.dashes = 2
    /\ IF w.name \in Flags THEN w.after = "end"
       ELSE w.after = "equals" /\ Valid(w.name, w.number)

short_option(w) ==
    /\ IsNamed(w) /\ w.dashes = 1
    /\ IF w.name \in Flags THEN w.after = "end"
       ELSE w.after # "end" /\ Valid(w.name, w.number)

Complete(w) == long_option(w) \/ short_option(w)

\* long_option_with_arg and short_option_with_arg: its value is the next word.

\* A word that names an option is no number.
NumberOf(w) == IF w.name = NULL THEN w.number ELSE NULL

TakesNext(w) ==
    /\ IsNamed(w) /\ ~Complete(w)
    /\ i + 1 < argc
    /\ w.name \notin Flags
    /\ Valid(w.name, NumberOf(argv[i + 1]))

\* Only a long flag that goes on gets as far as the assertion.
MisreadFlag(w) ==
    /\ IsNamed(w) /\ ~Complete(w)
    /\ i + 1 < argc
    /\ w.name \in Flags /\ w.dashes = 2

Store(o, word, number) == val' = [val EXCEPT ![o] = [word |-> word, number |-> number]]

-----------------------------------------------------------------------------
Reading == fault = "none" /\ tables # <<>> /\ i < argc

MutKeep ==
    /\ argv' = [argv EXCEPT ![j] = argv[i]]
    /\ i' = i + 1
    /\ origin' = Append(origin, i)
    /\ UNCHANGED <<j, val, fault>>

Keep ==
    /\ argv' = [argv EXCEPT ![j] = argv[i]]
    /\ j' = j + 1
    /\ i' = i + 1
    /\ origin' = Append(origin, i)
    /\ UNCHANGED <<val, fault>>

\* The option "sprawl" is declared as a string and stored into an int: the
\* pointer to its value runs over what is next to it, which ends the process or
\* changes a variable, output_count say, that is not read with sprawl.
MayOverrun(o) == o = "sprawl"

Use(w, number, words) ==
    /\ Store(w.name, w, number)
    /\ i' = i + words
    /\ fault' \in {"none"} \cup (IF MayOverrun(w.name) THEN {"handle_option"} ELSE {})
    /\ UNCHANGED <<argv, j, origin>>

MutUseOne(w) == Use(w, NumberOf(argv[i + 1]), 1)
UseNext(w) == Use(w, NumberOf(argv[i + 1]), 2)

ParseWord ==
    LET w == argv[i] IN
    /\ Reading
    /\ \/ Complete(w) /\ Use(w, w.number, 1)
       \/ TakesNext(w) /\ UseNext(w)
       \/ /\ MisreadFlag(w)
          /\ fault' = "long_option_with_arg"
          /\ UNCHANGED <<argv, i, j, val, origin>>
       \/ ~Complete(w) /\ ~TakesNext(w) /\ ~MisreadFlag(w) /\ Keep
    /\ UNCHANGED <<tables, argc, given>>

\* The end of the loop.  The next call starts on what was kept.
MutShorten == argc' = j - 1
Shorten == argc' = j

ParseEnd ==
    /\ fault = "none" /\ tables # <<>> /\ i >= argc
    /\ argv' = [argv EXCEPT ![j] = NULL]
    /\ Shorten
    /\ given' = argv'
    /\ origin' = <<>>
    /\ i' = 1 /\ j' = 1
    /\ tables' = Tail(tables)
    /\ UNCHANGED <<val, fault>>

ParseNext == ParseWord \/ ParseEnd

-----------------------------------------------------------------------------
ParseTypeOK ==
    /\ tables \in Seq(SUBSET Options)
    /\ argv \in Seq(Words \cup {NULL})
    /\ argc \in 1 .. Len(argv) /\ i \in 1 .. argc /\ j \in 1 .. argc
    /\ val \in [Options -> [word : Words, number : Int \cup {NULL}] \cup {NULL}]
    /\ given \in Seq(Words \cup {NULL}) /\ Len(given) = Len(argv)
    /\ origin \in Seq(Nat)

\* argv is compacted in place while it is read: what is still to be read is as
\* it was, and the words that were kept are there once each and in their order
\* (option-parser.c:169-199).
CompactsInPlace ==
    /\ j <= i
    /\ \A k \in i .. argc - 1 : argv[k] = given[k]
    /\ Len(origin) = j - 1
    /\ \A k \in 1 .. j - 1 :
          /\ origin[k] \in 1 .. i - 1
          /\ argv[k] = given[origin[k]]
          /\ k > 1 => origin[k - 1] < origin[k]

=============================================================================
