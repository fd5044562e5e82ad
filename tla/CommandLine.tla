----------------------------- MODULE CommandLine ----------------------------
(***************************************************************************)
(* The first part of main (main.c): from argv to the tests that are        *)
(* wanted, a command, the help text or a refusal with ARGS_ERROR.          *)
(*                                                                         *)
(* at is "argv" before the first argument has been looked at, "options" in *)
(* the loop over the options, and then what main does next: "tests",       *)
(* "get", "export", "help" or "refused".                                   *)
(***************************************************************************)
EXTENDS Integers, Sequences, FiniteSets, Functions

CONSTANT ArgLists    \* the argument lists tried, without the program's name

Letters    == {"u", "s", "i", "a", "t"}
MsgLetters == {"u", "s", "i"}

(* An argument: what strcmp and its first characters make of it, its       *)
(* letters if it is a stack of flags, and what strtol makes of it ({} if   *)
(* not all of it is a number).  "word" does not begin with a dash; "other" *)
(* does and is no option, like - or --x.                                   *)
Dashed == {"help", "all", "n", "flags", "other"}
Kinds  == Dashed \cup {"get", "export", "word"}
Arg    == [kind : Kinds, letters : Seq(STRING), value : SUBSET Int]

ASSUME ArgsAssumption ==
  /\ ArgLists \subseteq Seq(Arg)
  /\ \A a \in ArgLists : \A i \in DOMAIN a :
       /\ \A x, y \in a[i].value : x = y                             \* strtol's value
       /\ a[i].kind \notin {"flags", "word"} => a[i].value = {}       \* no digits alone

VARIABLES
  argv,
  at,
  idx,                \* into argv
  seen,               \* seen_u .. seen_t, and want_u .. want_t with them
  used_all, used_n,
  n,
  msg                 \* where msg_u, msg_s, msg_i are in argv, 0 for the default

parsed  == <<seen, used_all, used_n, n, msg>>
cliVars == <<argv, at, idx, parsed>>

Counts == 0 .. 255     \* what -n takes

CliTypeOK ==
  /\ argv \in Seq(Arg)
  /\ idx \in 1 .. Len(argv) + 2
  /\ seen \subseteq Letters
  /\ used_all \in BOOLEAN /\ used_n \in BOOLEAN
  /\ n \in Counts
  /\ msg \in [MsgLetters -> 0 .. Len(argv)]

CliInit ==
  /\ argv \in ArgLists /\ at = "argv" /\ idx = 1
  /\ seen = {} /\ used_all = FALSE /\ used_n = FALSE
  /\ n = 1 /\ msg = [x \in MsgLetters |-> 0]

Refuse == at' = "refused" /\ UNCHANGED <<argv, idx, parsed>>

-----------------------------------------------------------------------------
(* argv[1] may be a command.                                               *)
NoArguments == at = "argv" /\ argv = << >> /\ Refuse

FirstArgument ==
  /\ at = "argv" /\ argv # << >>
  /\ at' = IF argv[1].kind \in {"get", "export"} THEN argv[1].kind ELSE "options"
  /\ UNCHANGED <<argv, idx, parsed>>

-----------------------------------------------------------------------------
(* The loop over the options; arg is argv[idx].                            *)
arg == argv[idx]

MessageFollows == idx + 1 <= Len(argv) /\ argv[idx + 1].kind \notin Dashed

Help ==
  /\ at = "options" /\ idx <= Len(argv) /\ arg.kind = "help"
  /\ at' = "help"
  /\ UNCHANGED <<argv, idx, parsed>>

(* The message that follows, if one does, is taken for the letters xs.     *)
ShareMessage(xs) ==
  IF MessageFollows
  THEN msg' = [x \in MsgLetters |-> IF x \in xs THEN idx + 1 ELSE msg[x]] /\ idx' = idx + 2
  ELSE UNCHANGED msg /\ idx' = idx + 1

All ==
  /\ at = "options" /\ idx <= Len(argv) /\ arg.kind = "all"
  /\ \/ used_all /\ Refuse
     \/ /\ ~used_all
        /\ used_all' = TRUE /\ seen' = Letters
        /\ ShareMessage(Letters)
        /\ UNCHANGED <<argv, at, used_n, n>>

IterationCount == argv[idx + 1].value \cap Counts

Iterations ==
  /\ at = "options" /\ idx <= Len(argv) /\ arg.kind = "n"
  /\ IF used_n \/ idx + 1 > Len(argv) THEN Refuse
     ELSE \/ IterationCount = {} /\ Refuse
          \/ /\ n' \in IterationCount
             /\ used_n' = TRUE /\ idx' = idx + 2
             /\ UNCHANGED <<argv, at, seen, used_all, msg>>

(* Every letter is known and none is repeated, in this stack or since.     *)
StackKnown ==                                       \* mutant
  Range(arg.letters) \subseteq Letters /\ IsInjective(arg.letters)
StackOk ==
  /\ Range(arg.letters) \subseteq Letters /\ IsInjective(arg.letters)
  /\ Range(arg.letters) \cap seen = {}

Flags ==
  /\ at = "options" /\ idx <= Len(argv) /\ arg.kind = "flags"
  /\ LET stack == Range(arg.letters) IN
     IF ~StackOk \/ (MessageFollows /\ ~(stack \subseteq MsgLetters)) THEN Refuse
     ELSE /\ seen' = seen \cup stack
          /\ ShareMessage(stack)
          /\ UNCHANGED <<argv, at, used_all, used_n, n>>

UnexpectedToken ==
  /\ at = "options" /\ idx <= Len(argv)
  /\ arg.kind \notin {"help", "all", "n", "flags"}
  /\ Refuse

AllParsed ==
  /\ at = "options" /\ idx > Len(argv)
  /\ IF seen = {} THEN Refuse
     ELSE at' = "tests" /\ UNCHANGED <<argv, idx, parsed>>

ParseStep ==
  \/ NoArguments \/ FirstArgument
  \/ Help \/ All \/ Iterations \/ Flags \/ UnexpectedToken \/ AllParsed

-----------------------------------------------------------------------------
(* The rules of the usage text (FILES_FOR_PC/README.md, Rules and          *)
(* Constraints; the comment at the top of main.c), of a whole list at once.*)

(* Which arguments are values of -n, which are messages, which are options.*)
ValueAt(a)   == {i \in DOMAIN a : i > 1 /\ a[i - 1].kind = "n"}
MessageAt(a) == {i \in DOMAIN a : /\ a[i].kind \notin Dashed
                                  /\ i > 1 /\ a[i - 1].kind \in {"flags", "all"}
                                  /\ i - 1 \notin ValueAt(a)}
OptionAt(a)  == DOMAIN a \ (ValueAt(a) \cup MessageAt(a))

Of(a, kind)  == {i \in OptionAt(a) : a[i].kind = kind}
Named(a, i)  == IF a[i].kind = "all" THEN Letters ELSE Range(a[i].letters)

(* All but "at least one flag".  No letter twice: not in one stack, not in *)
(* two, and not after --all either, which stands for all of them; before   *)
(* --all the program lets it pass.                                         *)
Regular(a) ==
  /\ OptionAt(a) \subseteq Of(a, "flags") \cup Of(a, "all") \cup Of(a, "n")
  /\ Cardinality(Of(a, "all")) <= 1 /\ Cardinality(Of(a, "n")) <= 1
  /\ \A i \in Of(a, "n") : i + 1 \in ValueAt(a) /\ a[i + 1].value \cap Counts # {}
  /\ \A i \in Of(a, "flags") :
       /\ Named(a, i) \subseteq Letters /\ IsInjective(a[i].letters)
       /\ \A j \in Of(a, "flags") \cup Of(a, "all") : j < i => Named(a, i) \cap Named(a, j) = {}
       /\ i + 1 \in MessageAt(a) => Named(a, i) \subseteq MsgLetters

Wanted(a) == UNION {Named(a, i) : i \in Of(a, "flags") \cup Of(a, "all")}

MessagesOf(a, x) == {i \in MessageAt(a) : x \in Named(a, i - 1)} \cup {0}

AsksForHelp(a) ==
  \E h \in Of(a, "help") : Regular(SubSeq(a, 1, h - 1)) /\ \A i \in Of(a, "help") : h <= i

Largest(S) == CHOOSE i \in S : \A j \in S : j <= i

IsCommand(a) == a # << >> /\ a[1].kind \in {"get", "export"}

(* main's loop takes, refuses and understands exactly what the rules say:  *)
(* each test gets the last message that was given to a flag that names it, *)
(* -n may stand anywhere, and -h counts where nothing before it is wrong.  *)
ParsesByTheRules ==
  /\ at = "help" => AsksForHelp(argv)
  /\ at = "refused" /\ ~IsCommand(argv) =>
       ~AsksForHelp(argv) /\ (Regular(argv) => Wanted(argv) = {})
  /\ at = "tests" =>
       /\ Regular(argv) /\ seen = Wanted(argv) /\ seen # {}
       /\ \A x \in MsgLetters : msg[x] = Largest(MessagesOf(argv, x))
       /\ {n} = IF Of(argv, "n") = {} THEN {1} ELSE UNION {argv[i + 1].value : i \in Of(argv, "n")}
=============================================================================
