-------------------------------- MODULE Main --------------------------------
(***************************************************************************)
(* main (src/Main.cpp): the options, the order in which they are looked    *)
(* at, the dispatch and the exit status.                                   *)
(*                                                                         *)
(* A command line is a sequence of options as getopt_long_only resolves    *)
(* them: a flag, one of -p, -f, -fo, -a with its value, a "stray" word     *)
(* that is skipped, or "unknown" (also an option whose value is missing).  *)
(* A problem such as ES-AD-x is the sequence of its words between hyphens. *)
(* A file is what parse_i23 does with it (see Parse).  A query is absent,  *)
(* a word, or a number.                                                    *)
(***************************************************************************)
EXTENDS Integers, Sequences

CONSTANTS
  CommandLines,    \* the sequences of options to consider
  UINT_MODULUS,    \* 2^32
  INT_MAX          \* what std::stoi can return at most

ConversionAssumption == INT_MAX \in Nat /\ UINT_MODULUS = 2 * INT_MAX + 2

Flags == {"version", "help", "formats", "problems"}

NoQuery == [kind |-> "none", n |-> 0]

FileKinds == {"empty", "missing", "broken", "unreadable", "regular"}

Option ==
  [name  : Flags \cup {"p", "f", "fo", "a", "stray", "unknown"},
   task  : Seq(STRING),
   file  : FileKinds,
   query : [kind : {"none", "word", "number"}, n : Int]]

CommandLinesAssumption == CommandLines \subseteq Seq(Option)

VARIABLES
  argv,                  \* the command line; fixed
  optind,                \* the number of options consumed
  flags,                 \* the *_flag variables that are set
  task, file, query,     \* "" is <<>>, "empty" and NoQuery
  stdout,                \* what has been written
  call,                  \* the search that was started, <<>> if none
  pc                     \* "options" .. "search", then how the process ended

vars == <<argv, optind, flags, task, file, query, stdout, call, pc>>

Ends == {"exit 0", "exit 1", "abort", "undefined", "hangs"}

TypeOK ==
  /\ optind \in 0 .. Len(argv)
  /\ flags \subseteq Flags
  /\ task \in Seq(STRING) /\ file \in FileKinds
  /\ query \in [kind : {"none", "word", "number"}, n : Int]
  /\ call = <<>> \/ (Len(call) = 3 /\ call[3] \in 0 .. UINT_MODULUS - 1)
  /\ pc \in {"options", "flags", "parse", "dispatch", "search"} \cup Ends

Init ==
  /\ argv \in CommandLines
  /\ optind = 0 /\ flags = {}
  /\ task = <<>> /\ file = "empty" /\ query = NoQuery
  /\ stdout = <<>> /\ call = <<>>
  /\ pc = "options"

End(how, written) ==
  /\ pc' = how
  /\ stdout' = stdout \o written
  /\ UNCHANGED <<argv, optind, flags, task, file, query, call>>

NoArguments == pc = "options" /\ argv = <<>> /\ End("exit 0", <<"version">>)

(***************************************************************************)
(* One round of the getopt loop.  An unknown option returns at once, before *)
(* any flag that was already seen is looked at.                            *)
(***************************************************************************)
NextOption(names) ==
  /\ pc = "options" /\ optind < Len(argv) /\ argv[optind + 1].name \in names

GetFlag ==
  /\ NextOption(Flags)
  /\ flags' = flags \cup {argv[optind + 1].name}
  /\ optind' = optind + 1
  /\ UNCHANGED <<argv, task, file, query, stdout, call, pc>>

\* Mutant: the first -p, -f and -a win.
GetValue_first ==
  /\ NextOption({"p", "f", "fo", "a", "stray"})
  /\ LET o == argv[optind + 1]
     IN  /\ task' = IF o.name = "p" /\ task = <<>> THEN o.task ELSE task
         /\ file' = IF o.name = "f" /\ file = "empty" THEN o.file ELSE file
         /\ query' = IF o.name = "a" /\ query = NoQuery THEN o.query ELSE query
  /\ optind' = optind + 1
  /\ UNCHANGED <<argv, flags, stdout, call, pc>>

GetValue ==                \* the value of -fo is stored and never read
  /\ NextOption({"p", "f", "fo", "a", "stray"})
  /\ LET o == argv[optind + 1]
     IN  /\ task' = IF o.name = "p" THEN o.task ELSE task
         /\ file' = IF o.name = "f" THEN o.file ELSE file
         /\ query' = IF o.name = "a" THEN o.query ELSE query
  /\ optind' = optind + 1
  /\ UNCHANGED <<argv, flags, stdout, call, pc>>

GetUnknown == NextOption({"unknown"}) /\ End("exit 1", <<>>)

EndOfOptions ==
  /\ pc = "options" /\ argv # <<>> /\ optind = Len(argv)
  /\ pc' = "flags"
  /\ UNCHANGED <<argv, optind, flags, task, file, query, stdout, call>>

\* The flags in the order in which main looks at them; the first one wins.
FlagOrder == <<"version", "help", "formats", "problems">>

PrintFlag ==
  /\ pc = "flags"
  /\ \E i \in DOMAIN FlagOrder :
       /\ FlagOrder[i] \in flags
       /\ \A j \in 1 .. i - 1 : FlagOrder[j] \notin flags
       /\ End("exit 0", <<FlagOrder[i]>>)

MissingValue ==
  /\ pc = "flags" /\ flags = {}
  /\ task = <<>> \/ file = "empty"
  /\ End("exit 1", <<>>)

HaveValues ==
  /\ pc = "flags" /\ flags = {}
  /\ task # <<>> /\ file # "empty"
  /\ pc' = "parse"
  /\ UNCHANGED <<argv, optind, flags, task, file, query, stdout, call>>

\* parse_i23 returns, exits, indexes outside its lists, or never returns.
Parsed ==
  /\ pc = "parse" /\ file = "regular"
  /\ pc' = "dispatch"
  /\ UNCHANGED <<argv, optind, flags, task, file, query, stdout, call>>

ParseFails ==
  /\ pc = "parse" /\ file # "regular"
  /\ End(CASE file = "missing" -> "exit 1"
           [] file = "broken" -> "undefined"
           [] file = "unreadable" -> "hangs", <<>>)

(***************************************************************************)
(* The dispatch.  A problem without a hyphen is its own semantics: find    *)
(* returns npos, npos + 1 is 0, and nothing is erased.                     *)
(***************************************************************************)
string_to_task(problem) == problem[1]

string_to_sem(problem) == IF Len(problem) > 1 THEN problem[2] ELSE problem[1]

Semantics(t) ==
  CASE t = "ES" -> {"AD", "PR", "SA", "GR", "CO", "ST", "UC"}
    [] t = "EE" -> {"IT"}
    [] t = "AS" -> {"AD"}
    [] OTHER -> {}

\* At the least int the subtraction, in int, overflows; builds wrap.
query_argument(n) == (n - 1) % UINT_MODULUS

NotConverted ==      \* std::stoi throws and nothing catches
  query.kind = "word" \/ query.n > INT_MAX \/ query.n < -INT_MAX - 1

\* The query of AS is looked at before its semantics.
QueryFails ==
  /\ pc = "dispatch" /\ string_to_task(task) = "AS"
  /\ \/ query.kind = "none" /\ End("exit 1", <<>>)
     \/ query.kind # "none" /\ NotConverted /\ End("abort", <<>>)

QueryOK == string_to_task(task) = "AS" => query.kind # "none" /\ ~NotConverted

NotSupported ==
  /\ pc = "dispatch" /\ QueryOK
  /\ string_to_sem(task) \notin Semantics(string_to_task(task))
  /\ End("exit 1", <<>>)

Dispatch ==
  /\ pc = "dispatch" /\ QueryOK
  /\ string_to_sem(task) \in Semantics(string_to_task(task))
  /\ call' = <<string_to_task(task), string_to_sem(task),
               IF string_to_task(task) = "AS" THEN query_argument(query.n) ELSE 0>>
  /\ pc' = "search"
  /\ UNCHANGED <<argv, optind, flags, task, file, query, stdout>>

(***************************************************************************)
(* A search prints as it goes; "part" stands for what it has printed when  *)
(* the SAT solver gives up and the wrapper exits.  EE-IT prints only after *)
(* enumerate_initial has returned.                                         *)
(***************************************************************************)
SearchReturns == pc = "search" /\ End("exit 0", <<"answer", "newline">>)

\* Mutant: the exit on an unknown result reports success.
SearchGivesUp_zero == pc = "search" /\ End("exit 0", <<"part">>)

SearchGivesUp ==
  /\ pc = "search"
  /\ \E written \in {<<>>, <<"part">>} :
       /\ call[1] = "EE" => written = <<>>
       /\ End("exit 1", written)

Next ==
  \/ NoArguments \/ GetFlag \/ GetValue \/ GetUnknown \/ EndOfOptions
  \/ PrintFlag \/ MissingValue \/ HaveValues
  \/ Parsed \/ ParseFails
  \/ QueryFails \/ NotSupported \/ Dispatch
  \/ SearchReturns \/ SearchGivesUp

Spec == Init /\ [][Next]_vars

-----------------------------------------------------------------------------
(***************************************************************************)
(* What a command line asks for, read off it as a whole.                   *)
(***************************************************************************)
Has(name) == \E i \in DOMAIN argv : argv[i].name = name

Last(name) ==
  CHOOSE i \in DOMAIN argv :
    argv[i].name = name /\ \A j \in i + 1 .. Len(argv) : argv[j].name # name

Asked ==
  CASE argv = <<>> -> "version"
    [] Has("unknown") -> "nothing"
    [] \E f \in Flags : Has(f) -> FlagOrder[CHOOSE i \in 1 .. 4 :
         Has(FlagOrder[i]) /\ \A j \in 1 .. i - 1 : ~Has(FlagOrder[j])]
    [] OTHER -> "search"

\* The options mean the same in every order (main's loop): an unknown one
\* stops everything, otherwise the first flag of FlagOrder is answered, and
\* otherwise the search is the one that the last -p, -f and -a describe, with
\* the argument that the query names if it names one.
OrderIrrelevant ==
  /\ pc = "exit 0" => Asked # "nothing"
  /\ stdout # <<>> /\ stdout[1] \in Flags => stdout = <<Asked>>
  /\ call # <<>> =>
       /\ Asked = "search"
       /\ call[1] = argv[Last("p")].task[1]
       /\ file = argv[Last("f")].file
       /\ call[1] = "AS" /\ argv[Last("a")].query.n \in 1 .. INT_MAX =>
            call[3] + 1 = argv[Last("a")].query.n

\* A query that names no argument number (0 or a negative number) never
\* reaches an argument of a framework that fits the variable numbering.
WrappedQueryHarmless ==
  call # <<>> /\ call[1] = "AS" /\ query.n <= 0 => call[3] >= INT_MAX

\* A process that reports success has written all of what was asked for, and
\* one that does not has written nothing but a part of a search that the
\* solver broke off: the final newline is the mark of a complete answer.
SuccessMeansAnswer ==
  pc \in Ends =>
    /\ pc = "exit 0" <=> stdout \in {<<f>> : f \in Flags} \cup {<<"answer", "newline">>}
    /\ pc # "exit 0" => stdout = <<>> \/ (stdout = <<"part">> /\ call[1] # "EE")

\* main comes to an end (WF of the single thread) unless the file can be
\* opened but not read.
Ended == pc \in Ends \ {"hangs"} \/ file = "unreadable"
=============================================================================
