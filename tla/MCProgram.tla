----------------------------- MODULE MCProgram -----------------------------
(***************************************************************************)
(* The program around the searches: reading a file and the command line.   *)
(* The initial state chooses one of them and its input.                    *)
(***************************************************************************)
EXTENDS Integers, Sequences, FiniteSets

CONSTANTS
  Parts,       \* the parts of the program to run
  Files,       \* the input files
  Garbage,     \* the values of an uninitialised uint32_t
  CommandLines,
  UINT_MODULUS, INT_MAX

VARIABLES
  part,                        \* the part of the program
  file, pos, n_args, source, target, args, attackers, attacked, active_array, active_bitset, pc,
  argv, optind, flags, task, query, stdout, call

(***************************************************************************)
(* Files of up to three lines in any order, so that headers come late,     *)
(* twice, without a number or not at all, and attack lines lack numbers,   *)
(* have words in their place or name no argument.                          *)
(***************************************************************************)
Word == -1
Tokens == {0, 1, 2, Word}

AllLines ==
  {[kind |-> "skip", tokens |-> <<>>]}
    \cup {[kind |-> "p", tokens |-> t] : t \in {<<>>} \cup {<<n>> : n \in Tokens}}
    \cup {[kind |-> "attack", tokens |-> t] :
            t \in {<<>>} \cup {<<n>> : n \in Tokens} \cup (Tokens \X Tokens)}

AllFiles ==
  {[status |-> "regular", lines |-> l] : l \in UNION {[1 .. k -> AllLines] : k \in 0 .. 3}}
    \cup {[status |-> s, lines |-> <<>>] : s \in {"missing", "unreadable"}}

\* Files in TGF: the arguments by number or by name, a line "#", and the
\* attacks (examples/example1.tgf and examples/example_no_st.tgf).
TgfFile(arguments, attacks) ==
  [status |-> "regular",
   lines  |-> [i \in 1 .. Len(arguments) |->
                 [kind |-> "attack", tokens |-> <<arguments[i]>>]]
              \o <<[kind |-> "skip", tokens |-> <<>>]>>
              \o [i \in 1 .. Len(attacks) |->
                    [kind |-> "attack", tokens |-> attacks[i]]]]

TgfFiles ==
  {TgfFile(<<1, 2, 3>>, <<<<1, 2>>, <<2, 3>>>>),
   TgfFile(<<Word, Word, Word>>, <<<<Word, Word>>, <<Word, Word>>, <<Word, Word>>>>)}

(***************************************************************************)
(* Command lines of up to three options.                                   *)
(***************************************************************************)
NoQuery == [kind |-> "none", n |-> 0]

Option(name) == [name |-> name, task |-> <<>>, file |-> "empty", query |-> NoQuery]

Tasks ==
  {<<>>, <<"ES">>, <<"ES", "AD">>, <<"ES", "UC">>, <<"ES", "IT">>, <<"ES", "AD", "x">>,
   <<"EE", "IT">>, <<"EE", "AD">>, <<"AS", "AD">>, <<"AS", "ST">>, <<"SE", "AD">>}

Queries ==
  {NoQuery, [kind |-> "word", n |-> 0]}
    \cup {[kind |-> "number", n |-> n] : n \in {-1, 0, 2, INT_MAX, INT_MAX + 1}}

Options ==
  {Option(n) : n \in {"version", "help", "formats", "problems", "unknown", "stray", "fo"}}
    \cup {[Option("p") EXCEPT !.task = t] : t \in Tasks}
    \cup {[Option("f") EXCEPT !.file = f] :
            f \in {"empty", "missing", "broken", "unreadable", "regular"}}
    \cup {[Option("a") EXCEPT !.query = q] : q \in Queries}

AllCommandLines == UNION {[1 .. k -> Options] : k \in 0 .. 3}

Parse == INSTANCE Parse
Main == INSTANCE Main

ASSUME ConstantsAssumption == /\ Parse!FilesAssumption /\ Parse!GarbageAssumption
  /\ Main!ConversionAssumption /\ Main!CommandLinesAssumption

\* Variables of the other parts, which stay 0.
ParseOthers == <<argv, optind, flags, task, query, stdout, call>>
MainOthers == <<pos, n_args, source, target, args, attackers, attacked, active_array,
  active_bitset>>

vars == <<part, file, pos, n_args, source, target, args, attackers, attacked, active_array,
  active_bitset, pc, argv, optind, flags, task, query, stdout, call>>

Init ==
 /\ part \in Parts
 /\
  \/ /\ part = "parse" /\ Parse!Init
     /\ argv = 0 /\ optind = 0 /\ flags = 0 /\ task = 0 /\ query = 0 /\ stdout = 0 /\ call = 0
  \/ /\ part = "main" /\ Main!Init
     /\ pos = 0 /\ n_args = 0 /\ source = 0 /\ target = 0 /\ args = 0 /\ attackers = 0
     /\ attacked = 0 /\ active_array = 0 /\ active_bitset = 0

ParseStep == part = "parse" /\ Parse!Next /\ UNCHANGED <<part, ParseOthers>>
MainStep == part = "main" /\ Main!Next /\ UNCHANGED <<part, MainOthers>>

Next == ParseStep \/ MainStep

Spec == Init /\ [][Next]_vars /\ WF_vars(ParseStep) /\ WF_vars(MainStep)

-----------------------------------------------------------------------------
On(name, P) == part = name => P


\* A well-formed file is read without undefined behaviour, and the framework has the
\* stated attacks, each as often as it was stated (parse_i23).
WellFormedExact == On("parse", Parse!WellFormedExact)

\* However broken the attack lines are, with at most one header attackers and attacked mirror
\* each other and array and bitset hold the arguments, and the uninitialised source and
\* target never reach the framework once a header and an attack line were complete
\* (parse_i23).
Mirrored == On("parse", Parse!TypeOK /\ Parse!Mirrored /\ Parse!NoGarbage)

\* The options of main mean the same in every order, and a query that is no argument number
\* wraps round to one that no framework has (main).
OrderIrrelevant == On("main", Main!OrderIrrelevant /\ Main!WrappedQueryHarmless)

\* An exit status of success goes with a complete answer (main).
SuccessMeansAnswer == On("main", Main!TypeOK /\ Main!SuccessMeansAnswer)

\* parse_i23 and main come to an end, unless the file can be opened but not read.
Terminates == <>[](On("parse", Parse!Ended) /\ On("main", Main!Ended))

\* "-fo tgf -f <file in TGF format>" (README.md): a TGF file is read without undefined
\* behaviour.
TgfRead == On("parse", Parse!TgfRead)
=============================================================================
