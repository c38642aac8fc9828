------------------------------- MODULE Parse -------------------------------
(***************************************************************************)
(* parse_i23 (src/Parse.cpp) with AF::set_arguments and AF::add_attack     *)
(* (src/AF.cpp): the loop that reads a file line by line and fills the     *)
(* framework.                                                              *)
(*                                                                         *)
(* A line is a kind and its tokens: kind "skip" is an empty line or one    *)
(* that starts with '#', "p" one that starts with 'p' (tokens are what     *)
(* follows its first two words), "attack" any other.  A token is a number  *)
(* or a Word, which stands for anything that does not start with a digit;  *)
(* "3x" is the number 3 followed by a Word, as the stream reads it.        *)
(***************************************************************************)
EXTENDS Integers, Sequences, FiniteSets

CONSTANTS
  Files,      \* the files to consider: records [status, lines]
  Garbage     \* the values an uninitialised uint32_t may have

Word == -1

Line == [kind : {"skip", "p", "attack"}, tokens : Seq(Nat \cup {Word})]

\* "unreadable" opens but cannot be read, like a directory.
File == [status : {"missing", "unreadable", "regular"}, lines : Seq(Line)]

FilesAssumption == Files \subseteq File

GarbageAssumption == Garbage # {} /\ Garbage \subseteq Nat

VARIABLES
  file,                     \* the file; fixed
  pos,                      \* the number of lines read
  n_args, source, target,   \* the local variables of parse_i23
  args, attackers, attacked,      \* the fields of AF
  active_array, active_bitset,    \* the bitset as the set of its indices
  pc

locals == <<n_args, source, target>>
af == <<args, attackers, attacked>>
active == <<active_array, active_bitset>>
vars == <<file, pos, locals, af, active, pc>>

TypeOK ==
  /\ file \in File
  /\ pos \in 0 .. Len(file.lines)
  /\ {n_args, source, target, args} \subseteq Nat
  /\ attackers \in [0 .. args - 1 -> Seq(Nat)]
  /\ attacked \in [0 .. args - 1 -> Seq(Nat)]
  /\ active_array \in Seq(Nat)
  /\ active_bitset \subseteq Nat
  /\ pc \in {"open", "read", "done", "exit", "undefined"}

NoLists == [a \in {} |-> <<>>]

Init ==
  /\ file \in Files
  /\ pos = 0
  /\ n_args \in Garbage /\ source \in Garbage /\ target \in Garbage
  /\ args = 0 /\ attackers = NoLists /\ attacked = NoLists
  /\ active_array = <<>> /\ active_bitset = {}
  /\ pc = "open"

OpenFails ==              \* "Cannot open input file", exit(1)
  /\ pc = "open" /\ file.status = "missing"
  /\ pc' = "exit"
  /\ UNCHANGED <<file, pos, locals, af, active>>

OpenFile ==
  /\ pc = "open" /\ file.status # "missing"
  /\ pc' = "read"
  /\ UNCHANGED <<file, pos, locals, af, active>>

(***************************************************************************)
(* Extraction of an unsigned number, s >> value: nothing is written once   *)
(* the stream has failed or is at its end, and 0 when there is no number.  *)
(***************************************************************************)
Extract(s, old) ==
  IF ~s.good \/ s.rest = <<>>
  THEN [good |-> FALSE, rest |-> s.rest, value |-> old]
  ELSE IF Head(s.rest) = Word
  THEN [good |-> FALSE, rest |-> s.rest, value |-> 0]
  ELSE [good |-> TRUE, rest |-> Tail(s.rest), value |-> Head(s.rest)]

Stream(tokens) == [good |-> TRUE, rest |-> tokens, value |-> 0]

Reading(kind) ==
  /\ pc = "read" /\ file.status = "regular"
  /\ pos < Len(file.lines)
  /\ file.lines[pos + 1].kind = kind

\* Mutant: the next line is not read.
SkipLine_stays == Reading("skip") /\ UNCHANGED vars

SkipLine ==
  /\ Reading("skip")
  /\ pos' = pos + 1
  /\ UNCHANGED <<file, locals, af, active, pc>>

\* std::vector::resize
Resize(lists, n) ==
  [a \in 0 .. n - 1 |-> IF a \in DOMAIN lists THEN lists[a] ELSE <<>>]

set_arguments(n) ==
  /\ args' = n
  /\ attackers' = Resize(attackers, n)
  /\ attacked' = Resize(attacked, n)

HeaderLine ==
  /\ Reading("p")
  /\ LET n == Extract(Stream(file.lines[pos + 1].tokens), n_args).value
     IN  /\ n_args' = n
         /\ active_bitset' = 0 .. n - 1
         /\ active_array' = active_array \o [i \in 1 .. n |-> i - 1]
         /\ set_arguments(n)
  /\ pos' = pos + 1
  /\ UNCHANGED <<file, source, target, pc>>

\* The two numbers of an attack line as the variables have them afterwards.
Pair(tokens) ==
  LET first == Extract(Stream(tokens), source)
  IN  <<first.value, Extract(first, target).value>>

\* Mutant: only one of the two lists is filled.
add_attack_one_sided(s, t) ==
  /\ attackers' = [attackers EXCEPT ![t] = Append(@, s)]
  /\ UNCHANGED <<args, attacked>>

add_attack(s, t) ==
  /\ attackers' = [attackers EXCEPT ![t] = Append(@, s)]
  /\ attacked' = [attacked EXCEPT ![s] = Append(@, t)]
  /\ UNCHANGED args

\* Mutant: the numbers of the file are used as indices.
Index_one_based(number) == number

\* source-1 in uint32_t; 0 wraps round to an index no vector has.
Index(number) == number - 1

AttackLine ==
  /\ Reading("attack")
  /\ LET p == Pair(file.lines[pos + 1].tokens)
     IN  /\ source' = p[1] /\ target' = p[2]
         /\ Index(p[1]) \in 0 .. args - 1
         /\ Index(p[2]) \in 0 .. args - 1
         /\ add_attack(Index(p[1]), Index(p[2]))
  /\ pos' = pos + 1
  /\ UNCHANGED <<file, n_args, active, pc>>

AttackOutOfRange ==       \* push_back on a list that does not exist
  /\ Reading("attack")
  /\ LET p == Pair(file.lines[pos + 1].tokens)
     IN  ~({Index(p[1]), Index(p[2])} \subseteq 0 .. args - 1)
  /\ pc' = "undefined"
  /\ UNCHANGED <<file, pos, locals, af, active>>

EndOfFile ==
  /\ pc = "read" /\ file.status = "regular"
  /\ pos = Len(file.lines)
  /\ pc' = "done"
  /\ UNCHANGED <<file, pos, locals, af, active>>

ReadFails ==              \* getline fails, eof() stays false: once more
  /\ pc = "read" /\ file.status = "unreadable"
  /\ UNCHANGED vars

Next ==
  \/ OpenFails \/ OpenFile
  \/ SkipLine \/ HeaderLine \/ AttackLine \/ AttackOutOfRange
  \/ EndOfFile \/ ReadFails

Spec == Init /\ [][Next]_vars

-----------------------------------------------------------------------------
LinesOf(kind) == {i \in 1 .. Len(file.lines) : file.lines[i].kind = kind}

(***************************************************************************)
(* The i23 format: one line "p af n", before every attack, and attacks     *)
(* between the arguments 1 .. n.                                           *)
(***************************************************************************)
WellFormed ==
  /\ file.status = "regular"
  /\ \E h \in LinesOf("p") :
       LET n == file.lines[h].tokens[1]
       IN  /\ LinesOf("p") = {h}
           /\ Len(file.lines[h].tokens) = 1 /\ n # Word
           /\ \A i \in LinesOf("attack") :
                /\ i > h
                /\ Len(file.lines[i].tokens) = 2
                /\ {file.lines[i].tokens[1], file.lines[i].tokens[2]} \subseteq 1 .. n

\* How often x is in the sequence s.
Count(s, x) == Cardinality({i \in 1 .. Len(s) : s[i] = x})

\* How many of the lines read so far say that b attacks a.
Stated(b, a) ==
  Cardinality({i \in LinesOf("attack") :
                 i <= pos /\ file.lines[i].tokens = <<b + 1, a + 1>>})

(***************************************************************************)
(* A well-formed file is read without undefined behaviour, and at every    *)
(* line the framework holds the attacks stated so far and no other, each   *)
(* as often as it was stated; at the end every argument is active, once.   *)
(***************************************************************************)
WellFormedExact ==
  WellFormed =>
    /\ pc \notin {"exit", "undefined"}
    /\ \A a, b \in 0 .. args - 1 : Count(attackers[a], b) = Stated(b, a)
    /\ pc = "done" =>
         /\ active_array = [i \in 1 .. args |-> i - 1]
         /\ active_bitset = 0 .. args - 1

(***************************************************************************)
(* With at most one header, however broken the attack lines are: the two   *)
(* adjacency lists mirror each other, hold arguments only, and array and   *)
(* bitset describe the arguments of the framework.                         *)
(***************************************************************************)
Mirrored ==
  Cardinality(LinesOf("p")) <= 1 =>
    /\ \A a \in 0 .. args - 1 :
         \A i \in 1 .. Len(attackers[a]) : attackers[a][i] \in 0 .. args - 1
    /\ \A a, b \in 0 .. args - 1 : Count(attackers[a], b) = Count(attacked[b], a)
    /\ active_bitset = 0 .. args - 1
    /\ active_array = [i \in 1 .. args |-> i - 1]

\* The first header and the first attack line give the numbers they should.
StartsComplete ==
  /\ \A h \in LinesOf("p") : file.lines[h].tokens # <<>>
  /\ \A i \in LinesOf("attack") :
       (\A j \in LinesOf("attack") : i <= j) => Len(file.lines[i].tokens) >= 2

(***************************************************************************)
(* The uninitialised variables never reach the framework once a header and *)
(* an attack line were complete: whatever later lines lack, the source of  *)
(* a stored attack is the first number of some line read and its target    *)
(* the second number of some line read.                                    *)
(***************************************************************************)
NoGarbage ==
  StartsComplete =>
    \A a, b \in 0 .. args - 1 : Count(attackers[a], b) > 0 =>
      \E i, j \in LinesOf("attack") :
        /\ i <= pos /\ Len(file.lines[i].tokens) >= 1 /\ file.lines[i].tokens[1] = b + 1
        /\ j <= pos /\ Len(file.lines[j].tokens) >= 2 /\ file.lines[j].tokens[2] = a + 1

(***************************************************************************)
(* The loop ends unless the file opens but cannot be read, in which case   *)
(* eof() never becomes true.                                               *)
(***************************************************************************)
Ended == pc \in {"done", "exit", "undefined"} \/ file.status = "unreadable"

(***************************************************************************)
(* "./serial-solver -p ES-PR -fo tgf -f <file in TGF format>" (README.md): *)
(* a TGF file (one line per argument, "#", one line per attack) is read    *)
(* without undefined behaviour.                                            *)
(***************************************************************************)
TgfRead == pc # "undefined"
=============================================================================
