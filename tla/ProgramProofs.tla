--------------------------- MODULE ProgramProofs ---------------------------
(***************************************************************************)
(* Proofs about the program around the searches: parse_i23 for every file, *)
(* however long and however broken, and whatever the uninitialised         *)
(* variables hold, and main for every command line of any length and every *)
(* width of int.                                                           *)
(***************************************************************************)
EXTENDS MCProgram, FiniteSetTheorems, SequenceTheorems, TLAPS

-----------------------------------------------------------------------------
(* The parser (src/Parse.cpp).                                             *)

HeaderRead == \E h \in Parse!LinesOf("p") : h <= pos

\* v is the first, the second number of some attack line that was read.
SourceRead(v) ==
  \E i \in Parse!LinesOf("attack") :
    i <= pos /\ Len(file.lines[i].tokens) >= 1 /\ file.lines[i].tokens[1] = v

TargetRead(v) ==
  \E i \in Parse!LinesOf("attack") :
    i <= pos /\ Len(file.lines[i].tokens) >= 2 /\ file.lines[i].tokens[2] = v

\* Nothing is known before the header; a second one would find more.
Untouched ==
  ~HeaderRead => args = 0 /\ active_array = <<>> /\ active_bitset = {}

\* A well-formed file: the header counts, and so far all is as stated.
AsStated ==
  Parse!WellFormed =>
    /\ pc \notin {"exit", "undefined"}
    /\ \A h \in Parse!LinesOf("p") : h <= pos => args = file.lines[h].tokens[1]
    /\ \A a, b \in 0 .. args - 1 : Parse!Count(attackers[a], b) = Parse!Stated(b, a)

\* The members of all lists, those of lists that a smaller header has cut off
\* included, and the variables that the next line may fall back on.
FromLines ==
  Parse!StartsComplete =>
    /\ (\E i \in Parse!LinesOf("attack") : i <= pos) => SourceRead(source) /\ TargetRead(target)
    /\ \A a \in 0 .. args - 1 : \A k \in 1 .. Len(attackers[a]) :
         SourceRead(attackers[a][k] + 1) /\ TargetRead(a + 1)

ParseInv == Parse!TypeOK /\ Untouched /\ Parse!Mirrored /\ AsStated /\ FromLines

-----------------------------------------------------------------------------
(***************************************************************************)
(* The parser counts as everyone does.                                     *)
(***************************************************************************)
LEMMA SameCardinality == \A S : Parse!Cardinality(S) = Cardinality(S)
BY DEF Parse!Cardinality, Cardinality, Parse!IsFiniteSet, IsFiniteSet

(***************************************************************************)
(* One more element counts once.                                           *)
(***************************************************************************)
LEMMA CountAppend ==
  ASSUME NEW s \in Seq(Nat), NEW e \in Nat, NEW x \in Nat
  PROVE  Parse!Count(Append(s, e), x) = Parse!Count(s, x) + (IF e = x THEN 1 ELSE 0)
<1> DEFINE S == {i \in 1 .. Len(s) : s[i] = x}
           A == {i \in 1 .. Len(Append(s, e)) : Append(s, e)[i] = x}
<1>1. Len(s) \in Nat /\ Len(Append(s, e)) = Len(s) + 1
  OBVIOUS
<1>2. \A i \in 1 .. Len(s) : Append(s, e)[i] = s[i]
  OBVIOUS
<1>3. Append(s, e)[Len(s) + 1] = e
  OBVIOUS
<1>4. A = IF e = x THEN S \cup {Len(s) + 1} ELSE S
  <2>1. \A i : i \in A <=> i \in S \/ (i = Len(s) + 1 /\ e = x)
    BY <1>1, <1>2, <1>3
  <2>2. QED
    BY <2>1
<1>5. IsFiniteSet(S) /\ Len(s) + 1 \notin S
  <2>1. S \in SUBSET (1 .. Len(s)) /\ IsFiniteSet(1 .. Len(s))
    BY <1>1, FS_Interval
  <2>2. QED
    BY <1>1, <2>1, FS_Subset
<1>6. Cardinality(S) \in Nat /\ Cardinality(S \cup {Len(s) + 1}) = Cardinality(S) + 1
  <2> HIDE DEF S
  <2>1. QED
    BY <1>5, FS_AddElement, FS_CardinalityType
<1>7. Parse!Count(s, x) = Cardinality(S) /\ Parse!Count(Append(s, e), x) = Cardinality(A)
  BY SameCardinality DEF Parse!Count
<1>8. QED
  <2> HIDE DEF S, A
  <2>1. CASE e = x
    BY <2>1, <1>4, <1>6, <1>7
  <2>2. CASE e # x
    BY <2>2, <1>4, <1>6, <1>7
  <2>3. QED
    BY <2>1, <2>2

(***************************************************************************)
(* Append adds one element behind the others.                              *)
(***************************************************************************)
LEMMA AppendIs ==
  ASSUME NEW s \in Seq(Nat), NEW e \in Nat
  PROVE  /\ Len(Append(s, e)) = Len(s) + 1
         /\ \A i \in 1 .. Len(s) + 1 :
              Append(s, e)[i] = IF i <= Len(s) THEN s[i] ELSE e
OBVIOUS

(***************************************************************************)
(* Count is a number.                                                      *)
(***************************************************************************)
LEMMA CountType ==
  ASSUME NEW s \in Seq(Nat), NEW x
  PROVE  Parse!Count(s, x) \in Nat
<1>1. Len(s) \in Nat /\ {i \in 1 .. Len(s) : s[i] = x} \in SUBSET (1 .. Len(s))
  OBVIOUS
<1>2. IsFiniteSet({i \in 1 .. Len(s) : s[i] = x})
  <2>1. IsFiniteSet(1 .. Len(s))
    BY <1>1, FS_Interval
  <2>2. QED
    BY <1>1, <2>1, FS_Subset
<1>3. QED
  BY <1>2, FS_CardinalityType, SameCardinality DEF Parse!Count

(***************************************************************************)
(* Nothing counts in an empty list.                                        *)
(***************************************************************************)
LEMMA CountEmpty == \A x : Parse!Count(<<>>, x) = 0
<1>1. \A x : {i \in 1 .. Len(<<>>) : <<>>[i] = x} = {}
  OBVIOUS
<1>2. QED
  BY <1>1, FS_EmptySet, SameCardinality DEF Parse!Count

(***************************************************************************)
(* What counts is in the list.                                             *)
(***************************************************************************)
LEMMA CountPositive ==
  ASSUME NEW s, NEW x, Parse!Count(s, x) > 0
  PROVE  \E i \in 1 .. Len(s) : s[i] = x
<1>1. SUFFICES ASSUME {i \in 1 .. Len(s) : s[i] = x} = {} PROVE FALSE
  OBVIOUS
<1>2. Parse!Count(s, x) = 0
  BY <1>1, FS_EmptySet, SameCardinality DEF Parse!Count
<1>3. QED
  BY <1>2

(***************************************************************************)
(* The lines of a kind are lines of the file, finitely many.               *)
(***************************************************************************)
LEMMA LinesAreLines ==
  ASSUME Parse!TypeOK, NEW kind
  PROVE  /\ IsFiniteSet(Parse!LinesOf(kind))
         /\ Len(file.lines) \in Nat
         /\ \A i \in Parse!LinesOf(kind) : /\ i \in 1 .. Len(file.lines)
                                     /\ file.lines[i] \in Parse!Line
                                     /\ file.lines[i].kind = kind
                                     /\ file.lines[i].tokens \in Seq(Nat \cup {Parse!Word})
<1>1. file.lines \in Seq(Parse!Line) /\ Len(file.lines) \in Nat
  BY DEF Parse!TypeOK, Parse!File
<1>2. Parse!LinesOf(kind) \in SUBSET (1 .. Len(file.lines)) /\ IsFiniteSet(1 .. Len(file.lines))
  BY <1>1, FS_Interval DEF Parse!LinesOf
<1>3. \A i \in 1 .. Len(file.lines) : file.lines[i] \in Parse!Line
  BY <1>1
<1>4. QED
  BY <1>1, <1>2, <1>3, FS_Subset DEF Parse!LinesOf, Parse!Line

(***************************************************************************)
(* "At most one header" as the step that reads one needs it.               *)
(***************************************************************************)
LEMMA OneHeader ==
  ASSUME Parse!TypeOK, Cardinality(Parse!LinesOf("p")) <= 1,
         NEW h \in Parse!LinesOf("p"), NEW k \in Parse!LinesOf("p")
  PROVE  h = k
<1>1. SUFFICES ASSUME h # k PROVE FALSE
  OBVIOUS
<1>2. IsFiniteSet({h}) /\ Cardinality({h}) = 1
  BY FS_Singleton
<1>3. Cardinality({h} \cup {k}) = 2
  BY <1>1, <1>2, FS_AddElement
<1>4. {h} \cup {k} \in SUBSET Parse!LinesOf("p") /\ IsFiniteSet(Parse!LinesOf("p"))
  BY LinesAreLines
<1>5. Cardinality({h} \cup {k}) <= Cardinality(Parse!LinesOf("p")) /\ Cardinality(Parse!LinesOf("p")) \in Nat
  BY <1>4, FS_Subset, FS_CardinalityType
<1>6. QED
  BY <1>3, <1>5

(***************************************************************************)
(* What s >> n_args leaves in n_args (Parse.cpp, the header).              *)
(***************************************************************************)
LEMMA HeaderIs ==
  ASSUME NEW tokens \in Seq(Nat \cup {Parse!Word}), NEW old \in Nat
  PROVE  /\ Parse!Extract(Parse!Stream(tokens), old).value \in Nat
         /\ Len(tokens) = 1 /\ tokens[1] # Parse!Word =>
              Parse!Extract(Parse!Stream(tokens), old).value = tokens[1]
<1>1. Parse!Extract(Parse!Stream(tokens), old).value =
        IF tokens = <<>> THEN old ELSE IF Head(tokens) = Parse!Word THEN 0 ELSE Head(tokens)
  BY DEF Parse!Extract, Parse!Stream
<1>2. tokens # <<>> => Head(tokens) \in Nat \cup {Parse!Word} /\ Head(tokens) = tokens[1]
  OBVIOUS
<1>3. Len(tokens) = 1 => tokens # <<>>
  OBVIOUS
<1>4. QED
  BY <1>1, <1>2, <1>3 DEF Parse!Word

(***************************************************************************)
(* What s >> source >> target leaves in the two (Parse.cpp, an attack): a  *)
(* number that is missing is the one of an earlier line, a word is 0.      *)
(***************************************************************************)
LEMMA PairIs ==
  ASSUME NEW tokens \in Seq(Nat \cup {Parse!Word}), source \in Nat, target \in Nat
  PROVE  /\ Parse!Pair(tokens)[1] = IF tokens = <<>> THEN source
                              ELSE IF tokens[1] = Parse!Word THEN 0 ELSE tokens[1]
         /\ Parse!Pair(tokens)[2] = IF Len(tokens) < 2 \/ tokens[1] = Parse!Word THEN target
                              ELSE IF tokens[2] = Parse!Word THEN 0 ELSE tokens[2]
         /\ Parse!Pair(tokens)[1] \in Nat /\ Parse!Pair(tokens)[2] \in Nat
<1> DEFINE first == Parse!Extract(Parse!Stream(tokens), source)
<1>1. CASE tokens = <<>>
  <2>1. first = [good |-> FALSE, rest |-> tokens, value |-> source]
    BY <1>1 DEF Parse!Extract, Parse!Stream
  <2>2. Parse!Extract(first, target).value = target
    BY <2>1 DEF Parse!Extract
  <2>3. Parse!Pair(tokens) = <<source, target>>
    BY <2>1, <2>2 DEF Parse!Pair
  <2>4. QED
    BY <1>1, <2>3
<1>2. CASE tokens # <<>> /\ tokens[1] = Parse!Word
  <2>1. Head(tokens) = Parse!Word
    BY <1>2
  <2>2. first = [good |-> FALSE, rest |-> tokens, value |-> 0]
    BY <1>2, <2>1 DEF Parse!Extract, Parse!Stream
  <2>3. Parse!Extract(first, target).value = target
    BY <2>2 DEF Parse!Extract
  <2>4. Parse!Pair(tokens) = <<0, target>>
    BY <2>2, <2>3 DEF Parse!Pair
  <2>5. QED
    BY <1>2, <2>4
<1>3. CASE tokens # <<>> /\ tokens[1] # Parse!Word
  <2>1. Head(tokens) = tokens[1] /\ tokens[1] \in Nat
    BY <1>3 DEF Parse!Word
  <2>2. first = [good |-> TRUE, rest |-> Tail(tokens), value |-> tokens[1]]
    BY <1>3, <2>1 DEF Parse!Extract, Parse!Stream
  <2>3. Parse!Pair(tokens)[1] = tokens[1] /\ Parse!Pair(tokens)[2] = Parse!Extract(first, target).value
    BY <2>2 DEF Parse!Pair
  <2>4. Parse!Extract(first, target).value =
          IF Tail(tokens) = <<>> THEN target
          ELSE IF Head(Tail(tokens)) = Parse!Word THEN 0 ELSE Head(Tail(tokens))
    BY <2>2 DEF Parse!Extract
  <2>5. /\ Tail(tokens) = <<>> <=> Len(tokens) < 2
        /\ Len(tokens) >= 2 => Head(Tail(tokens)) = tokens[2] /\ tokens[2] \in Nat \cup {Parse!Word}
    <3>1. /\ Tail(tokens) \in Seq(Nat \cup {Parse!Word}) /\ Len(Tail(tokens)) = Len(tokens) - 1
          /\ \A i \in 1 .. Len(tokens) - 1 : Tail(tokens)[i] = tokens[i + 1]
      BY <1>3, HeadTailProperties
    <3>2. Tail(tokens) = <<>> <=> Len(Tail(tokens)) = 0
      BY <3>1, EmptySeq
    <3>3. Len(tokens) \in Nat \ {0}
      BY <1>3, EmptySeq
    <3>4. Len(tokens) >= 2 => Head(Tail(tokens)) = Tail(tokens)[1] /\ Tail(tokens)[1] = tokens[2]
      BY <3>1, <3>3
    <3>5. QED
      BY <3>1, <3>2, <3>3, <3>4
  <2>6. CASE Len(tokens) < 2
    BY <1>3, <2>1, <2>3, <2>4, <2>5, <2>6
  <2>7. CASE Len(tokens) >= 2
    <3>1. Parse!Pair(tokens)[2] = IF tokens[2] = Parse!Word THEN 0 ELSE tokens[2]
      BY <2>3, <2>4, <2>5, <2>7
    <3>2. Parse!Pair(tokens)[2] \in Nat
      BY <3>1, <2>5, <2>7
    <3>3. QED
      BY <1>3, <2>1, <2>3, <2>7, <3>1, <3>2
  <2>8. QED
    BY <2>6, <2>7
<1>4. QED
  BY <1>1, <1>2, <1>3

(***************************************************************************)
(* What the well-formedness of a file says of its lines.                   *)
(***************************************************************************)
LEMMA WellFormedIs ==
  ASSUME Parse!TypeOK, Parse!WellFormed
  PROVE  /\ file.status = "regular"
         /\ Cardinality(Parse!LinesOf("p")) <= 1
         /\ \E h \in Parse!LinesOf("p") :
              /\ Parse!LinesOf("p") = {h}
              /\ Len(file.lines[h].tokens) = 1 /\ file.lines[h].tokens[1] # Parse!Word
              /\ \A i \in Parse!LinesOf("attack") :
                   /\ i > h
                   /\ Len(file.lines[i].tokens) = 2
                   /\ file.lines[i].tokens[1] \in 1 .. file.lines[h].tokens[1]
                   /\ file.lines[i].tokens[2] \in 1 .. file.lines[h].tokens[1]
<1>1. PICK h \in Parse!LinesOf("p") :
        /\ Parse!LinesOf("p") = {h}
        /\ Len(file.lines[h].tokens) = 1 /\ file.lines[h].tokens[1] # Parse!Word
        /\ \A i \in Parse!LinesOf("attack") :
             /\ i > h
             /\ Len(file.lines[i].tokens) = 2
             /\ {file.lines[i].tokens[1], file.lines[i].tokens[2]}
                  \subseteq 1 .. file.lines[h].tokens[1]
  BY DEF Parse!WellFormed
<1>2. Cardinality(Parse!LinesOf("p")) = 1
  BY <1>1, FS_Singleton
<1>3. QED
  BY <1>1, <1>2 DEF Parse!WellFormed

(***************************************************************************)
(* parse_i23 never changes the file, nor what is true of it.               *)
(***************************************************************************)
LEMMA FixedFile ==
  ASSUME file' = file
  PROVE  /\ Parse!LinesOf("p")' = Parse!LinesOf("p") /\ Parse!LinesOf("attack")' = Parse!LinesOf("attack")
         /\ Parse!WellFormed' <=> Parse!WellFormed
         /\ Parse!StartsComplete' <=> Parse!StartsComplete
<1>1. Parse!LinesOf("p")' = Parse!LinesOf("p") /\ Parse!LinesOf("attack")' = Parse!LinesOf("attack")
  BY DEF Parse!LinesOf
<1>2. Parse!WellFormed' <=> Parse!WellFormed
  BY <1>1 DEF Parse!WellFormed
<1>3. Parse!StartsComplete' <=> Parse!StartsComplete
  BY <1>1 DEF Parse!StartsComplete
<1>4. QED
  BY <1>1, <1>2, <1>3

(***************************************************************************)
(* One getline: the line is one of its kind, and what was read stays read. *)
(***************************************************************************)
LEMMA NextLine ==
  ASSUME Parse!TypeOK, NEW kind, Parse!Reading(kind), file' = file, pos' = pos + 1
  PROVE  /\ pos + 1 \in Parse!LinesOf(kind) /\ pos' \in 0 .. Len(file.lines) /\ pos \in Nat
         /\ file.lines[pos + 1].tokens \in Seq(Nat \cup {Parse!Word})
         /\ \A v : (SourceRead(v) => SourceRead(v)') /\ (TargetRead(v) => TargetRead(v)')
         /\ kind # "p" => (HeaderRead' <=> HeaderRead) /\ pos + 1 \notin Parse!LinesOf("p")
         /\ kind # "attack" => pos + 1 \notin Parse!LinesOf("attack")
<1>1. pos \in Nat /\ pos + 1 \in 1 .. Len(file.lines) /\ pos' \in 0 .. Len(file.lines)
  BY LinesAreLines DEF Parse!TypeOK, Parse!Reading
<1>2. pos + 1 \in Parse!LinesOf(kind)
  BY <1>1 DEF Parse!Reading, Parse!LinesOf
<1>3. \A v : (SourceRead(v) => SourceRead(v)') /\ (TargetRead(v) => TargetRead(v)')
  <2>1. TAKE v
  <2>2. \A i \in Parse!LinesOf("attack") : i <= pos => i <= pos'
    BY <1>1, LinesAreLines
  <2>3. QED
    BY <2>2, FixedFile DEF SourceRead, TargetRead
<1>4. kind # "p" => (HeaderRead' <=> HeaderRead) /\ pos + 1 \notin Parse!LinesOf("p")
  <2>1. SUFFICES ASSUME kind # "p" PROVE (HeaderRead' <=> HeaderRead) /\ pos + 1 \notin Parse!LinesOf("p")
    OBVIOUS
  <2>2. pos + 1 \notin Parse!LinesOf("p")
    BY <2>1 DEF Parse!Reading, Parse!LinesOf
  <2>3. \A h \in Parse!LinesOf("p") : h <= pos' <=> h <= pos
    BY <1>1, <2>2, LinesAreLines
  <2>4. QED
    BY <2>2, <2>3, FixedFile DEF HeaderRead
<1>5. kind # "attack" => pos + 1 \notin Parse!LinesOf("attack")
  BY DEF Parse!Reading, Parse!LinesOf
<1>6. QED
  BY <1>1, <1>2, <1>3, <1>4, <1>5, LinesAreLines

(***************************************************************************)
(* The attacks stated so far grow by the one the line states.              *)
(***************************************************************************)
LEMMA StatedStep ==
  ASSUME Parse!TypeOK, NEW kind, Parse!Reading(kind), file' = file, pos' = pos + 1,
         NEW a \in Nat, NEW b \in Nat
  PROVE  /\ Parse!Stated(b, a) \in Nat
         /\ Parse!Stated(b, a)' = Parse!Stated(b, a) +
              (IF kind = "attack" /\ file.lines[pos + 1].tokens = <<b + 1, a + 1>>
               THEN 1 ELSE 0)
<1> DEFINE S == {i \in Parse!LinesOf("attack") : i <= pos /\ file.lines[i].tokens = <<b + 1, a + 1>>}
           T == {i \in Parse!LinesOf("attack") : i <= pos' /\ file.lines[i].tokens = <<b + 1, a + 1>>}
           new == kind = "attack" /\ file.lines[pos + 1].tokens = <<b + 1, a + 1>>
<1>1. Parse!Stated(b, a) = Cardinality(S)
  BY SameCardinality DEF Parse!Stated
<1>2. Parse!Stated(b, a)' = Cardinality(T)
  BY FixedFile, SameCardinality DEF Parse!Stated
<1>3. IsFiniteSet(S) /\ pos + 1 \notin S
  <2>1. IsFiniteSet(Parse!LinesOf("attack")) /\ S \in SUBSET Parse!LinesOf("attack")
    BY LinesAreLines
  <2>2. pos \in Nat
    BY NextLine
  <2>3. QED
    BY <2>1, <2>2, FS_Subset
<1>4. T = IF new THEN S \cup {pos + 1} ELSE S
  <2>1. pos \in Nat /\ pos' = pos + 1 /\ (kind = "attack" <=> pos + 1 \in Parse!LinesOf("attack"))
    BY NextLine
  <2>2. \A i \in Parse!LinesOf("attack") : i <= pos + 1 <=> (i <= pos \/ i = pos + 1)
    BY <2>1, LinesAreLines
  <2>3. \A i : i \in T <=> i \in S \/ (i = pos + 1 /\ new)
    BY <2>1, <2>2
  <2>4. QED
    BY <2>3
<1>5. Cardinality(S) \in Nat /\ Cardinality(S \cup {pos + 1}) = Cardinality(S) + 1
  <2> HIDE DEF S
  <2>1. QED
    BY <1>3, FS_AddElement, FS_CardinalityType
<1>6. QED
  <2> HIDE DEF S, T
  <2>1. CASE new
    BY <2>1, <1>1, <1>2, <1>4, <1>5
  <2>2. CASE ~new
    BY <2>2, <1>1, <1>2, <1>4, <1>5
  <2>3. QED
    BY <2>1, <2>2

-----------------------------------------------------------------------------
(***************************************************************************)
(* The empty framework.                                                    *)
(***************************************************************************)
LEMMA ParseInitially ==
  ASSUME Parse!FilesAssumption, Parse!GarbageAssumption, Parse!Init
  PROVE  ParseInv
<1>1. file \in Parse!File /\ pos = 0 /\ args = 0 /\ 0 .. args - 1 = {}
  BY DEF Parse!FilesAssumption, Parse!Init
<1>2. Parse!TypeOK
  <2>1. Parse!NoLists \in [0 .. args - 1 -> Seq(Nat)]
    BY <1>1 DEF Parse!NoLists
  <2>2. Len(file.lines) \in Nat
    BY <1>1 DEF Parse!File
  <2>3. QED
    BY <1>1, <2>1, <2>2 DEF Parse!TypeOK, Parse!Init, Parse!GarbageAssumption
<1>3. \A kind : \A i \in Parse!LinesOf(kind) : ~(i <= pos)
  BY <1>1, <1>2, LinesAreLines
<1>4. [i \in 1 .. args |-> i - 1] = <<>>
  BY <1>1
<1>5. QED
  BY <1>1, <1>2, <1>3, <1>4 DEF ParseInv, Untouched, Parse!Mirrored, AsStated, FromLines, Parse!Init

(***************************************************************************)
(* Steps that read no line.                                                *)
(***************************************************************************)
LEMMA ParseQuiet ==
  ASSUME ParseInv, UNCHANGED <<file, pos, Parse!locals, Parse!af, Parse!active>>,
         pc' \in {"open", "read", "done", "exit", "undefined"},
         Parse!WellFormed => pc' \notin {"exit", "undefined"}
  PROVE  ParseInv'
<1>1. file' = file /\ pos' = pos /\ args' = args /\ attackers' = attackers
      /\ attacked' = attacked /\ active_array' = active_array
      /\ active_bitset' = active_bitset /\ n_args' = n_args /\ source' = source
      /\ target' = target
  BY DEF Parse!locals, Parse!af, Parse!active
<1>2. Parse!TypeOK'
  BY <1>1 DEF ParseInv, Parse!TypeOK
<1>3. Untouched' /\ Parse!Mirrored'
  BY <1>1, FixedFile DEF ParseInv, Untouched, Parse!Mirrored, HeaderRead
<1>4. AsStated'
  <2>1. \A a, b : Parse!Stated(b, a)' = Parse!Stated(b, a)
    BY <1>1, FixedFile DEF Parse!Stated
  <2>2. QED
    BY <1>1, <2>1, FixedFile DEF ParseInv, AsStated
<1>5. FromLines'
  BY <1>1, FixedFile DEF ParseInv, FromLines, SourceRead, TargetRead
<1>6. QED
  BY <1>2, <1>3, <1>4, <1>5 DEF ParseInv

(***************************************************************************)
(* A line that is skipped.                                                 *)
(***************************************************************************)
LEMMA SkipStep ==
  ASSUME ParseInv, Parse!SkipLine
  PROVE  ParseInv'
<1>1. /\ Parse!TypeOK /\ Parse!Reading("skip") /\ file' = file /\ pos' = pos + 1
      /\ UNCHANGED <<Parse!locals, Parse!af, Parse!active, pc>>
  BY DEF Parse!SkipLine, ParseInv
<1>2. UNCHANGED <<n_args, source, target, args, attackers, attacked, active_array,
                  active_bitset, pc>>
  BY <1>1 DEF Parse!locals, Parse!af, Parse!active
<1>3. Parse!TypeOK'
  BY <1>1, <1>2, NextLine DEF Parse!TypeOK
<1>4. Untouched' /\ Parse!Mirrored'
  BY <1>1, <1>2, NextLine, FixedFile DEF ParseInv, Untouched, Parse!Mirrored
<1>5. \A i \in Parse!LinesOf("p") \cup Parse!LinesOf("attack") : i <= pos' => i <= pos
  BY <1>1, NextLine, LinesAreLines
<1>6. AsStated'
  <2>1. ASSUME NEW a \in 0 .. args - 1, NEW b \in 0 .. args - 1
        PROVE  Parse!Stated(b, a)' = Parse!Stated(b, a)
    <3>1. a \in Nat /\ b \in Nat
      OBVIOUS
    <3>2. Parse!Stated(b, a) \in Nat /\ Parse!Stated(b, a)' = Parse!Stated(b, a) + 0
      BY <1>1, <3>1, StatedStep
    <3>3. QED
      BY <3>2
  <2>2. QED
    BY <1>1, <1>2, <1>5, <2>1, FixedFile DEF ParseInv, AsStated
<1>7. FromLines'
  BY <1>1, <1>2, <1>5, NextLine, FixedFile DEF ParseInv, FromLines
<1>8. QED
  BY <1>3, <1>4, <1>6, <1>7 DEF ParseInv

(***************************************************************************)
(* The header: with at most one nothing was read before it.                *)
(***************************************************************************)
LEMMA HeaderStep ==
  ASSUME ParseInv, Parse!HeaderLine
  PROVE  ParseInv'
<1>1. PICK n : /\ n = Parse!Extract(Parse!Stream(file.lines[pos + 1].tokens), n_args).value
               /\ n_args' = n /\ active_bitset' = 0 .. n - 1
               /\ active_array' = active_array \o [i \in 1 .. n |-> i - 1]
               /\ args' = n /\ attackers' = Parse!Resize(attackers, n)
               /\ attacked' = Parse!Resize(attacked, n)
  BY DEF Parse!HeaderLine, Parse!set_arguments
<1>2. /\ Parse!TypeOK /\ Parse!Reading("p") /\ file' = file /\ pos' = pos + 1
      /\ UNCHANGED <<source, target, pc>>
  BY DEF Parse!HeaderLine, ParseInv
<1>3. pos \in Nat /\ pos + 1 \in Parse!LinesOf("p") /\ pos' \in 0 .. Len(file.lines)
  BY <1>2, NextLine
<1>4. n \in Nat /\ (LET t == file.lines[pos + 1].tokens
                    IN  Len(t) = 1 /\ t[1] # Parse!Word => n = t[1])
  <2>1. file.lines[pos + 1].tokens \in Seq(Nat \cup {Parse!Word}) /\ n_args \in Nat
    BY <1>2, NextLine DEF Parse!TypeOK
  <2>2. QED
    BY <1>1, <2>1, HeaderIs
<1>5. \A lists \in [0 .. args - 1 -> Seq(Nat)] :
        /\ Parse!Resize(lists, n) \in [0 .. n - 1 -> Seq(Nat)]
        /\ \A a \in 0 .. n - 1 : Parse!Resize(lists, n)[a] =
             IF a \in 0 .. args - 1 THEN lists[a] ELSE <<>>
  BY DEF Parse!Resize
<1>6. [i \in 1 .. n |-> i - 1] \in Seq(Nat)
  BY <1>4
<1>7. Parse!TypeOK'
  <2>1. active_array' \in Seq(Nat)
    BY <1>1, <1>2, <1>6, ConcatProperties DEF Parse!TypeOK
  <2>2. attackers' \in [0 .. args' - 1 -> Seq(Nat)] /\ attacked' \in [0 .. args' - 1 -> Seq(Nat)]
    BY <1>1, <1>2, <1>5 DEF Parse!TypeOK
  <2>3. {n_args', source', target', args'} \subseteq Nat /\ active_bitset' \subseteq Nat
    <3>1. n_args' \in Nat /\ args' \in Nat /\ source' \in Nat /\ target' \in Nat
      BY <1>1, <1>2, <1>4 DEF Parse!TypeOK
    <3>2. active_bitset' \subseteq Nat
      <4>1. active_bitset' = 0 .. n - 1
        BY <1>1
      <4>2. n \in Nat
        BY <1>4
      <4>3. QED
        BY <4>1, <4>2
    <3>3. QED
      BY <3>1, <3>2
  <2>4. pos' \in 0 .. Len(file'.lines) /\ file' \in Parse!File /\ pc' = pc
    BY <1>2, <1>3 DEF Parse!TypeOK
  <2>5. QED
    BY <1>2, <2>1, <2>2, <2>3, <2>4 DEF Parse!TypeOK
<1>8. HeaderRead'
  BY <1>2, <1>3, FixedFile DEF HeaderRead
<1>9. ASSUME Cardinality(Parse!LinesOf("p")) <= 1
      PROVE  /\ args = 0 /\ active_array = <<>>
             /\ \A a \in 0 .. n - 1 : attackers'[a] = <<>> /\ attacked'[a] = <<>>
  <2>1. ~HeaderRead
    BY <1>2, <1>3, <1>9, OneHeader DEF HeaderRead
  <2>2. args = 0 /\ active_array = <<>> /\ 0 .. args - 1 = {}
    BY <2>1 DEF ParseInv, Untouched
  <2>3. QED
    BY <1>1, <1>2, <1>5, <2>2 DEF Parse!TypeOK
<1>10. Parse!Mirrored'
  <2>1. SUFFICES ASSUME Cardinality(Parse!LinesOf("p")) <= 1
        PROVE  /\ \A a \in 0 .. args' - 1 :
                    \A i \in 1 .. Len(attackers'[a]) : attackers'[a][i] \in 0 .. args' - 1
               /\ \A a, b \in 0 .. args' - 1 : Parse!Count(attackers'[a], b) = Parse!Count(attacked'[b], a)
               /\ active_bitset' = 0 .. args' - 1
               /\ active_array' = [i \in 1 .. args' |-> i - 1]
    BY <1>2, FixedFile, SameCardinality DEF Parse!Mirrored, Parse!Count
  <2>2. active_array' = [i \in 1 .. n |-> i - 1]
    BY <1>1, <1>6, <1>9, <2>1, ConcatEmptySeq
  <2>3. \A a \in 0 .. n - 1 : Len(attackers'[a]) = 0
    BY <1>9, <2>1
  <2>4. \A a, b \in 0 .. n - 1 : Parse!Count(attackers'[a], b) = Parse!Count(attacked'[b], a)
    <3>1. \A a, b \in 0 .. n - 1 : attackers'[a] = <<>> /\ attacked'[b] = <<>>
      BY <1>9, <2>1
    <3>2. QED
      BY <3>1, CountEmpty
  <2>5. QED
    <3>1. args' = n /\ active_bitset' = 0 .. n - 1
      BY <1>1
    <3>2. \A a \in 0 .. n - 1 : 1 .. Len(attackers'[a]) = {}
      BY <2>3
    <3>3. QED
      BY <2>2, <2>4, <3>1, <3>2
<1>11. AsStated'
  <2>1. SUFFICES ASSUME Parse!WellFormed
        PROVE  /\ pc' \notin {"exit", "undefined"}
               /\ \A h \in Parse!LinesOf("p") : h <= pos' => args' = file.lines[h].tokens[1]
               /\ \A a, b \in 0 .. args' - 1 : Parse!Count(attackers'[a], b) = Parse!Stated(b, a)'
    BY <1>2, FixedFile DEF AsStated, Parse!Count
  <2>2. PICK h \in Parse!LinesOf("p") :
          /\ Parse!LinesOf("p") = {h}
          /\ Len(file.lines[h].tokens) = 1 /\ file.lines[h].tokens[1] # Parse!Word
          /\ \A i \in Parse!LinesOf("attack") : i > h
    BY <1>2, <2>1, WellFormedIs
  <2>3. h = pos + 1 /\ n = file.lines[h].tokens[1]
    BY <1>4, <1>3, <2>2
  <2>4. ASSUME NEW a \in 0 .. n - 1, NEW b \in 0 .. n - 1
        PROVE  Parse!Count(attackers'[a], b) = Parse!Stated(b, a)'
    <3>1. Parse!Count(attackers'[a], b) = 0
      <4>1. Cardinality(Parse!LinesOf("p")) <= 1
        BY <1>2, <2>1, WellFormedIs
      <4>2. attackers'[a] = <<>>
        BY <1>9, <4>1
      <4>3. QED
        BY <4>2, CountEmpty
    <3>2. {i \in Parse!LinesOf("attack") : i <= pos' /\ file.lines[i].tokens = <<b + 1, a + 1>>} = {}
      <4>1. \A i \in Parse!LinesOf("attack") : i \in Int /\ i > pos + 1
        BY <1>2, <2>2, <2>3, LinesAreLines
      <4>2. QED
        BY <1>2, <1>3, <4>1
    <3>3. Parse!Stated(b, a)' = 0
      BY <1>2, <3>2, FixedFile, FS_EmptySet, SameCardinality DEF Parse!Stated
    <3>4. QED
      BY <3>1, <3>3
  <2>5. pc' \notin {"exit", "undefined"}
    BY <1>2, <2>1 DEF ParseInv, AsStated
  <2>6. QED
    BY <1>1, <1>2, <2>2, <2>3, <2>4, <2>5
<1>12. FromLines'
  <2>1. SUFFICES ASSUME Parse!StartsComplete
        PROVE  /\ (\E i \in Parse!LinesOf("attack") : i <= pos') =>
                    SourceRead(source)' /\ TargetRead(target)'
               /\ \A a \in 0 .. args' - 1 : \A k \in 1 .. Len(attackers'[a]) :
                    SourceRead(attackers[a][k] + 1)' /\ TargetRead(a + 1)'
    BY <1>2, FixedFile DEF FromLines
  <2>2. \A v : (SourceRead(v) => SourceRead(v)') /\ (TargetRead(v) => TargetRead(v)')
    BY <1>2, NextLine
  <2>3. \A i \in Parse!LinesOf("attack") : i <= pos' => i <= pos
    BY <1>2, NextLine, LinesAreLines
  <2>4. (\E i \in Parse!LinesOf("attack") : i <= pos') => SourceRead(source)' /\ TargetRead(target)'
    <3>1. (\E i \in Parse!LinesOf("attack") : i <= pos') => SourceRead(source) /\ TargetRead(target)
      BY <2>1, <2>3 DEF ParseInv, FromLines
    <3>2. source' = source /\ target' = target
      BY <1>2
    <3>3. QED
      BY <2>2, <3>1, <3>2 DEF SourceRead, TargetRead
  <2>5. ASSUME NEW a \in 0 .. args' - 1, NEW k \in 1 .. Len(attackers'[a])
        PROVE  SourceRead(attackers[a][k] + 1)' /\ TargetRead(a + 1)'
    <3>1. a \in 0 .. args - 1 /\ attackers'[a] = attackers[a]
      <4>1. attackers \in [0 .. args - 1 -> Seq(Nat)] /\ a \in 0 .. n - 1
        BY <1>1, <1>2 DEF Parse!TypeOK
      <4>2. attackers'[a] = IF a \in 0 .. args - 1 THEN attackers[a] ELSE <<>>
        BY <1>1, <1>5, <4>1
      <4>3. CASE a \notin 0 .. args - 1
        <5>1. attackers'[a] = <<>> /\ k \in 1 .. Len(attackers'[a])
          BY <4>2, <4>3
        <5>2. QED
          BY <5>1
      <4>4. QED
        BY <4>2, <4>3
    <3>2. PICK v : v = attackers[a][k] + 1 /\ v = attackers'[a][k] + 1
      BY <3>1
    <3>3. SourceRead(v) /\ TargetRead(a + 1)
      BY <2>1, <3>1, <3>2 DEF ParseInv, FromLines
    <3>4. SourceRead(v)' /\ TargetRead(a + 1)'
      BY <2>2, <3>3
    <3>5. QED
      BY <3>2, <3>4 DEF SourceRead
  <2>6. QED
    BY <2>4, <2>5
<1>13. QED
  BY <1>7, <1>8, <1>10, <1>11, <1>12 DEF ParseInv, Untouched

(***************************************************************************)
(* An attack between two arguments: it goes into both lists.               *)
(***************************************************************************)
LEMMA AttackStep ==
  ASSUME ParseInv, Parse!AttackLine
  PROVE  ParseInv'
<1>1. PICK s, t : /\ s = Parse!Index(Parse!Pair(file.lines[pos + 1].tokens)[1])
                  /\ t = Parse!Index(Parse!Pair(file.lines[pos + 1].tokens)[2])
                  /\ source' = Parse!Pair(file.lines[pos + 1].tokens)[1]
                  /\ target' = Parse!Pair(file.lines[pos + 1].tokens)[2]
                  /\ s \in 0 .. args - 1 /\ t \in 0 .. args - 1
                  /\ attackers' = [attackers EXCEPT ![t] = Append(@, s)]
                  /\ attacked' = [attacked EXCEPT ![s] = Append(@, t)]
  BY DEF Parse!AttackLine, Parse!add_attack
<1>2. /\ Parse!TypeOK /\ Parse!Reading("attack") /\ file' = file /\ pos' = pos + 1
      /\ UNCHANGED <<args, n_args, active_array, active_bitset, pc>>
  BY DEF Parse!AttackLine, Parse!add_attack, Parse!active, ParseInv
<1>3. PICK tokens \in Seq(Nat \cup {Parse!Word}) : tokens = file.lines[pos + 1].tokens
  BY <1>2, NextLine
<1>4. /\ source' = s + 1 /\ target' = t + 1 /\ s \in Nat /\ t \in Nat
      /\ s + 1 = IF tokens = <<>> THEN source ELSE tokens[1]
      /\ t + 1 = IF Len(tokens) < 2 THEN target ELSE tokens[2]
  <2>1. source \in Nat /\ target \in Nat /\ args \in Nat
    BY <1>2 DEF Parse!TypeOK
  <2>2. /\ Parse!Pair(tokens)[1] = IF tokens = <<>> THEN source
                             ELSE IF tokens[1] = Parse!Word THEN 0 ELSE tokens[1]
        /\ Parse!Pair(tokens)[2] = IF Len(tokens) < 2 \/ tokens[1] = Parse!Word THEN target
                             ELSE IF tokens[2] = Parse!Word THEN 0 ELSE tokens[2]
        /\ Parse!Pair(tokens)[1] \in Nat /\ Parse!Pair(tokens)[2] \in Nat
    BY <2>1, PairIs
  <2>3. /\ s = Parse!Pair(tokens)[1] - 1 /\ t = Parse!Pair(tokens)[2] - 1
        /\ source' = Parse!Pair(tokens)[1] /\ target' = Parse!Pair(tokens)[2]
    BY <1>1, <1>3 DEF Parse!Index
  <2>4. s \in Nat /\ t \in Nat
    <3>1. s \in 0 .. args - 1 /\ t \in 0 .. args - 1
      BY <1>1
    <3>2. QED
      BY <2>1, <3>1
  <2>5. source' = s + 1 /\ target' = t + 1 /\ Parse!Pair(tokens)[1] # 0 /\ Parse!Pair(tokens)[2] # 0
    BY <2>2, <2>3, <2>4
  <2>6. tokens # <<>> => tokens[1] # Parse!Word
    BY <2>2, <2>5
  <2>7. Len(tokens) >= 2 => tokens # <<>>
    OBVIOUS
  <2>8. Len(tokens) \in Nat
    OBVIOUS
  <2>9. QED
    BY <2>2, <2>3, <2>4, <2>5, <2>6, <2>7, <2>8
<1>5. /\ attackers \in [0 .. args - 1 -> Seq(Nat)] /\ attacked \in [0 .. args - 1 -> Seq(Nat)]
      /\ \A a \in 0 .. args - 1 :
           attackers'[a] = IF a = t THEN Append(attackers[a], s) ELSE attackers[a]
      /\ \A b \in 0 .. args - 1 :
           attacked'[b] = IF b = s THEN Append(attacked[b], t) ELSE attacked[b]
  BY <1>1, <1>2 DEF Parse!TypeOK
<1>6. Parse!TypeOK'
  <2>1. /\ attackers' \in [0 .. args' - 1 -> Seq(Nat)]
        /\ attacked' \in [0 .. args' - 1 -> Seq(Nat)]
    <3>1. /\ attackers[t] \in Seq(Nat) /\ attacked[s] \in Seq(Nat)
          /\ s \in 0 .. args - 1 /\ t \in 0 .. args - 1
      BY <1>1, <1>5
    <3>2. Append(attackers[t], s) \in Seq(Nat) /\ Append(attacked[s], t) \in Seq(Nat)
      BY <1>4, <3>1
    <3>3. /\ attackers' = [attackers EXCEPT ![t] = Append(attackers[t], s)]
          /\ attacked' = [attacked EXCEPT ![s] = Append(attacked[s], t)]
      BY <1>1, <1>5
    <3>4. QED
      BY <1>2, <1>5, <3>1, <3>2, <3>3
  <2>2. pos' \in 0 .. Len(file.lines)
    BY <1>2, NextLine
  <2>3. source' \in Nat /\ target' \in Nat
    BY <1>4
  <2>4. QED
    BY <1>2, <2>1, <2>2, <2>3 DEF Parse!TypeOK
<1>7. HeaderRead /\ HeaderRead'
  <2>1. args # 0
    <3>1. s \in 0 .. args - 1
      BY <1>1
    <3>2. QED
      BY <3>1
  <2>2. QED
    BY <1>2, <2>1, NextLine DEF ParseInv, Untouched
<1>8. \A a, b \in 0 .. args - 1 :
        /\ Parse!Count(attackers'[a], b) = Parse!Count(attackers[a], b) + (IF a = t /\ b = s THEN 1 ELSE 0)
        /\ Parse!Count(attacked'[b], a) = Parse!Count(attacked[b], a) + (IF a = t /\ b = s THEN 1 ELSE 0)
  <2>1. TAKE a, b \in 0 .. args - 1
  <2>2. /\ a \in Nat /\ b \in Nat /\ attackers[a] \in Seq(Nat) /\ attacked[b] \in Seq(Nat)
        /\ Parse!Count(attackers[a], b) \in Nat /\ Parse!Count(attacked[b], a) \in Nat
    BY <1>5, CountType
  <2>3. Parse!Count(attackers'[a], b) = Parse!Count(attackers[a], b) + (IF a = t /\ b = s THEN 1 ELSE 0)
    <3>1. CASE a = t
      BY <1>4, <1>5, <2>2, <3>1, CountAppend
    <3>2. CASE a # t
      BY <1>5, <2>2, <3>2
    <3>3. QED
      BY <3>1, <3>2
  <2>4. Parse!Count(attacked'[b], a) = Parse!Count(attacked[b], a) + (IF a = t /\ b = s THEN 1 ELSE 0)
    <3>1. CASE b = s
      BY <1>4, <1>5, <2>2, <3>1, CountAppend
    <3>2. CASE b # s
      BY <1>5, <2>2, <3>2
    <3>3. QED
      BY <3>1, <3>2
  <2>5. QED
    BY <2>3, <2>4
<1>9. Parse!Mirrored'
  <2>1. SUFFICES ASSUME Cardinality(Parse!LinesOf("p")) <= 1
        PROVE  /\ \A a \in 0 .. args - 1 :
                    \A i \in 1 .. Len(attackers'[a]) : attackers'[a][i] \in 0 .. args - 1
               /\ \A a, b \in 0 .. args - 1 : Parse!Count(attackers'[a], b) = Parse!Count(attacked'[b], a)
               /\ active_bitset = 0 .. args - 1
               /\ active_array = [i \in 1 .. args |-> i - 1]
    BY <1>2, FixedFile, SameCardinality DEF Parse!Mirrored, Parse!Count
  <2>2. /\ \A a \in 0 .. args - 1 :
             \A i \in 1 .. Len(attackers[a]) : attackers[a][i] \in 0 .. args - 1
        /\ \A a, b \in 0 .. args - 1 : Parse!Count(attackers[a], b) = Parse!Count(attacked[b], a)
        /\ active_bitset = 0 .. args - 1
        /\ active_array = [i \in 1 .. args |-> i - 1]
    BY <2>1, SameCardinality DEF ParseInv, Parse!Mirrored
  <2>3. \A a \in 0 .. args - 1 :
          \A i \in 1 .. Len(attackers'[a]) : attackers'[a][i] \in 0 .. args - 1
    <3>1. TAKE a \in 0 .. args - 1
    <3>2. attackers[a] \in Seq(Nat) /\ s \in 0 .. args - 1
      BY <1>1, <1>5
    <3>3. CASE a = t
      <4>1. /\ attackers'[a] = Append(attackers[a], s)
            /\ Len(Append(attackers[a], s)) = Len(attackers[a]) + 1
            /\ \A i \in 1 .. Len(attackers[a]) + 1 : Append(attackers[a], s)[i] =
                 IF i <= Len(attackers[a]) THEN attackers[a][i] ELSE s
        BY <1>4, <1>5, <3>2, <3>3, AppendIs
      <4>2. QED
        BY <2>2, <3>2, <4>1
    <3>4. CASE a # t
      BY <1>5, <2>2, <3>4
    <3>5. QED
      BY <3>3, <3>4
  <2>4. \A a, b \in 0 .. args - 1 : Parse!Count(attackers'[a], b) = Parse!Count(attacked'[b], a)
    BY <1>8, <2>2
  <2>5. QED
    BY <2>2, <2>3, <2>4
<1>10. AsStated'
  <2>1. SUFFICES ASSUME Parse!WellFormed
        PROVE  /\ pc \notin {"exit", "undefined"}
               /\ \A h \in Parse!LinesOf("p") : h <= pos' => args = file.lines[h].tokens[1]
               /\ \A a, b \in 0 .. args - 1 : Parse!Count(attackers'[a], b) = Parse!Stated(b, a)'
    BY <1>2, FixedFile DEF AsStated, Parse!Count
  <2>2. /\ pc \notin {"exit", "undefined"}
        /\ \A h \in Parse!LinesOf("p") : h <= pos => args = file.lines[h].tokens[1]
        /\ \A a, b \in 0 .. args - 1 : Parse!Count(attackers[a], b) = Parse!Stated(b, a)
    BY <2>1 DEF ParseInv, AsStated
  <2>3. \A h \in Parse!LinesOf("p") : h <= pos' => h <= pos
    BY <1>2, NextLine, LinesAreLines
  <2>4. Len(tokens) = 2
    BY <1>2, <1>3, <2>1, NextLine, WellFormedIs
  <2>5. tokens = <<s + 1, t + 1>>
    <3>1. tokens = <<tokens[1], tokens[2]>>
      BY <2>4
    <3>2. tokens # <<>>
      BY <2>4
    <3>3. tokens[1] = s + 1 /\ tokens[2] = t + 1
      BY <1>4, <2>4, <3>2
    <3>4. QED
      BY <3>1, <3>3
  <2>6. ASSUME NEW a \in 0 .. args - 1, NEW b \in 0 .. args - 1
        PROVE  Parse!Count(attackers'[a], b) = Parse!Stated(b, a)'
    <3>1. a \in Nat /\ b \in Nat
      OBVIOUS
    <3>2. Parse!Stated(b, a)' = Parse!Stated(b, a) + (IF tokens = <<b + 1, a + 1>> THEN 1 ELSE 0)
      BY <1>2, <1>3, <3>1, StatedStep
    <3>3. tokens = <<b + 1, a + 1>> <=> a = t /\ b = s
      BY <1>4, <2>5, <3>1
    <3>4. QED
      BY <1>8, <2>2, <3>2, <3>3
  <2>7. QED
    BY <2>2, <2>3, <2>6
<1>11. FromLines'
  <2>1. SUFFICES ASSUME Parse!StartsComplete
        PROVE  /\ SourceRead(source)' /\ TargetRead(target)'
               /\ \A a \in 0 .. args - 1 : \A k \in 1 .. Len(attackers'[a]) :
                    SourceRead(attackers[a][k] + 1)' /\ TargetRead(a + 1)'
    BY <1>2, FixedFile DEF FromLines
  <2>2. \A v : (SourceRead(v) => SourceRead(v)') /\ (TargetRead(v) => TargetRead(v)')
    BY <1>2, NextLine
  <2>3. pos \in Nat /\ pos + 1 \in Parse!LinesOf("attack")
    BY <1>2, NextLine
  <2>4. Len(tokens) < 2 => SourceRead(source) /\ TargetRead(target)
    <3>1. SUFFICES ASSUME Len(tokens) < 2, \A i \in Parse!LinesOf("attack") : ~(i <= pos)
                   PROVE  FALSE
      BY <2>1 DEF ParseInv, FromLines
    <3>2. \A j \in Parse!LinesOf("attack") : pos + 1 <= j
      BY <1>2, <2>3, <3>1, LinesAreLines
    <3>3. Len(tokens) >= 2
      BY <1>3, <2>1, <2>3, <3>2 DEF Parse!StartsComplete
    <3>4. QED
      BY <3>1, <3>3
  <2>5. Len(tokens) \in Nat /\ (tokens # <<>> => Len(tokens) >= 1) /\ (tokens = <<>> => Len(tokens) < 2)
    BY EmptySeq
  <2>6. SourceRead(s + 1)'
    <3>1. CASE tokens = <<>>
      BY <1>4, <2>2, <2>4, <2>5, <3>1
    <3>2. CASE tokens # <<>>
      <4>1. pos + 1 <= pos' /\ Len(tokens) >= 1 /\ tokens[1] = s + 1
        BY <1>2, <1>4, <2>3, <2>5, <3>2
      <4>2. QED
        BY <1>2, <1>3, <2>3, <4>1, FixedFile DEF SourceRead
    <3>3. QED
      BY <3>1, <3>2
  <2>7. TargetRead(t + 1)'
    <3>1. CASE Len(tokens) < 2
      BY <1>4, <2>2, <2>4, <3>1
    <3>2. CASE Len(tokens) >= 2
      <4>1. pos + 1 <= pos' /\ tokens[2] = t + 1
        BY <1>2, <1>4, <2>3, <2>5, <3>2
      <4>2. QED
        BY <1>2, <1>3, <2>3, <3>2, <4>1, FixedFile DEF TargetRead
    <3>3. QED
      BY <2>5, <3>1, <3>2
  <2>8. ASSUME NEW a \in 0 .. args - 1, NEW k \in 1 .. Len(attackers'[a])
        PROVE  SourceRead(attackers[a][k] + 1)' /\ TargetRead(a + 1)'
    <3>1. PICK v : v = attackers'[a][k]
      OBVIOUS
    <3>2. \/ a = t /\ v = s
          \/ k \in 1 .. Len(attackers[a]) /\ v = attackers[a][k]
      <4>1. attackers[a] \in Seq(Nat) /\ k \in 1 .. Len(attackers'[a])
        BY <1>5, <2>8
      <4>2. CASE a = t
        <5>1. /\ attackers'[a] = Append(attackers[a], s)
              /\ Len(Append(attackers[a], s)) = Len(attackers[a]) + 1
              /\ \A i \in 1 .. Len(attackers[a]) + 1 : Append(attackers[a], s)[i] =
                   IF i <= Len(attackers[a]) THEN attackers[a][i] ELSE s
          BY <1>4, <1>5, <4>1, <4>2, AppendIs
        <5>2. QED
          BY <3>1, <4>1, <4>2, <5>1
      <4>3. CASE a # t
        BY <1>5, <3>1, <4>1, <4>3
      <4>4. QED
        BY <4>2, <4>3
    <3>3. SourceRead(v + 1)' /\ TargetRead(a + 1)'
      <4>1. CASE a = t /\ v = s
        BY <2>6, <2>7, <4>1
      <4>2. CASE k \in 1 .. Len(attackers[a]) /\ v = attackers[a][k]
        <5>1. SourceRead(v + 1) /\ TargetRead(a + 1)
          BY <2>1, <4>2 DEF ParseInv, FromLines
        <5>2. QED
          BY <2>2, <5>1
      <4>3. QED
        BY <3>2, <4>1, <4>2
    <3>4. QED
      BY <3>1, <3>3 DEF SourceRead
  <2>9. SourceRead(source)' /\ TargetRead(target)'
    BY <1>4, <2>6, <2>7 DEF SourceRead, TargetRead
  <2>10. QED
    BY <2>8, <2>9
<1>12. QED
  BY <1>6, <1>7, <1>9, <1>10, <1>11 DEF ParseInv, Untouched

(***************************************************************************)
(* A well-formed file has no attack line outside the framework.            *)
(***************************************************************************)
LEMMA OutOfRange ==
  ASSUME ParseInv, Parse!AttackOutOfRange
  PROVE  ~Parse!WellFormed
<1>1. SUFFICES ASSUME Parse!WellFormed PROVE FALSE
  OBVIOUS
<1>2. Parse!TypeOK /\ Parse!Reading("attack")
  BY DEF ParseInv, Parse!AttackOutOfRange
<1>3. /\ pos \in Nat /\ pos + 1 \in Parse!LinesOf("attack")
      /\ file.lines[pos + 1].tokens \in Seq(Nat \cup {Parse!Word})
  <2>1. pos \in Nat /\ pos + 1 \in 1 .. Len(file.lines)
    BY <1>2, LinesAreLines DEF Parse!TypeOK, Parse!Reading
  <2>2. pos + 1 \in Parse!LinesOf("attack")
    BY <1>2, <2>1 DEF Parse!Reading, Parse!LinesOf
  <2>3. QED
    BY <1>2, <2>1, <2>2, LinesAreLines
<1>4. PICK h \in Parse!LinesOf("p") :
        /\ pos + 1 > h
        /\ Len(file.lines[pos + 1].tokens) = 2
        /\ file.lines[pos + 1].tokens[1] \in 1 .. file.lines[h].tokens[1]
        /\ file.lines[pos + 1].tokens[2] \in 1 .. file.lines[h].tokens[1]
  BY <1>1, <1>2, <1>3, WellFormedIs
<1>5. args = file.lines[h].tokens[1] /\ args \in Nat
  <2>1. h <= pos
    BY <1>2, <1>3, <1>4, LinesAreLines
  <2>2. QED
    BY <1>1, <1>2, <2>1 DEF ParseInv, AsStated, Parse!TypeOK
<1>6. PICK tokens \in Seq(Nat \cup {Parse!Word}) :
        /\ tokens = file.lines[pos + 1].tokens /\ Len(tokens) = 2
        /\ tokens[1] \in 1 .. args /\ tokens[2] \in 1 .. args
  BY <1>3, <1>4, <1>5
<1>7. Parse!Pair(tokens)[1] = tokens[1] /\ Parse!Pair(tokens)[2] = tokens[2]
  <2>1. tokens # <<>> /\ tokens[1] # Parse!Word /\ tokens[2] # Parse!Word
    BY <1>5, <1>6 DEF Parse!Word
  <2>2. source \in Nat /\ target \in Nat
    BY <1>2 DEF Parse!TypeOK
  <2>3. QED
    BY <1>6, <2>1, <2>2, PairIs
<1>8. Parse!Index(Parse!Pair(tokens)[1]) \in 0 .. args - 1 /\ Parse!Index(Parse!Pair(tokens)[2]) \in 0 .. args - 1
  <2>1. \A v \in 1 .. args : v - 1 \in 0 .. args - 1
    BY <1>5
  <2>2. QED
    BY <1>6, <1>7, <2>1 DEF Parse!Index
<1>9. QED
  BY <1>6, <1>8 DEF Parse!AttackOutOfRange

-----------------------------------------------------------------------------
(***************************************************************************)
(* The invariant holds for every file and all garbage.                     *)
(***************************************************************************)
LEMMA ParseInvariance ==
  ASSUME Parse!FilesAssumption, Parse!GarbageAssumption
  PROVE  (Parse!Init => ParseInv) /\ (ParseInv /\ [Parse!Next]_(Parse!vars) => ParseInv')
<1>1. Parse!Init => ParseInv
  BY ParseInitially
<1>2. ParseInv /\ [Parse!Next]_(Parse!vars) => ParseInv'
  <2>1. SUFFICES ASSUME ParseInv, [Parse!Next]_(Parse!vars) PROVE ParseInv'
    OBVIOUS
  <2>2. Parse!TypeOK
    BY <2>1 DEF ParseInv
  <2>3. CASE Parse!OpenFails
    <3>1. ~Parse!WellFormed
      BY <2>2, <2>3, WellFormedIs DEF Parse!OpenFails
    <3>2. QED
      BY <2>1, <2>3, <3>1, ParseQuiet DEF Parse!OpenFails
  <2>4. CASE Parse!OpenFile
    BY <2>1, <2>4, ParseQuiet DEF Parse!OpenFile
  <2>5. CASE Parse!SkipLine
    BY <2>1, <2>5, SkipStep
  <2>6. CASE Parse!HeaderLine
    BY <2>1, <2>6, HeaderStep
  <2>7. CASE Parse!AttackLine
    BY <2>1, <2>7, AttackStep
  <2>8. CASE Parse!AttackOutOfRange
    <3>1. ~Parse!WellFormed
      BY <2>1, <2>8, OutOfRange
    <3>2. QED
      BY <2>1, <2>8, <3>1, ParseQuiet DEF Parse!AttackOutOfRange
  <2>9. CASE Parse!EndOfFile
    BY <2>1, <2>9, ParseQuiet DEF Parse!EndOfFile
  <2>10. CASE Parse!ReadFails \/ UNCHANGED Parse!vars
    <3>1. UNCHANGED <<file, pos, Parse!locals, Parse!af, Parse!active>> /\ pc' = pc
      BY <2>10 DEF Parse!ReadFails, Parse!vars
    <3>2. pc \in {"open", "read", "done", "exit", "undefined"}
      BY <2>2 DEF Parse!TypeOK
    <3>3. Parse!WellFormed => pc \notin {"exit", "undefined"}
      BY <2>1 DEF ParseInv, AsStated
    <3>4. QED
      BY <2>1, <3>1, <3>2, <3>3, ParseQuiet
  <2>11. QED
    BY <2>1, <2>3, <2>4, <2>5, <2>6, <2>7, <2>8, <2>9, <2>10 DEF Parse!Next
<1>3. QED
  BY <1>1, <1>2

(***************************************************************************)
(* The parser stays within its types: lists of numbers, one of each kind   *)
(* for every argument of the last header.                                  *)
(***************************************************************************)
LEMMA ParseTypes ==
  ASSUME Parse!FilesAssumption, Parse!GarbageAssumption
  PROVE  ParseInv => Parse!TypeOK
BY DEF ParseInv

(***************************************************************************)
(* With at most one header the adjacency lists mirror each other and hold  *)
(* arguments only, and array and bitset agree.                             *)
(***************************************************************************)
LEMMA ParseMirrored ==
  ASSUME Parse!FilesAssumption, Parse!GarbageAssumption
  PROVE  ParseInv => Parse!Mirrored
BY DEF ParseInv

(***************************************************************************)
(* Every well-formed file is read without undefined behaviour into the     *)
(* framework it states.                                                    *)
(***************************************************************************)
LEMMA FrameworkAsStated ==
  ASSUME Parse!FilesAssumption, Parse!GarbageAssumption
  PROVE  ParseInv => Parse!WellFormedExact
<1>1. SUFFICES ASSUME ParseInv, Parse!WellFormed
      PROVE  /\ pc \notin {"exit", "undefined"}
             /\ \A a, b \in 0 .. args - 1 : Parse!Count(attackers[a], b) = Parse!Stated(b, a)
             /\ active_array = [i \in 1 .. args |-> i - 1]
             /\ active_bitset = 0 .. args - 1
  BY DEF Parse!WellFormedExact
<1>2. Cardinality(Parse!LinesOf("p")) <= 1
  BY <1>1, WellFormedIs DEF ParseInv
<1>3. QED
  BY <1>1, <1>2, SameCardinality DEF ParseInv, Parse!Mirrored, AsStated

(***************************************************************************)
(* What source and target hold before the first attack line never gets     *)
(* into the framework, if the first lines are complete.                    *)
(***************************************************************************)
LEMMA GarbageStaysOut ==
  ASSUME Parse!FilesAssumption, Parse!GarbageAssumption
  PROVE  ParseInv => Parse!NoGarbage
<1>1. ParseInv => Parse!NoGarbage
  <2>1. SUFFICES ASSUME ParseInv, Parse!StartsComplete,
                        NEW a \in 0 .. args - 1, NEW b \in 0 .. args - 1,
                        Parse!Count(attackers[a], b) > 0
                 PROVE  SourceRead(b + 1) /\ TargetRead(a + 1)
    BY DEF Parse!NoGarbage, SourceRead, TargetRead
  <2>2. PICK k \in 1 .. Len(attackers[a]) : attackers[a][k] = b
    BY <2>1, CountPositive
  <2>3. QED
    BY <2>1, <2>2 DEF ParseInv, FromLines
<1>2. QED
  BY <1>1

-----------------------------------------------------------------------------
(* The command line (src/Main.cpp).                                        *)

Texts == Main!Flags \cup {"answer", "newline", "part"}

Running == {"options", "flags", "parse", "dispatch", "search"}

\* i is the last option of this name among the first k.
IsLast(name, i, k) ==
  /\ i \in 1 .. k /\ argv[i].name = name
  /\ \A j \in i + 1 .. k : argv[j].name # name

None(name, k) == \A i \in 1 .. k : argv[i].name # name

Types ==
  /\ argv \in Seq(Main!Option)
  /\ optind \in 0 .. Len(argv)
  /\ flags \subseteq Main!Flags
  /\ task \in Seq(STRING) /\ file \in Main!FileKinds
  /\ query \in [kind : {"none", "word", "number"}, n : Int]
  /\ pc \in Running \cup Main!Ends

\* The variables hold what the consumed options say, the last one of a name.
Consumed ==
  /\ \A f \in Main!Flags : f \in flags <=> ~None(f, optind)
  /\ None("unknown", optind)
  /\ (None("p", optind) /\ task = <<>>) \/ \E i : IsLast("p", i, optind) /\ task = argv[i].task
  /\ (None("f", optind) /\ file = "empty") \/ \E i : IsLast("f", i, optind) /\ file = argv[i].file
  /\ (None("a", optind) /\ query = Main!NoQuery) \/ \E i : IsLast("a", i, optind) /\ query = argv[i].query

\* How far the run has come.
Progress ==
  /\ pc \in {"flags", "parse", "dispatch", "search"} => optind = Len(argv) /\ argv # <<>>
  /\ pc \in {"parse", "dispatch", "search"} => flags = {} /\ task # <<>> /\ file # "empty"
  /\ pc \in {"options", "flags", "parse", "dispatch"} => call = <<>>
  /\ pc = "search" => call # <<>>
  /\ pc \in Running => stdout = <<>>

\* What a search that was started has been asked.
Called ==
  call # <<>> =>
    /\ optind = Len(argv) /\ argv # <<>> /\ flags = {} /\ task # <<>> /\ file # "empty"
    /\ Main!QueryOK
    /\ call = <<Main!string_to_task(task), Main!string_to_sem(task),
                IF Main!string_to_task(task) = "AS" THEN Main!query_argument(query.n) ELSE 0>>

\* What has been written at the end.
Written ==
  pc \in Main!Ends =>
    /\ pc = "exit 0" => \/ stdout = <<Main!Asked>> /\ Main!Asked \in Main!Flags /\ call = <<>>
                        \/ stdout = <<"answer", "newline">> /\ call # <<>>
    /\ pc # "exit 0" => \/ stdout = <<>>
                        \/ stdout = <<"part">> /\ call # <<>> /\ call[1] # "EE"

MainInv == Types /\ Consumed /\ Progress /\ Called /\ Written

-----------------------------------------------------------------------------
\* What is written consists of texts.
LEMMA TextSequences ==
  /\ <<>> \in Seq(Texts) /\ <<"answer", "newline">> \in Seq(Texts)
  /\ <<"part">> \in Seq(Texts) /\ <<"version">> \in Seq(Texts)
<1>1. {"answer", "newline", "part", "version"} \subseteq Texts
  BY DEF Texts, Main!Flags
<1>2. <<>> \in Seq(Texts)
  OBVIOUS
<1>3. \A x, y \in Texts : <<x>> \in Seq(Texts) /\ <<x, y>> \in Seq(Texts)
  OBVIOUS
<1>4. QED
  BY <1>1, <1>2, <1>3

\* The subtraction in uint32_t, for a query that std::stoi has converted.
LEMMA QueryArgument ==
  ASSUME Main!ConversionAssumption, NEW n \in Int
  PROVE  /\ Main!query_argument(n) \in 0 .. UINT_MODULUS - 1
         /\ n \in 1 .. INT_MAX => Main!query_argument(n) + 1 = n
         /\ n <= 0 /\ n >= -INT_MAX - 1 => Main!query_argument(n) >= INT_MAX
<1> DEFINE m == UINT_MODULUS
<1>1. m \in Nat /\ m > 0 /\ INT_MAX \in Nat /\ m = 2 * INT_MAX + 2
  BY DEF Main!ConversionAssumption
<1> HIDE DEF m
<1>2. \A x \in Int : x % m \in 0 .. m - 1
  BY <1>1
<1>3. \A x \in 0 .. m - 1 : x % m = x
  BY <1>1
<1>4. \A x \in Int : -m <= x /\ x < 0 => x % m = x + m
  BY <1>1
<1>5. Main!query_argument(n) = (n - 1) % m
  BY DEF Main!query_argument, m
<1>6. QED
  BY <1>1, <1>2, <1>3, <1>4, <1>5 DEF m

\* The last option of a name is unique, and Last finds it.
LEMMA LastIs ==
  ASSUME Types, NEW name, NEW i, IsLast(name, i, Len(argv))
  PROVE  Main!Last(name) = i
<1>1. Len(argv) \in Nat /\ DOMAIN argv = 1 .. Len(argv)
  BY DEF Types
<1>2. i \in DOMAIN argv /\ argv[i].name = name /\ \A j \in i + 1 .. Len(argv) : argv[j].name # name
  BY <1>1 DEF IsLast
<1>3. \A k \in DOMAIN argv :
        argv[k].name = name /\ (\A j \in k + 1 .. Len(argv) : argv[j].name # name) => k = i
  BY <1>1, <1>2
<1>4. QED
  BY <1>2, <1>3 DEF Main!Last

\* Once all options are consumed, flags are the flags of the command line.
LEMMA FlagsRead ==
  ASSUME Types, Consumed, optind = Len(argv)
  PROVE  /\ ~Main!Has("unknown")
         /\ \A f \in Main!Flags : Main!Has(f) <=> f \in flags
<1>1. DOMAIN argv = 1 .. Len(argv)
  BY DEF Types
<1>2. QED
  BY <1>1 DEF Consumed, None, Main!Has

\* Without a flag the command line asks for a search.
LEMMA AskedSearch ==
  ASSUME Types, Consumed, optind = Len(argv), argv # <<>>, flags = {}
  PROVE  Main!Asked = "search"
<1>1. ~Main!Has("unknown") /\ ~ \E f \in Main!Flags : Main!Has(f)
  BY FlagsRead
<1>2. QED
  BY <1>1 DEF Main!Asked

\* The flag that main looks at first decides.
LEMMA AskedFlag ==
  ASSUME Types, Consumed, optind = Len(argv), argv # <<>>,
         NEW i \in 1 .. 4, Main!FlagOrder[i] \in flags,
         \A j \in 1 .. i - 1 : Main!FlagOrder[j] \notin flags
  PROVE  Main!Asked = Main!FlagOrder[i]
<1>1. \A j \in 1 .. 4 : Main!FlagOrder[j] \in Main!Flags
  BY DEF Main!FlagOrder, Main!Flags
<1>2. ~Main!Has("unknown") /\ \A j \in 1 .. 4 : Main!Has(Main!FlagOrder[j]) <=> Main!FlagOrder[j] \in flags
  BY <1>1, FlagsRead
<1>3. \A k \in 1 .. 4 : Main!Has(Main!FlagOrder[k]) /\ (\A j \in 1 .. k - 1 : ~Main!Has(Main!FlagOrder[j])) => k = i
  BY <1>2
<1>4. i = CHOOSE k \in 1 .. 4 : Main!Has(Main!FlagOrder[k]) /\ \A j \in 1 .. k - 1 : ~Main!Has(Main!FlagOrder[j])
  BY <1>2, <1>3
<1>5. \E f \in Main!Flags : Main!Has(f)
  BY <1>1, <1>2
<1>6. QED
  BY <1>2, <1>4, <1>5 DEF Main!Asked

-----------------------------------------------------------------------------
\* main starts with no option read.
LEMMA MainInitially ==
  ASSUME Main!CommandLinesAssumption, Main!Init
  PROVE  MainInv
<1>1. argv \in Seq(Main!Option) /\ Len(argv) \in Nat
  BY DEF Main!CommandLinesAssumption, Main!Init
<1>2. Types
  <2>1. task \in Seq(STRING)
    BY DEF Main!Init
  <2>2. query \in [kind : {"none", "word", "number"}, n : Int]
    BY DEF Main!Init, Main!NoQuery
  <2>3. QED
    BY <1>1, <2>1, <2>2 DEF Main!Init, Types, Running, Main!FileKinds
<1>3. Consumed
  BY DEF Main!Init, Consumed, None
<1>4. Progress /\ Called /\ Written
  BY DEF Main!Init, Progress, Called, Written, Running, Main!Ends
<1>5. QED
  BY <1>2, <1>3, <1>4 DEF MainInv

\* Nothing about the options depends on the rest.
LEMMA ConsumedKept ==
  ASSUME Consumed, UNCHANGED <<argv, optind, flags, task, file, query>>
  PROVE  Consumed'
BY DEF Consumed, None, IsLast

\* Writing comes after an empty output.
LEMMA EndWrites ==
  ASSUME MainInv, pc \in Running, NEW how, NEW written \in Seq(Texts), Main!End(how, written)
  PROVE  /\ pc' = how /\ stdout' = written
         /\ UNCHANGED <<argv, optind, flags, task, file, query, call>>
         /\ Main!Asked' = Main!Asked
<1>1. stdout = <<>>
  BY DEF MainInv, Progress
<1>2. stdout' = written
  BY <1>1, ConcatEmptySeq DEF Main!End
<1>3. QED
  BY <1>2 DEF Main!End, Main!Asked, Main!Has

\* The steps that end the process.
LEMMA EndStep ==
  ASSUME MainInv, pc \in Running, NEW how \in Main!Ends, NEW written \in Seq(Texts), Main!End(how, written),
         how = "exit 0" => \/ written = <<Main!Asked>> /\ Main!Asked \in Main!Flags /\ call = <<>>
                           \/ written = <<"answer", "newline">> /\ call # <<>>,
         how # "exit 0" => \/ written = <<>>
                           \/ written = <<"part">> /\ call # <<>> /\ call[1] # "EE"
  PROVE  MainInv'
<1>1. /\ pc' = how /\ stdout' = written
      /\ UNCHANGED <<argv, optind, flags, task, file, query, call>>
      /\ Main!Asked' = Main!Asked
  BY EndWrites
<1>2. Types'
  BY <1>1 DEF MainInv, Types
<1>3. Consumed'
  BY <1>1, ConsumedKept DEF MainInv
<1>4. Progress'
  BY <1>1 DEF Progress, Running, Main!Ends
<1>5. Called'
  BY <1>1 DEF MainInv, Called, Main!QueryOK, Main!NotConverted
<1>6. Written'
  <2>1. QED
    BY <1>1 DEF Written
<1>7. QED
  BY <1>2, <1>3, <1>4, <1>5, <1>6 DEF MainInv

\* The steps that only go on to the next phase.
LEMMA PhaseStep ==
  ASSUME MainInv, Main!EndOfOptions \/ Main!HaveValues \/ Main!Parsed \/ UNCHANGED Main!vars
  PROVE  MainInv'
<1>1. UNCHANGED <<argv, optind, flags, task, file, query, stdout, call>>
  BY DEF Main!EndOfOptions, Main!HaveValues, Main!Parsed, Main!vars
<1>2. Types'
  BY <1>1 DEF MainInv, Types, Main!EndOfOptions, Main!HaveValues, Main!Parsed, Main!vars, Running
<1>3. Consumed'
  BY <1>1, ConsumedKept DEF MainInv
<1>4. Progress'
  BY <1>1 DEF MainInv, Progress, Main!EndOfOptions, Main!HaveValues, Main!Parsed, Main!vars, Running
<1>5. Called'
  BY <1>1 DEF MainInv, Called, Main!QueryOK, Main!NotConverted
<1>6. Written'
  <2>1. Main!Asked' = Main!Asked
    BY <1>1 DEF Main!Asked, Main!Has
  <2>2. pc' \notin Main!Ends \/ pc' = pc
    BY DEF Main!EndOfOptions, Main!HaveValues, Main!Parsed, Main!vars, Main!Ends
  <2>3. QED
    BY <1>1, <2>1, <2>2 DEF MainInv, Written
<1>7. QED
  BY <1>2, <1>3, <1>4, <1>5, <1>6 DEF MainInv

\* What one more option does to the last one of a name.
LEMMA LastStep ==
  ASSUME NEW k \in Nat, NEW name
  PROVE  /\ argv[k + 1].name = name => IsLast(name, k + 1, k + 1) /\ ~None(name, k + 1)
         /\ argv[k + 1].name # name =>
              /\ None(name, k + 1) <=> None(name, k)
              /\ \A i : IsLast(name, i, k) => IsLast(name, i, k + 1)
<1>1. \A i \in 1 .. k + 1 : i \in 1 .. k \/ i = k + 1
  OBVIOUS
<1>2. \A i \in 1 .. k : i \in 1 .. k + 1 /\ \A j \in i + 1 .. k + 1 : j \in i + 1 .. k \/ j = k + 1
  OBVIOUS
<1>3. k + 1 \in 1 .. k + 1 /\ \A j : j \notin (k + 1) + 1 .. k + 1
  OBVIOUS
<1>4. QED
  BY <1>1, <1>2, <1>3 DEF IsLast, None

\* An option of the getopt loop is read.
LEMMA OptionStep ==
  ASSUME MainInv, Main!GetFlag \/ Main!GetValue
  PROVE  MainInv'
<1> DEFINE k == optind
           o == argv[k + 1]
<1>1. /\ argv \in Seq(Main!Option) /\ k \in Nat /\ k < Len(argv) /\ Len(argv) \in Nat
      /\ argv' = argv /\ optind' = k + 1 /\ pc = "options" /\ pc' = pc
      /\ stdout' = stdout /\ call' = call
  BY DEF MainInv, Types, Main!GetFlag, Main!GetValue, Main!NextOption
<1>2. o \in Main!Option
  BY <1>1
<1>3. /\ call = <<>> /\ stdout = <<>>
  BY <1>1 DEF MainInv, Progress, Running
<1>4. Progress' /\ Called' /\ Written'
  BY <1>1, <1>3 DEF Progress, Called, Written, Running, Main!Ends
<1>5. \A name, i, n : /\ IsLast(name, i, n)' = IsLast(name, i, n')
                      /\ None(name, n)' = None(name, n')
  BY <1>1 DEF IsLast, None
<1>6. CASE Main!GetFlag
  <2>1. /\ o.name \in Main!Flags /\ flags' = flags \cup {o.name}
        /\ task' = task /\ file' = file /\ query' = query
    BY <1>6 DEF Main!GetFlag, Main!NextOption
  <2>2. Types'
    BY <1>1, <2>1 DEF MainInv, Types
  <2>3. \A name : name # o.name =>
          /\ None(name, k + 1) <=> None(name, k)
          /\ \A i : IsLast(name, i, k) => IsLast(name, i, k + 1)
    BY <1>1, LastStep
  <2>4. ~None(o.name, k + 1)
    BY <1>1, LastStep
  <2>5. {"unknown", "p", "f", "a"} \cap Main!Flags = {}
    BY DEF Main!Flags
  <2>6. Consumed'
    <3>1. \A f \in Main!Flags : f \in flags' <=> ~None(f, k + 1)
      BY <2>1, <2>3, <2>4 DEF MainInv, Consumed
    <3>2. None("unknown", k + 1)
      BY <2>1, <2>3, <2>5 DEF MainInv, Consumed
    <3>3. /\ (None("p", k + 1) /\ task = <<>>) \/ \E i : IsLast("p", i, k + 1) /\ task = argv[i].task
          /\ (None("f", k + 1) /\ file = "empty") \/ \E i : IsLast("f", i, k + 1) /\ file = argv[i].file
          /\ (None("a", k + 1) /\ query = Main!NoQuery) \/ \E i : IsLast("a", i, k + 1) /\ query = argv[i].query
      BY <2>1, <2>3, <2>5 DEF MainInv, Consumed
    <3>4. QED
      BY <1>1, <2>1, <3>1, <3>2, <3>3 DEF Consumed, None, IsLast
  <2>7. QED
    BY <1>4, <2>2, <2>6 DEF MainInv
<1>7. CASE Main!GetValue
  <2>1. /\ o.name \in {"p", "f", "fo", "a", "stray"} /\ flags' = flags
        /\ task' = IF o.name = "p" THEN o.task ELSE task
        /\ file' = IF o.name = "f" THEN o.file ELSE file
        /\ query' = IF o.name = "a" THEN o.query ELSE query
    BY <1>7 DEF Main!GetValue, Main!NextOption
  <2>2. Types'
    <3>1. /\ o.task \in Seq(STRING) /\ o.file \in Main!FileKinds
          /\ o.query \in [kind : {"none", "word", "number"}, n : Int]
      BY <1>2 DEF Main!Option
    <3>2. QED
      BY <1>1, <2>1, <3>1 DEF MainInv, Types
  <2>3. \A name : name # o.name =>
          /\ None(name, k + 1) <=> None(name, k)
          /\ \A i : IsLast(name, i, k) => IsLast(name, i, k + 1)
    BY <1>1, LastStep
  <2>4. IsLast(o.name, k + 1, k + 1)
    BY <1>1, LastStep
  <2>5. \A f \in Main!Flags \cup {"unknown"} : f # o.name
    BY <2>1 DEF Main!Flags
  <2>6. Consumed'
    <3>1. \A f \in Main!Flags : f \in flags' <=> ~None(f, k + 1)
      BY <2>1, <2>3, <2>5 DEF MainInv, Consumed
    <3>2. None("unknown", k + 1)
      BY <2>3, <2>5 DEF MainInv, Consumed
    <3>3. (None("p", k + 1) /\ task' = <<>>) \/ \E i : IsLast("p", i, k + 1) /\ task' = argv[i].task
      BY <2>1, <2>3, <2>4 DEF MainInv, Consumed
    <3>4. (None("f", k + 1) /\ file' = "empty") \/ \E i : IsLast("f", i, k + 1) /\ file' = argv[i].file
      BY <2>1, <2>3, <2>4 DEF MainInv, Consumed
    <3>5. (None("a", k + 1) /\ query' = Main!NoQuery) \/ \E i : IsLast("a", i, k + 1) /\ query' = argv[i].query
      BY <2>1, <2>3, <2>4 DEF MainInv, Consumed
    <3>6. QED
      BY <1>1, <3>1, <3>2, <3>3, <3>4, <3>5 DEF Consumed, None, IsLast
  <2>7. QED
    BY <1>4, <2>2, <2>6 DEF MainInv
<1>8. QED
  BY <1>6, <1>7

\* The search is called with the converted query.
LEMMA DispatchStep ==
  ASSUME MainInv, Main!Dispatch
  PROVE  MainInv'
<1>1. /\ pc = "dispatch" /\ pc' = "search" /\ Main!QueryOK
      /\ UNCHANGED <<argv, optind, flags, task, file, query, stdout>>
      /\ call' = <<Main!string_to_task(task), Main!string_to_sem(task),
                   IF Main!string_to_task(task) = "AS" THEN Main!query_argument(query.n) ELSE 0>>
  BY DEF Main!Dispatch
<1>2. call' # <<>>
  BY <1>1
<1>3. Types'
  BY <1>1 DEF MainInv, Types, Running
<1>4. Consumed'
  BY <1>1, ConsumedKept DEF MainInv
<1>5. Progress'
  BY <1>1, <1>2 DEF MainInv, Progress, Running
<1>6. Called'
  BY <1>1 DEF MainInv, Progress, Called, Main!QueryOK, Main!NotConverted
<1>7. Written'
  BY <1>1 DEF Written, Main!Ends
<1>8. QED
  BY <1>3, <1>4, <1>5, <1>6, <1>7 DEF MainInv

\* Every other step ends the process.
LEMMA EndingStep ==
  ASSUME MainInv,
         \/ Main!NoArguments \/ Main!GetUnknown \/ Main!PrintFlag \/ Main!MissingValue \/ Main!ParseFails
         \/ Main!QueryFails \/ Main!NotSupported \/ Main!SearchReturns \/ Main!SearchGivesUp
  PROVE  MainInv'
<1>1. CASE Main!NoArguments
  <2>1. pc = "options" /\ argv = <<>> /\ Main!End("exit 0", <<"version">>) /\ call = <<>>
    BY <1>1 DEF Main!NoArguments, MainInv, Progress
  <2>2. Main!Asked = "version"
    <3>1. DOMAIN argv = {}
      <4>1. argv \in Seq(Main!Option) /\ Len(argv) = 0
        BY <2>1 DEF MainInv, Types
      <4>2. DOMAIN argv = 1 .. 0
        BY <4>1
      <4>3. QED
        BY <4>2
    <3>2. \A name : ~Main!Has(name)
      BY <3>1 DEF Main!Has
    <3>3. QED
      BY <2>1, <3>2 DEF Main!Asked
  <2>3. "exit 0" \in Main!Ends /\ pc \in Running
    BY <2>1 DEF Main!Ends, Running, Texts, Main!Flags
  <2>4. Main!Asked \in Main!Flags
    BY <2>2 DEF Main!Flags
  <2>5. QED
    BY <2>1, <2>2, <2>3, <2>4, TextSequences, EndStep
<1>2. CASE Main!GetUnknown \/ Main!MissingValue \/ Main!ParseFails \/ Main!QueryFails \/ Main!NotSupported
  <2>1. PICK how \in Main!Ends \ {"exit 0"} : Main!End(how, <<>>)
    <3>1. CASE Main!GetUnknown \/ Main!MissingValue \/ Main!QueryFails \/ Main!NotSupported
      BY <3>1 DEF Main!GetUnknown, Main!MissingValue, Main!QueryFails, Main!NotSupported, Main!Ends
    <3>2. CASE Main!ParseFails
      <4>1. file \in {"missing", "broken", "unreadable"}
        BY <3>2 DEF Main!ParseFails, MainInv, Types, Progress, Main!FileKinds
      <4>2. QED
        BY <3>2, <4>1 DEF Main!ParseFails, Main!Ends
    <3>3. QED
      BY <1>2, <3>1, <3>2
  <2>2. pc \in Running
    BY <1>2 DEF Main!GetUnknown, Main!MissingValue, Main!ParseFails, Main!QueryFails, Main!NotSupported, Main!NextOption, Running
  <2>3. QED
    BY <2>1, <2>2, TextSequences, EndStep
<1>3. CASE Main!PrintFlag
  <2>1. PICK i \in DOMAIN Main!FlagOrder :
          /\ Main!FlagOrder[i] \in flags
          /\ \A j \in 1 .. i - 1 : Main!FlagOrder[j] \notin flags
          /\ Main!End("exit 0", <<Main!FlagOrder[i]>>)
    BY <1>3 DEF Main!PrintFlag
  <2>2. i \in 1 .. 4
    BY DEF Main!FlagOrder
  <2>3. pc = "flags" /\ optind = Len(argv) /\ argv # <<>> /\ call = <<>>
    BY <1>3 DEF Main!PrintFlag, MainInv, Progress
  <2>4. Main!Asked = Main!FlagOrder[i]
    BY <2>1, <2>2, <2>3, AskedFlag DEF MainInv
  <2>5. Main!FlagOrder[i] \in Main!Flags /\ Main!FlagOrder[i] \in Texts
    BY <2>2 DEF Main!FlagOrder, Main!Flags, Texts
  <2>6. <<Main!FlagOrder[i]>> \in Seq(Texts) /\ "exit 0" \in Main!Ends /\ pc \in Running
    BY <2>3, <2>5 DEF Main!Ends, Running
  <2>7. QED
    BY <2>1, <2>3, <2>4, <2>5, <2>6, EndStep
<1>4. CASE Main!SearchReturns
  <2>1. pc = "search" /\ Main!End("exit 0", <<"answer", "newline">>) /\ call # <<>>
    BY <1>4 DEF Main!SearchReturns, MainInv, Progress
  <2>2. "exit 0" \in Main!Ends /\ pc \in Running
    BY <2>1 DEF Main!Ends, Running, Texts, Main!Flags
  <2>3. QED
    BY <2>1, <2>2, TextSequences, EndStep
<1>5. CASE Main!SearchGivesUp
  <2>1. PICK written \in {<<>>, <<"part">>} :
          (call[1] = "EE" => written = <<>>) /\ Main!End("exit 1", written)
    BY <1>5 DEF Main!SearchGivesUp
  <2>2. pc = "search" /\ call # <<>>
    BY <1>5 DEF Main!SearchGivesUp, MainInv, Progress
  <2>3. "exit 1" \in Main!Ends /\ pc \in Running
    BY <2>2 DEF Main!Ends, Running, Texts
  <2>4. written = <<>> \/ (written = <<"part">> /\ call # <<>> /\ call[1] # "EE")
    BY <2>1, <2>2
  <2>5. QED
    BY <2>1, <2>3, <2>4, TextSequences, EndStep
<1>6. QED
  BY <1>1, <1>2, <1>3, <1>4, <1>5

(***************************************************************************)
(* The invariant holds for every command line.                             *)
(***************************************************************************)
LEMMA MainInvariance ==
  ASSUME Main!CommandLinesAssumption
  PROVE  (Main!Init => MainInv) /\ (MainInv /\ [Main!Next]_(Main!vars) => MainInv')
<1>1. Main!Init => MainInv
  BY MainInitially
<1>2. MainInv /\ [Main!Next]_(Main!vars) => MainInv'
  BY PhaseStep, OptionStep, DispatchStep, EndingStep DEF Main!Next
<1>3. QED
  BY <1>1, <1>2

(***************************************************************************)
(* The variables of main keep their types, and a query reaches a search    *)
(* only as a number of uint32_t.                                           *)
(***************************************************************************)
LEMMA MainTypes ==
  ASSUME Main!CommandLinesAssumption, Main!ConversionAssumption
  PROVE  MainInv => Main!TypeOK
<1>1. SUFFICES ASSUME MainInv PROVE Main!TypeOK
  OBVIOUS
<1>2. call = <<>> \/ (Len(call) = 3 /\ call[3] \in 0 .. UINT_MODULUS - 1)
  <2>1. query.n \in Int
    BY <1>1 DEF MainInv, Types
  <2>2. Main!query_argument(query.n) \in 0 .. UINT_MODULUS - 1 /\ 0 \in 0 .. UINT_MODULUS - 1
    BY <2>1, QueryArgument DEF Main!ConversionAssumption
  <2>3. QED
    BY <1>1, <2>2 DEF MainInv, Called
<1>3. QED
  BY <1>1, <1>2 DEF MainInv, Types, Main!TypeOK, Running

(***************************************************************************)
(* Options mean the same in every order: main answers what the command     *)
(* line asks for as a whole.                                               *)
(***************************************************************************)
LEMMA AsAsked ==
  ASSUME Main!CommandLinesAssumption, Main!ConversionAssumption
  PROVE  MainInv => Main!OrderIrrelevant
<1>1. SUFFICES ASSUME MainInv PROVE Main!OrderIrrelevant
  OBVIOUS
<1>2. call # <<>> => Main!Asked = "search"
  BY <1>1, AskedSearch DEF MainInv, Called
<1>3. pc = "exit 0" => Main!Asked # "nothing"
  <2>1. QED
    BY <1>1, <1>2 DEF MainInv, Written, Main!Ends, Main!Flags
<1>4. stdout # <<>> /\ stdout[1] \in Main!Flags => stdout = <<Main!Asked>>
  <2>1. {"answer", "part"} \cap Main!Flags = {}
    BY DEF Main!Flags
  <2>2. pc \in Running \/ pc \in Main!Ends
    BY <1>1 DEF MainInv, Types
  <2>3. pc \in Running => stdout = <<>>
    BY <1>1 DEF MainInv, Progress
  <2>4. pc \in Main!Ends => \/ stdout = <<Main!Asked>> \/ stdout = <<"answer", "newline">>
                       \/ stdout = <<>> \/ stdout = <<"part">>
    BY <1>1 DEF MainInv, Written
  <2>5. <<"answer", "newline">>[1] = "answer" /\ <<"part">>[1] = "part"
    OBVIOUS
  <2>6. QED
    BY <2>1, <2>2, <2>3, <2>4, <2>5
<1>5. ASSUME call # <<>>
      PROVE  /\ call[1] = argv[Main!Last("p")].task[1]
             /\ file = argv[Main!Last("f")].file
             /\ call[1] = "AS" /\ argv[Main!Last("a")].query.n \in 1 .. INT_MAX =>
                  call[3] + 1 = argv[Main!Last("a")].query.n
  <2>1. /\ optind = Len(argv) /\ task # <<>> /\ file # "empty" /\ Main!QueryOK
        /\ call = <<Main!string_to_task(task), Main!string_to_sem(task),
                    IF Main!string_to_task(task) = "AS" THEN Main!query_argument(query.n) ELSE 0>>
    BY <1>1, <1>5 DEF MainInv, Called
  <2>2. task = argv[Main!Last("p")].task /\ file = argv[Main!Last("f")].file
    BY <1>1, <2>1, LastIs DEF MainInv, Consumed
  <2>3. call[1] = task[1] /\ (call[1] = "AS" => call[3] = Main!query_argument(query.n))
    BY <2>1 DEF Main!string_to_task
  <2>4. call[1] = "AS" => query = argv[Main!Last("a")].query
    <3>1. call[1] = "AS" => query.kind # "none"
      BY <2>1, <2>3 DEF Main!QueryOK, Main!string_to_task
    <3>2. Main!NoQuery.kind = "none"
      BY DEF Main!NoQuery
    <3>3. QED
      BY <1>1, <2>1, <3>1, <3>2, LastIs DEF MainInv, Consumed
  <2>5. query.n \in Int
    BY <1>1 DEF MainInv, Types
  <2>6. query.n \in 1 .. INT_MAX => Main!query_argument(query.n) + 1 = query.n
    BY <2>5, QueryArgument
  <2>7. QED
    BY <2>2, <2>3, <2>4, <2>6
<1>6. QED
  <2>1. QED
    BY <1>2, <1>3, <1>4, <1>5 DEF Main!OrderIrrelevant

(***************************************************************************)
(* A query of 0 or less becomes a number that no framework reaches.        *)
(***************************************************************************)
LEMMA WrappingIsHarmless ==
  ASSUME Main!CommandLinesAssumption, Main!ConversionAssumption
  PROVE  MainInv => Main!WrappedQueryHarmless
<1>1. SUFFICES ASSUME MainInv, call # <<>>, call[1] = "AS", query.n <= 0
               PROVE  call[3] >= INT_MAX
  BY DEF Main!WrappedQueryHarmless
<1>2. /\ Main!QueryOK
      /\ call = <<Main!string_to_task(task), Main!string_to_sem(task),
                  IF Main!string_to_task(task) = "AS" THEN Main!query_argument(query.n) ELSE 0>>
  BY <1>1 DEF MainInv, Called
<1>3. Main!string_to_task(task) = "AS" /\ call[3] = Main!query_argument(query.n)
  BY <1>1, <1>2
<1>4. query.n \in Int /\ ~(query.n < -INT_MAX - 1)
  BY <1>1, <1>2, <1>3 DEF Main!QueryOK, Main!NotConverted, MainInv, Types
<1>5. query.n >= -INT_MAX - 1
  BY <1>4 DEF Main!ConversionAssumption
<1>6. QED
  BY <1>1, <1>3, <1>4, <1>5, QueryArgument

(***************************************************************************)
(* Exit status 0 goes with a complete answer and no other status does.     *)
(***************************************************************************)
LEMMA SuccessAnswers ==
  ASSUME Main!CommandLinesAssumption
  PROVE  MainInv => Main!SuccessMeansAnswer
<1>1. MainInv => Main!SuccessMeansAnswer
  <2>1. SUFFICES ASSUME MainInv, pc \in Main!Ends
                 PROVE  /\ pc = "exit 0" <=> stdout \in {<<f>> : f \in Main!Flags} \cup {<<"answer", "newline">>}
                        /\ pc # "exit 0" => stdout = <<>> \/ (stdout = <<"part">> /\ call[1] # "EE")
    BY DEF Main!SuccessMeansAnswer
  <2>2. <<>> # <<"answer", "newline">> /\ <<"part">> # <<"answer", "newline">>
    OBVIOUS
  <2>3. \A f \in Main!Flags : <<>> # <<f>> /\ <<"part">> # <<f>>
    BY DEF Main!Flags
  <2>4. QED
    <3>1. QED
      BY <2>1, <2>2, <2>3 DEF MainInv, Written
<1>2. QED
  BY <1>1

-----------------------------------------------------------------------------
(* The program.                                                            *)

\* The invariant of the part that runs.
ProgramInv == On("parse", ParseInv) /\ On("main", MainInv)

LEMMA ProgramInvariance == Spec => []ProgramInv
<1> USE ConstantsAssumption
<1>1. Init => ProgramInv
  BY ParseInvariance, MainInvariance DEF Init, ProgramInv, On
<1>2. ProgramInv /\ [Next]_vars => ProgramInv'
  <2>1. SUFFICES ASSUME ProgramInv, [Next]_vars PROVE ProgramInv'
    OBVIOUS
  <2>2. CASE ParseStep
    BY <2>1, <2>2, ParseInvariance DEF ParseStep, ProgramInv, On
  <2>3. CASE MainStep
    BY <2>1, <2>3, MainInvariance DEF MainStep, ProgramInv, On
  <2>4. CASE UNCHANGED vars
    <3>1. part' = part /\ UNCHANGED Parse!vars /\ UNCHANGED Main!vars
      BY <2>4 DEF vars, Parse!vars, Parse!locals, Parse!af, Parse!active, Main!vars
    <3>2. QED
      BY <2>1, <3>1, ParseInvariance, MainInvariance DEF ProgramInv, On
  <2>5. QED
    BY <2>1, <2>2, <2>3, <2>4 DEF Next
<1>3. Spec => Init /\ [][Next]_vars
  BY PTL DEF Spec
<1>4. QED
  BY <1>1, <1>2, <1>3, PTL

\* Every well-formed file is read without undefined behaviour into the framework it states
\* (parse_i23).
THEOREM WellFormedRead == Spec => []WellFormedExact
<1>1. ProgramInv => WellFormedExact
  BY ConstantsAssumption, FrameworkAsStated DEF ProgramInv, On, WellFormedExact
<1>2. QED
  BY <1>1, ProgramInvariance, PTL

\* However broken a file is, with at most one header attackers and attacked mirror each other
\* and array and bitset hold the arguments; what source and target hold before the first
\* attack line never gets into the framework, if the first lines are complete (parse_i23).
THEOREM ListsMirror == Spec => []Mirrored
<1>1. ProgramInv => Mirrored
  BY ConstantsAssumption, ParseTypes, ParseMirrored, GarbageStaysOut DEF ProgramInv, On, Mirrored
<1>2. QED
  BY <1>1, ProgramInvariance, PTL

\* Options mean the same in every order: main answers what the command line asks for as a
\* whole; a query of 0 or less becomes a number that no framework reaches (main).
THEOREM OrderIsIrrelevant == Spec => []OrderIrrelevant
<1>1. ProgramInv => OrderIrrelevant
  BY ConstantsAssumption, AsAsked, WrappingIsHarmless DEF ProgramInv, On, OrderIrrelevant
<1>2. QED
  BY <1>1, ProgramInvariance, PTL

\* Exit status 0 goes with a complete answer and no other status does (main).
THEOREM SuccessIsAnswer == Spec => []SuccessMeansAnswer
<1>1. ProgramInv => SuccessMeansAnswer
  BY ConstantsAssumption, MainTypes, SuccessAnswers DEF ProgramInv, On, SuccessMeansAnswer
<1>2. QED
  BY <1>1, ProgramInvariance, PTL
=============================================================================
