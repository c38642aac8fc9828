------------------------ MODULE ArgumentationProofs ------------------------
(***************************************************************************)
(* What is shown of argumentation frameworks, serialisation sequences and  *)
(* the SAT encoding, for every number of arguments, every framework and    *)
(* every IterableBitSet.                                                   *)
(***************************************************************************)
EXTENDS Argumentation, FiniteSetTheorems, WellFoundedInduction, SequenceTheorems, TLAPS

(***************************************************************************)
(* The conversion to int32_t changes no variable, so that accepted_var and *)
(* rejected_var number all variables apart (src/AF.cpp).                   *)
(***************************************************************************)
LEMMA ToIntIdentity ==
  ASSUME NEW x \in Nat, x <= 2 * args
  PROVE  to_int(x) = x
<1> DEFINE h == UINT_MODULUS \div 2
<1>1. UINT_MODULUS \in Nat /\ UINT_MODULUS > 0 /\ 2 * args < h /\ args \in Nat
  BY WidthAssumption, ArgsAssumption
<1>2. h \in Nat /\ h <= UINT_MODULUS
  BY <1>1
<1>3. x < h /\ x < UINT_MODULUS
  BY <1>1, <1>2
<1>4. x % UINT_MODULUS = x
  BY <1>1, <1>3
<1>5. QED
  BY <1>3, <1>4 DEF to_int

\* accepted_var and rejected_var number all variables apart and do not wrap (AF.h).
LEMMA VariablesApart ==
  ASSUME NEW a \in Arg
  PROVE  /\ accepted_var(a) = a + 1 /\ a + 1 \in 1 .. args
         /\ rejected_var(a) = args + a + 1 /\ args + a + 1 \in args + 1 .. 2 * args
<1>1. args \in Nat /\ a \in Nat /\ a < args
  BY ArgsAssumption DEF Arg
<1>2. a + 1 \in Nat /\ a + 1 <= 2 * args /\ args + a + 1 \in Nat /\ args + a + 1 <= 2 * args
  BY <1>1
<1>3. QED
  BY <1>1, <1>2, ToIntIdentity DEF accepted_var, rejected_var

(***************************************************************************)
(* What enumerate_initial returns is a set of non-empty conflict-free sets *)
(* of listed arguments as long as the array is part of the bitset.         *)
(***************************************************************************)
LEMMA EncodedSetsConflictFree ==
  ASSUME NEW R \in Framework, NEW active \in IterableBitSet,
         active.array \subseteq active.bitset,
         NEW S \in EncodedInitialSets(R, active)
  PROVE  S \subseteq active.array /\ S # {} /\ ConflictFree(R, S)
<1>1. EncodedAdmissible(R, active, S) /\ S \subseteq active.array
  BY DEF EncodedInitialSets
<1>2. S \subseteq Arg
  BY <1>1 DEF IterableBitSet
<1>3. ASSUME NEW a \in S, NEW b \in S, <<a, b>> \in R
      PROVE  FALSE
  <2>1. a \in active_attackers(R, active, b) \cap active.array
    BY <1>1, <1>2, <1>3 DEF active_attackers, attackers
  <2>2. QED
    BY <1>1, <2>1 DEF EncodedAdmissible
<1>4. QED
  BY <1>1, <1>3 DEF EncodedAdmissible, ConflictFree

(***************************************************************************)
(* Without phantoms the encoding describes the admissible sets, hence      *)
(* enumerate_initial returns the initial sets.                             *)
(***************************************************************************)
LEMMA EncodedIsAdmissible ==
  ASSUME NEW R \in Framework, NEW active \in IterableBitSet,
         active.bitset = active.array,
         NEW S \in SUBSET active.array
  PROVE  EncodedAdmissible(R, active, S)
           <=> S # {} /\ Admissible(R, active.array, S)
<1> DEFINE X == active.array
<1>1. X \subseteq Arg /\ Phantoms(active) = {} /\ S \subseteq Arg
  BY DEF IterableBitSet, Phantoms
<1>2. \A a \in Arg, b \in Arg :
        b \in active_attackers(R, active, a) <=> b \in X /\ <<b, a>> \in R
  BY DEF active_attackers, attackers
<1>3. ASSUME EncodedAdmissible(R, active, S)
      PROVE  S # {} /\ Admissible(R, X, S)
  <2>1. ASSUME NEW a \in S, NEW b \in X, <<b, a>> \in R
        PROVE  b \notin S /\ \E c \in S : <<c, b>> \in R
    <3>1. /\ b \notin S
          /\ active_attackers(R, active, b) \cap (S \cup Phantoms(active)) # {}
      BY <1>1, <1>2, <1>3, <2>1 DEF EncodedAdmissible
    <3>2. PICK c \in S : c \in active_attackers(R, active, b)
      BY <3>1, <1>1
    <3>3. QED
      BY <3>1, <3>2, <1>1, <1>2
  <2>2. QED
    BY <1>3, <2>1 DEF EncodedAdmissible, Admissible, ConflictFree
<1>4. ASSUME S # {}, Admissible(R, X, S)
      PROVE  EncodedAdmissible(R, active, S)
  <2>1. ASSUME NEW a \in S,
               NEW b \in active_attackers(R, active, a) \cap active.array
        PROVE  /\ b \notin S
               /\ active_attackers(R, active, b) \cap (S \cup Phantoms(active)) # {}
    <3>1. b \in X /\ <<b, a>> \in R
      BY <1>1, <1>2
    <3>2. PICK c \in S : <<c, b>> \in R
      BY <1>4, <3>1 DEF Admissible
    <3>3. c \in active_attackers(R, active, b)
      BY <1>1, <1>2, <3>1, <3>2
    <3>4. QED
      BY <1>4, <3>1, <3>3 DEF Admissible, ConflictFree
  <2>2. QED
    BY <1>4, <2>1 DEF EncodedAdmissible
<1>5. QED
  BY <1>3, <1>4

\* As long as array and bitset agree, enumerate_initial returns the initial sets.
LEMMA EncodedIsInitial ==
  ASSUME NEW R \in Framework, NEW active \in IterableBitSet,
         active.bitset = active.array
  PROVE  EncodedInitialSets(R, active) = InitialSets(R, active.array)
<1>1. \A S \in SUBSET active.array : \A T \in SUBSET S :
        EncodedAdmissible(R, active, T) <=> T # {} /\ Admissible(R, active.array, T)
  BY EncodedIsAdmissible
<1>2. QED
  BY <1>1, EncodedIsAdmissible DEF EncodedInitialSets, InitialSets

(***************************************************************************)
(* Below every encoded admissible set there is a minimal one: the          *)
(* arguments are finitely many.                                            *)
(***************************************************************************)
LEMMA InitialBelow ==
  ASSUME NEW R \in Framework, NEW active \in IterableBitSet,
         NEW S, EncodedAdmissible(R, active, S)
  PROVE  \E T \in EncodedInitialSets(R, active) : T \subseteq S
<1> DEFINE below == {T \in SUBSET S : EncodedAdmissible(R, active, T)}
<1>1. S \subseteq active.array /\ S \subseteq Arg
  BY DEF EncodedAdmissible, IterableBitSet
<1>2. IsFiniteSet(Arg)
  BY FS_Interval, ArgsAssumption DEF Arg
<1>3. IsWellFoundedOn(StrictSubsetOrdering(Arg), SUBSET Arg)
  BY <1>2, FS_StrictSubsetOrderingWellFounded, FS_FiniteSubsetsOfFinite
<1>4. below \subseteq SUBSET Arg /\ below # {}
  BY <1>1
<1>5. PICK T \in below : \A U \in below : ~ (<<U, T>> \in StrictSubsetOrdering(Arg))
  <2> HIDE DEF below
  <2>1. QED
    BY <1>3, <1>4, WFMin
<1>6. T \subseteq S /\ T \subseteq active.array /\ EncodedAdmissible(R, active, T)
  BY <1>1, <1>5
<1>7. ASSUME NEW U \in SUBSET T, EncodedAdmissible(R, active, U)
      PROVE  U = T
  BY <1>1, <1>5, <1>6, <1>7 DEF StrictSubsetOrdering
<1>8. QED
  BY <1>6, <1>7 DEF EncodedInitialSets

-----------------------------------------------------------------------------
(***************************************************************************)
(* Appending to a sequence of sets.                                        *)
(***************************************************************************)
LEMMA AppendFacts ==
  ASSUME NEW q \in Seq(SUBSET Arg), NEW S \in SUBSET Arg
  PROVE  /\ Append(q, S) \in Seq(SUBSET Arg)
         /\ Len(Append(q, S)) = Len(q) + 1
         /\ \A i \in 1 .. Len(q) : Append(q, S)[i] = q[i]
         /\ Append(q, S)[Len(q) + 1] = S
         /\ SubSeq(Append(q, S), 1, Len(Append(q, S)) - 1) = q
         /\ Append(q, S) # <<>>
  OBVIOUS

(***************************************************************************)
(* Dropping the last element: of a sequence of sets or of the stack.       *)
(***************************************************************************)
LEMMA FrontFacts ==
  ASSUME NEW E, NEW q \in Seq(E), q # <<>>
  PROVE  /\ Len(q) \in 1 .. Len(q)
         /\ SubSeq(q, 1, Len(q) - 1) \in Seq(E)
         /\ Len(SubSeq(q, 1, Len(q) - 1)) = Len(q) - 1
         /\ \A i \in 1 .. Len(q) - 1 :
              i \in 1 .. Len(q) /\ SubSeq(q, 1, Len(q) - 1)[i] = q[i]
<1> DEFINE n == Len(q) - 1
           p == SubSeq(q, 1, n)
<1>1. Len(q) \in Nat \ {0} /\ \A i \in 1 .. Len(q) : q[i] \in E
  OBVIOUS
<1>2. n \in Nat /\ \A i \in 1 .. n : i \in 1 .. Len(q) /\ q[i] \in E
  BY <1>1
<1> HIDE DEF n
<1>3. /\ p \in Seq(E)
      /\ Len(p) = IF 1 <= n THEN n - 1 + 1 ELSE 0
      /\ \A i \in 1 .. n - 1 + 1 : p[i] = q[1 + i - 1]
  BY <1>2, SubSeqProperties
<1> HIDE DEF p
<1>4. Len(p) = n /\ \A i \in 1 .. n : p[i] = q[i]
  BY <1>2, <1>3
<1>5. QED
  BY <1>1, <1>2, <1>3, <1>4 DEF n, p

\* What a sequence covers, and covers before an element, when a set is appended.
LEMMA CoveredFacts ==
  ASSUME NEW q \in Seq(SUBSET Arg), NEW S \in SUBSET Arg
  PROVE  /\ Covered(<<>>) = {}
         /\ Covered(q) \subseteq Arg
         /\ Covered(Append(q, S)) = Covered(q) \cup S
         /\ Before(Append(q, S), Len(q) + 1) = Covered(q)
         /\ \A i \in 1 .. Len(q) : Before(Append(q, S), i) = Before(q, i)
<1> DEFINE p == Append(q, S)
<1>1. /\ Len(p) = Len(q) + 1
      /\ \A i \in 1 .. Len(q) : p[i] = q[i]
      /\ p[Len(q) + 1] = S
      /\ Len(q) \in Nat
  BY AppendFacts
<1>2. \A i \in 1 .. Len(q) : q[i] \in SUBSET Arg
  OBVIOUS
<1> HIDE DEF p
<1>3. Covered(<<>>) = {}
  BY DEF Covered
<1>4. Covered(q) \subseteq Arg
  BY <1>2 DEF Covered
<1>5. Covered(p) = Covered(q) \cup S
  <2>1. 1 .. Len(p) = (1 .. Len(q)) \cup {Len(q) + 1}
    BY <1>1
  <2>2. QED
    BY <2>1, <1>1 DEF Covered
<1>6. Before(p, Len(q) + 1) = Covered(q)
  <2>1. 1 .. (Len(q) + 1) - 1 = 1 .. Len(q)
    BY <1>1
  <2>2. QED
    BY <2>1, <1>1 DEF Covered, Before
<1>7. ASSUME NEW i \in 1 .. Len(q)
      PROVE  Before(p, i) = Before(q, i)
  <2>1. \A j \in 1 .. i - 1 : j \in 1 .. Len(q)
    BY <1>1
  <2>2. QED
    BY <2>1, <1>1 DEF Before
<1>8. QED
  BY <1>3, <1>4, <1>5, <1>6, <1>7 DEF p

(***************************************************************************)
(* The reduct: removing first U and then S is removing their union, and    *)
(* the bits left over are the arguments that S attacks outside the reduct. *)
(***************************************************************************)
LEMMA ReductStep ==
  ASSUME NEW R \in Framework, NEW active \in IterableBitSet,
         NEW U \in SUBSET Arg, NEW S \in SUBSET Arg,
         S \subseteq active.array, active.array = Reduct(R, U)
  PROVE  /\ get_reduct(R, active, S) \in IterableBitSet
         /\ get_reduct(R, active, S).array = Reduct(R, U \cup S)
         /\ get_reduct(R, active, S).array \subseteq get_reduct(R, active, S).bitset
<1>1. Attacked(R, U \cup S) = Attacked(R, U) \cup Attacked(R, S)
  BY DEF Attacked
<1>2. active.array \subseteq Arg /\ Attacked(R, S) \subseteq Arg
  BY DEF IterableBitSet, Attacked
<1>3. QED
  BY <1>1, <1>2 DEF get_reduct, IterableBitSet, Reduct

\* get_reduct leaves the bit of an attacked argument set if it was not listed.
LEMMA ReductPhantoms ==
  ASSUME NEW R, NEW active, NEW S \in SUBSET active.array
  PROVE  Phantoms(get_reduct(R, active, S)) = Attacked(R, S) \ active.array
  BY DEF get_reduct, Phantoms

(***************************************************************************)
(* An unattacked argument is an initial set by itself.                     *)
(***************************************************************************)
LEMMA UnattackedIsInitial ==
  ASSUME NEW R \in Framework, NEW X \in SUBSET Arg, NEW a \in Unattacked(R, X)
  PROVE  {a} \in InitialSets(R, X)
<1>1. a \in X /\ \A b \in X : <<b, a>> \notin R
  BY DEF Unattacked, attackers
<1>2. Admissible(R, X, {a})
  BY <1>1 DEF Admissible, ConflictFree
<1>3. QED
  BY <1>1, <1>2 DEF InitialSets

(***************************************************************************)
(* Modularity: an admissible set of the reduct by an admissible set U      *)
(* extends U to an admissible set of the whole framework.                  *)
(***************************************************************************)
LEMMA AdmissibleUnion ==
  ASSUME NEW R \in Framework, NEW U, NEW S,
         Admissible(R, Arg, U), Admissible(R, Reduct(R, U), S)
  PROVE  Admissible(R, Arg, U \cup S)
<1>1. /\ U \subseteq Arg /\ S \subseteq Arg
      /\ \A a \in S : a \notin U /\ \A b \in U : <<b, a>> \notin R
  BY DEF Admissible, Reduct, Attacked
<1>2. ASSUME NEW a \in U, NEW b \in Arg, <<b, a>> \in R
      PROVE  \E c \in U : <<c, b>> \in R
  BY <1>2 DEF Admissible
<1>3. ConflictFree(R, U \cup S)
  BY <1>1, <1>2 DEF Admissible, ConflictFree
<1>4. ASSUME NEW a \in S, NEW b \in Arg, <<b, a>> \in R
      PROVE  \E c \in U \cup S : <<c, b>> \in R
  <2>1. CASE b \in Reduct(R, U)
    BY <2>1, <1>4 DEF Admissible
  <2>2. CASE b \in U
    BY <2>2, <1>1, <1>4
  <2>3. CASE b \in Attacked(R, U)
    BY <2>3 DEF Attacked
  <2>4. QED
    BY <2>1, <2>2, <2>3 DEF Reduct
<1>5. QED
  BY <1>1, <1>2, <1>3, <1>4 DEF Admissible

-----------------------------------------------------------------------------
(***************************************************************************)
(* Induction by the least counterexample: a set of natural numbers that is *)
(* not empty has a least member.                                           *)
(***************************************************************************)
LEMMA LeastNumber ==
  ASSUME NEW T \in SUBSET Nat, T # {}
  PROVE  \E n \in T : \A m \in T : n <= m
<1>1. IsWellFoundedOn(OpToRel(<, Nat), Nat)
  BY NatLessThanWellFounded
<1>2. PICK n \in T : \A m \in T : ~ (<<m, n>> \in OpToRel(<, Nat))
  BY <1>1, WFMin
<1>3. \A m \in T : <<m, n>> \in Nat \X Nat /\ ~(m < n)
  BY <1>2 DEF OpToRel
<1>4. ASSUME NEW m \in T PROVE n <= m
  <2>1. m \in Nat /\ n \in Nat /\ ~(m < n)
    BY <1>3
  <2>2. QED
    BY <2>1
<1>5. QED
  BY <1>4

\* The recursion of Serialisations.
More(R, L) ==
  UNION {{Append(q, S) : S \in InitialSets(R, Reduct(R, Covered(q)))} : q \in L}

IsLevel(R, f, n) ==
  f = [k \in 0 .. n |-> IF k = 0 THEN {<<>>} ELSE More(R, f[k - 1])]

\* The recursion defines a function.
LEMMA LevelExists ==
  ASSUME NEW R
  PROVE  \E f : IsLevel(R, f, args)
<1> DEFINE bad == {n \in Nat : ~ \E f : IsLevel(R, f, n)}
<1>1. ASSUME bad # {} PROVE FALSE
  <2>1. PICK n \in bad : \A m \in bad : n <= m
    <3> HIDE DEF bad
    <3>1. bad \in SUBSET Nat
      BY DEF bad
    <3>2. QED
      BY <1>1, <3>1, LeastNumber
  <2>2. n \in Nat
    OBVIOUS
  <2>3. n # 0
    <3>1. SUFFICES ASSUME n = 0 PROVE \E f : IsLevel(R, f, n)
      BY <2>1
    <3> DEFINE g == [k \in 0 .. 0 |-> {<<>>}]
    <3>2. IsLevel(R, g, n)
      BY <3>1 DEF IsLevel
    <3>3. QED
      BY <3>2
  <2>4. n - 1 \in Nat /\ n - 1 \notin bad
    <3> HIDE DEF bad
    <3>1. QED
      BY <2>1, <2>2, <2>3
  <2>5. PICK f : IsLevel(R, f, n - 1)
    BY <2>4
  <2> DEFINE g == [k \in 0 .. n |-> IF k = n THEN More(R, f[n - 1]) ELSE f[k]]
  <2>6. \A k \in 0 .. n - 1 : f[k] = IF k = 0 THEN {<<>>} ELSE More(R, f[k - 1])
    BY <2>5 DEF IsLevel
  <2>7. ASSUME NEW k \in 0 .. n
        PROVE  g[k] = IF k = 0 THEN {<<>>} ELSE More(R, g[k - 1])
    <3>1. k # 0 => k - 1 \in 0 .. n /\ k - 1 # n /\ g[k - 1] = f[k - 1]
      BY <2>2
    <3>2. k # n => k \in 0 .. n - 1
      BY <2>2
    <3>3. QED
      BY <2>3, <2>6, <3>1, <3>2
  <2>8. IsLevel(R, g, n)
    <3>1. g = [k \in 0 .. n |-> g[k]]
      OBVIOUS
    <3> HIDE DEF g
    <3>2. QED
      BY <2>7, <3>1 DEF IsLevel
  <2>9. QED
    BY <2>1, <2>8
<1>2. QED
  BY <1>1, ArgsAssumption

(***************************************************************************)
(* What is added to a serialisation sequence is an initial set.            *)
(***************************************************************************)
LEMMA SerialisationAppend ==
  ASSUME NEW R \in Framework, NEW q \in Seq(SUBSET Arg), NEW S \in SUBSET Arg
  PROVE  IsSerialisation(R, Append(q, S))
           <=> IsSerialisation(R, q) /\ S \in InitialSets(R, Reduct(R, Covered(q)))
<1> DEFINE p == Append(q, S)
           n == Len(q)
<1>1. n \in Nat /\ Len(p) = n + 1 /\ p[n + 1] = S /\ \A i \in 1 .. n : p[i] = q[i]
  BY AppendFacts
<1>2. Before(p, n + 1) = Covered(q) /\ \A i \in 1 .. n : Before(p, i) = Before(q, i)
  BY CoveredFacts
<1>3. 1 .. n + 1 = 1 .. n \cup {n + 1}
  BY <1>1
<1> HIDE DEF p, n
<1>4. IsSerialisation(R, p) <=>
        /\ \A i \in 1 .. n : q[i] \in InitialSets(R, Reduct(R, Before(q, i)))
        /\ S \in InitialSets(R, Reduct(R, Covered(q)))
  BY <1>1, <1>2, <1>3 DEF IsSerialisation
<1>5. QED
  BY <1>4 DEF IsSerialisation, p, n

(***************************************************************************)
(* A sequence of non-empty sets none of which overlaps one before it has   *)
(* at most args elements.                                                  *)
(***************************************************************************)
LEMMA SerialisationShort ==
  ASSUME NEW R \in Framework, NEW q \in Seq(SUBSET Arg), IsSerialisation(R, q)
  PROVE  Len(q) <= args
<1> DEFINE n == Len(q)
           pick == [i \in 1 .. n |-> CHOOSE a \in q[i] : TRUE]
<1>1. n \in Nat /\ \A i \in 1 .. n : q[i] \in SUBSET Arg
  OBVIOUS
<1>2. ASSUME NEW i \in 1 .. n
      PROVE  pick[i] \in q[i] /\ q[i] \cap Before(q, i) = {}
  <2>1. q[i] \in InitialSets(R, Reduct(R, Before(q, i)))
    BY DEF IsSerialisation
  <2>2. q[i] # {} /\ q[i] \cap Before(q, i) = {}
    BY <2>1 DEF InitialSets, Reduct
  <2>3. QED
    BY <2>2
<1>3. \A i, j \in 1 .. n : i < j => q[i] \subseteq Before(q, j)
  <2>1. \A i, j \in 1 .. n : i < j => i \in 1 .. j - 1
    BY <1>1
  <2>2. QED
    BY <2>1 DEF Before
<1> HIDE DEF pick, n
<1>4. \A i, j \in 1 .. n : i < j => pick[i] # pick[j]
  BY <1>2, <1>3
<1>5. \A i, j \in 1 .. n : i # j => i < j \/ j < i
  BY <1>1
<1>6. pick \in [1 .. n -> Arg]
  BY <1>1, <1>2 DEF pick
<1>7. pick \in Injection(1 .. n, Arg)
  BY <1>4, <1>5, <1>6 DEF Injection, IsInjective
<1>8. IsFiniteSet(Arg) /\ Cardinality(Arg) = args
  <2>1. 0 .. args - 1 = IF 0 <= args - 1 THEN 0 .. args - 1 ELSE {}
    BY ArgsAssumption
  <2>2. QED
    BY FS_Interval, ArgsAssumption DEF Arg
<1>9. IsFiniteSet(1 .. n) /\ Cardinality(1 .. n) = n
  BY <1>1, FS_Interval
<1>10. Cardinality(1 .. n) <= Cardinality(Arg)
  BY <1>7, <1>8, <1>9, FS_Injection DEF ExistsInjection
<1>11. QED
  BY <1>8, <1>9, <1>10 DEF n

(***************************************************************************)
(* Serialisations(R), which TLC enumerates length by length, is the set of *)
(* all serialisation sequences.                                            *)
(***************************************************************************)
LEMMA SerialisationsAre ==
  ASSUME NEW R \in Framework
  PROVE  Serialisations(R) = {q \in Seq(SUBSET Arg) : IsSerialisation(R, q)}
<1> DEFINE level == CHOOSE f : IsLevel(R, f, args)
           Long(k) == {q \in Seq(SUBSET Arg) : IsSerialisation(R, q) /\ Len(q) = k}
<1>1. IsLevel(R, level, args)
  BY LevelExists, Zenon
<1>2. Serialisations(R) = UNION {level[k] : k \in 0 .. args}
  BY DEF Serialisations, IsLevel, More
<1> HIDE DEF level
<1>3. Long(0) = {<<>>}
  <2>1. \A q \in Seq(SUBSET Arg) : Len(q) = 0 <=> q = <<>>
    BY EmptySeq
  <2>2. <<>> \in Seq(SUBSET Arg) /\ IsSerialisation(R, <<>>)
    BY EmptySeq DEF IsSerialisation
  <2>3. QED
    BY <2>1, <2>2
<1>4. ASSUME NEW k \in Nat
      PROVE  More(R, Long(k)) = Long(k + 1)
  <2>1. ASSUME NEW p \in More(R, Long(k)) PROVE p \in Long(k + 1)
    <3>1. PICK q \in Long(k) : \E S \in InitialSets(R, Reduct(R, Covered(q))) : p = Append(q, S)
      BY DEF More
    <3>2. PICK S \in InitialSets(R, Reduct(R, Covered(q))) : p = Append(q, S)
      BY <3>1
    <3>3. q \in Seq(SUBSET Arg) /\ IsSerialisation(R, q) /\ Len(q) = k
      OBVIOUS
    <3>4. S \in SUBSET Arg
      BY DEF InitialSets, Reduct
    <3>5. QED
      BY <3>2, <3>3, <3>4, SerialisationAppend, AppendFacts
  <2>2. ASSUME NEW p \in Long(k + 1) PROVE p \in More(R, Long(k))
    <3>1. p \in Seq(SUBSET Arg) /\ Len(p) = k + 1 /\ IsSerialisation(R, p)
      OBVIOUS
    <3>2. PICK q \in Seq(SUBSET Arg), S \in SUBSET Arg : p = Append(q, S)
      <4>1. p # <<>>
        BY <3>1
      <4>2. QED
        BY <3>1, <4>1, SequenceEmptyOrAppend
    <3>3. Len(q) = k
      BY <3>1, <3>2, AppendFacts
    <3>4. IsSerialisation(R, q) /\ S \in InitialSets(R, Reduct(R, Covered(q)))
      BY <3>1, <3>2, SerialisationAppend
    <3>5. QED
      BY <3>2, <3>3, <3>4 DEF More
  <2> HIDE DEF Long
  <2>3. QED
    BY <2>1, <2>2
<1> HIDE DEF Long
<1>5. ASSUME NEW k \in 0 .. args PROVE level[k] = Long(k)
  <2> DEFINE bad == {m \in 0 .. args : level[m] # Long(m)}
  <2>1. SUFFICES ASSUME bad # {} PROVE FALSE
    OBVIOUS
  <2>2. bad \in SUBSET Nat
    BY ArgsAssumption
  <2>3. PICK m \in bad : \A i \in bad : m <= i
    <3> HIDE DEF bad
    <3>1. QED
      BY <2>1, <2>2, LeastNumber
  <2>4. m \in 0 .. args /\ level[m] # Long(m) /\ m \in Nat
    BY ArgsAssumption
  <2>5. level[m] = IF m = 0 THEN {<<>>} ELSE More(R, level[m - 1])
    BY <1>1, <2>4 DEF IsLevel
  <2>6. m # 0 => m - 1 \in 0 .. args /\ ~(m <= m - 1) /\ m - 1 \in Nat /\ m - 1 + 1 = m
    BY <2>4, ArgsAssumption
  <2>7. m # 0 => level[m - 1] = Long(m - 1)
    BY <2>3, <2>6
  <2>8. QED
    BY <1>3, <1>4, <2>4, <2>5, <2>6, <2>7
<1>6. Serialisations(R) = UNION {Long(k) : k \in 0 .. args}
  BY <1>2, <1>5
<1>7. \A q \in Seq(SUBSET Arg) : IsSerialisation(R, q) => Len(q) \in 0 .. args
  BY SerialisationShort, ArgsAssumption
<1>8. QED
  BY <1>6, <1>7 DEF Long

-----------------------------------------------------------------------------
(***************************************************************************)
(* Among serialisation sequences there is a longest one.                   *)
(***************************************************************************)
LEMMA Longest ==
  ASSUME NEW R \in Framework, NEW Q \in SUBSET Seq(SUBSET Arg), Q # {},
         \A q \in Q : IsSerialisation(R, q)
  PROVE  \E q \in Q : \A p \in Q : Len(p) <= Len(q)
<1> DEFINE rest == {args - Len(q) : q \in Q}
<1>1. \A q \in Q : q \in Seq(SUBSET Arg) /\ Len(q) \in Nat /\ Len(q) <= args
  BY SerialisationShort
<1>2. rest \in SUBSET Nat
  BY <1>1, ArgsAssumption
<1>3. rest # {}
  OBVIOUS
<1>4. PICK n \in rest : \A m \in rest : n <= m
  <2> HIDE DEF rest
  <2>1. QED
    BY <1>2, <1>3, LeastNumber
<1>5. PICK q \in Q : n = args - Len(q)
  OBVIOUS
<1>6. ASSUME NEW p \in Q PROVE Len(p) <= Len(q)
  <2>1. args - Len(q) <= args - Len(p)
    BY <1>4, <1>5
  <2>2. QED
    BY <1>1, <2>1, ArgsAssumption
<1>7. QED
  BY <1>6

(***************************************************************************)
(* The union of a serialisation sequence is admissible.                    *)
(***************************************************************************)
LEMMA CoveredAdmissible ==
  ASSUME NEW R \in Framework, NEW q \in Seq(SUBSET Arg), IsSerialisation(R, q)
  PROVE  Admissible(R, Arg, Covered(q))
<1> DEFINE bad == {n \in Nat : \E p \in Seq(SUBSET Arg) :
                     Len(p) = n /\ IsSerialisation(R, p) /\ ~Admissible(R, Arg, Covered(p))}
<1>1. SUFFICES ASSUME bad # {} PROVE FALSE
  OBVIOUS
<1>2. PICK n \in bad : \A m \in bad : n <= m
  <2> HIDE DEF bad
  <2>1. bad \in SUBSET Nat
    BY DEF bad
  <2>2. QED
    BY <1>1, <2>1, LeastNumber
<1>3. PICK p \in Seq(SUBSET Arg) :
        Len(p) = n /\ IsSerialisation(R, p) /\ ~Admissible(R, Arg, Covered(p))
  BY <1>2
<1>4. p # <<>>
  <2>1. Covered(<<>>) = {}
    BY DEF Covered
  <2>2. Admissible(R, Arg, {})
    BY DEF Admissible, ConflictFree
  <2>3. QED
    BY <1>3, <2>1, <2>2
<1>5. PICK r \in Seq(SUBSET Arg), S \in SUBSET Arg : p = Append(r, S)
  BY <1>4, SequenceEmptyOrAppend
<1>6. /\ IsSerialisation(R, r) /\ S \in InitialSets(R, Reduct(R, Covered(r)))
      /\ Len(p) = Len(r) + 1 /\ Len(r) \in Nat /\ Covered(p) = Covered(r) \cup S
  BY <1>3, <1>5, SerialisationAppend, AppendFacts, CoveredFacts
<1>7. Admissible(R, Arg, Covered(r))
  <2>1. Len(r) \notin bad
    <3>1. ~(n <= Len(r))
      BY <1>3, <1>6
    <3> HIDE DEF bad
    <3>2. QED
      BY <1>2, <3>1
  <2>2. QED
    BY <1>6, <2>1
<1>8. Admissible(R, Reduct(R, Covered(r)), S)
  BY <1>6 DEF InitialSets
<1>9. QED
  BY <1>3, <1>6, <1>7, <1>8, AdmissibleUnion

(***************************************************************************)
(* What an admissible set leaves of a larger one is admissible in the      *)
(* reduct.                                                                 *)
(***************************************************************************)
LEMMA AdmissibleRest ==
  ASSUME NEW R \in Framework, NEW U, NEW S, U \subseteq S, Admissible(R, Arg, S)
  PROVE  Admissible(R, Reduct(R, U), S \ U)
<1>1. S \subseteq Arg /\ ConflictFree(R, S)
  BY DEF Admissible
<1>2. S \ U \subseteq Reduct(R, U)
  BY <1>1 DEF Reduct, Attacked, ConflictFree
<1>3. ASSUME NEW a \in S \ U, NEW b \in Reduct(R, U), <<b, a>> \in R
      PROVE  \E c \in S \ U : <<c, b>> \in R
  <2>1. b \in Arg /\ b \notin Attacked(R, U)
    BY DEF Reduct
  <2>2. PICK c \in S : <<c, b>> \in R
    BY <1>3, <2>1 DEF Admissible
  <2>3. c \notin U
    BY <2>1, <2>2 DEF Attacked
  <2>4. QED
    BY <2>2, <2>3
<1>4. QED
  BY <1>1, <1>2, <1>3 DEF Admissible, ConflictFree

\* A non-empty admissible set has an initial set in it.
LEMMA InitialInside ==
  ASSUME NEW R \in Framework, NEW X \in SUBSET Arg, NEW S, S # {}, Admissible(R, X, S)
  PROVE  \E T \in InitialSets(R, X) : T \subseteq S
<1> DEFINE active == [array |-> X, bitset |-> X]
<1>1. active \in IterableBitSet /\ active.array = X /\ active.bitset = X
  BY DEF IterableBitSet
<1> HIDE DEF active
<1>2. S \in SUBSET active.array
  BY <1>1 DEF Admissible
<1>3. EncodedAdmissible(R, active, S)
  BY <1>1, <1>2, EncodedIsAdmissible
<1>4. EncodedInitialSets(R, active) = InitialSets(R, X)
  BY <1>1, EncodedIsInitial
<1>5. QED
  BY <1>1, <1>3, <1>4, InitialBelow

(***************************************************************************)
(* Every admissible set is the union of a serialisation sequence.          *)
(***************************************************************************)
LEMMA AdmissibleCovered ==
  ASSUME NEW R \in Framework, NEW S, Admissible(R, Arg, S)
  PROVE  \E q \in Seq(SUBSET Arg) : IsSerialisation(R, q) /\ Covered(q) = S
<1> DEFINE Q == {q \in Seq(SUBSET Arg) : IsSerialisation(R, q) /\ Covered(q) \subseteq S}
<1>1. <<>> \in Q
  <2>1. <<>> \in Seq(SUBSET Arg) /\ Len(<<>>) = 0
    BY EmptySeq
  <2>2. IsSerialisation(R, <<>>) /\ Covered(<<>>) = {}
    BY <2>1 DEF IsSerialisation, Covered
  <2>3. QED
    BY <2>1, <2>2
<1>2. PICK q \in Q : \A p \in Q : Len(p) <= Len(q)
  <2>1. Q # {} /\ Q \in SUBSET Seq(SUBSET Arg) /\ \A p \in Q : IsSerialisation(R, p)
    BY <1>1
  <2> HIDE DEF Q
  <2>2. QED
    BY <2>1, Longest
<1>3. q \in Seq(SUBSET Arg) /\ IsSerialisation(R, q) /\ Covered(q) \subseteq S /\ Len(q) \in Nat
  OBVIOUS
<1>4. ASSUME Covered(q) # S PROVE FALSE
  <2> DEFINE X == Reduct(R, Covered(q))
  <2>1. X \in SUBSET Arg
    BY DEF Reduct
  <2>2. Admissible(R, X, S \ Covered(q)) /\ S \ Covered(q) # {}
    <3>1. Admissible(R, X, S \ Covered(q))
      BY <1>3, AdmissibleRest
    <3>2. QED
      BY <1>3, <1>4, <3>1
  <2> HIDE DEF X
  <2>3. PICK T \in InitialSets(R, X) : T \subseteq S \ Covered(q)
    <3> DEFINE D == S \ Covered(q)
    <3>1. D # {} /\ Admissible(R, X, D)
      BY <2>2
    <3> HIDE DEF D
    <3>2. \E T \in InitialSets(R, X) : T \subseteq D
      BY <2>1, <3>1, InitialInside
    <3>3. QED
      BY <3>2 DEF D
  <2>4. T \in SUBSET Arg
    BY <2>1 DEF InitialSets
  <2>5. /\ Append(q, T) \in Seq(SUBSET Arg) /\ IsSerialisation(R, Append(q, T))
        /\ Covered(Append(q, T)) = Covered(q) \cup T /\ Len(Append(q, T)) = Len(q) + 1
    <3>1. IsSerialisation(R, Append(q, T))
      BY <1>3, <2>3, <2>4, SerialisationAppend DEF X
    <3>2. QED
      BY <1>3, <2>4, <3>1, AppendFacts, CoveredFacts
  <2>6. Append(q, T) \in Q
    BY <1>3, <2>3, <2>5
  <2>7. Len(Append(q, T)) <= Len(q)
    <3> HIDE DEF Q
    <3>1. QED
      BY <1>2, <2>6
  <2>8. QED
    BY <1>3, <2>5, <2>7
<1>5. QED
  BY <1>3, <1>4

\* An admissible set is complete exactly when its reduct has no unattacked argument.
LEMMA CompleteReduct ==
  ASSUME NEW R \in Framework, NEW U, Admissible(R, Arg, U)
  PROVE  Defended(R, U) = U <=> Unattacked(R, Reduct(R, U)) = {}
<1>1. U \subseteq Arg /\ ConflictFree(R, U) /\ U \subseteq Defended(R, U)
  BY DEF Admissible, Defended, attackers, Attacked
<1>2. ASSUME NEW a \in Defended(R, U), a \notin U
      PROVE  a \in Unattacked(R, Reduct(R, U))
  <2>1. a \in Arg /\ \A b \in Arg : <<b, a>> \in R => b \in Attacked(R, U)
    BY DEF Defended, attackers
  <2>2. a \notin Attacked(R, U)
    BY <1>1, <2>1 DEF Attacked, ConflictFree
  <2>3. QED
    BY <1>2, <2>1, <2>2 DEF Unattacked, Reduct, attackers
<1>3. ASSUME NEW a \in Unattacked(R, Reduct(R, U))
      PROVE  a \in Defended(R, U) /\ a \notin U
  <2>1. /\ a \in Arg /\ a \notin U /\ a \notin Attacked(R, U)
        /\ \A b \in attackers(R, a) : b \notin Reduct(R, U)
    BY DEF Unattacked, Reduct
  <2>2. \A b \in attackers(R, a) : b \in Arg /\ b \notin U
    BY <2>1 DEF attackers, Attacked
  <2>3. QED
    BY <2>1, <2>2 DEF Defended, Reduct
<1>4. QED
  BY <1>1, <1>2, <1>3

-----------------------------------------------------------------------------
(***************************************************************************)
(* Sequences of unattacked arguments.                                      *)
(***************************************************************************)
LEMMA StrongIsSerialisation ==
  ASSUME NEW R \in Framework, NEW q \in Seq(SUBSET Arg), IsStrong(R, q)
  PROVE  IsSerialisation(R, q)
<1>1. \A i \in 1 .. Len(q) : Reduct(R, Before(q, i)) \in SUBSET Arg
  BY DEF Reduct
<1>2. \A X \in SUBSET Arg : UnattackedSets(R, X) \subseteq InitialSets(R, X)
  BY UnattackedIsInitial DEF UnattackedSets
<1>3. QED
  BY <1>1, <1>2 DEF IsStrong, IsSerialisation

\* Each element is one argument that the elements before it defend.
LEMMA StrongElement ==
  ASSUME NEW R \in Framework, NEW q \in Seq(SUBSET Arg), IsStrong(R, q), NEW i \in 1 .. Len(q)
  PROVE  \E a \in Arg : /\ q[i] = {a} /\ a \notin Before(q, i)
                       /\ a \in Defended(R, Before(q, i))
<1>1. PICK a \in Unattacked(R, Reduct(R, Before(q, i))) : q[i] = {a}
  BY DEF IsStrong, UnattackedSets
<1>2. /\ a \in Arg /\ a \notin Before(q, i) /\ a \notin Attacked(R, Before(q, i))
      /\ \A b \in attackers(R, a) : b \notin Reduct(R, Before(q, i))
  BY DEF Unattacked, Reduct
<1>3. \A b \in attackers(R, a) : b \in Arg /\ b \notin Before(q, i)
  BY <1>2 DEF attackers, Attacked
<1>4. QED
  BY <1>1, <1>2, <1>3 DEF Defended, Reduct

\* An argument that a sequence defends can be added to it.
LEMMA StrongExtends ==
  ASSUME NEW R \in Framework, NEW q \in Seq(SUBSET Arg), IsStrong(R, q),
         NEW a \in Defended(R, Covered(q)), a \notin Covered(q)
  PROVE  /\ Append(q, {a}) \in Seq(SUBSET Arg)
         /\ IsStrong(R, Append(q, {a}))
         /\ Covered(Append(q, {a})) = Covered(q) \cup {a}
         /\ Len(Append(q, {a})) = Len(q) + 1
<1> DEFINE p == Append(q, {a})
           n == Len(q)
<1>1. {a} \in SUBSET Arg
  BY DEF Defended
<1>2. /\ n \in Nat /\ Len(p) = n + 1 /\ p[n + 1] = {a} /\ p \in Seq(SUBSET Arg)
      /\ \A i \in 1 .. n : p[i] = q[i]
  BY <1>1, AppendFacts
<1>3. /\ Before(p, n + 1) = Covered(q) /\ \A i \in 1 .. n : Before(p, i) = Before(q, i)
      /\ Covered(p) = Covered(q) \cup {a}
  BY <1>1, CoveredFacts
<1>4. \A i \in 1 .. n + 1 : i \in 1 .. n \/ i = n + 1
  BY <1>2
<1>5. a \in Unattacked(R, Reduct(R, Covered(q)))
  <2>1. Admissible(R, Arg, Covered(q))
    BY StrongIsSerialisation, CoveredAdmissible
  <2>2. /\ a \in Arg /\ \A b \in attackers(R, a) : b \in Attacked(R, Covered(q))
        /\ ConflictFree(R, Covered(q)) /\ Covered(q) \subseteq Arg
    BY <2>1 DEF Defended, Admissible
  <2>3. a \notin Attacked(R, Covered(q))
    BY <2>2 DEF attackers, Attacked, ConflictFree
  <2>4. QED
    BY <2>2, <2>3 DEF Unattacked, Reduct
<1> HIDE DEF p, n
<1>6. \A i \in 1 .. n : q[i] \in UnattackedSets(R, Reduct(R, Before(q, i)))
  BY DEF IsStrong, n
<1>7. {a} \in UnattackedSets(R, Reduct(R, Covered(q)))
  BY <1>5 DEF UnattackedSets
<1>8. IsStrong(R, p)
  BY <1>2, <1>3, <1>4, <1>6, <1>7 DEF IsStrong
<1>9. QED
  BY <1>2, <1>3, <1>8 DEF p, n

\* The first element of a sequence that leaves a set.
LEMMA FirstOutside ==
  ASSUME NEW q \in Seq(SUBSET Arg), NEW U, ~(Covered(q) \subseteq U)
  PROVE  \E i \in 1 .. Len(q) : ~(q[i] \subseteq U) /\ Before(q, i) \subseteq U
<1> DEFINE out == {i \in 1 .. Len(q) : ~(q[i] \subseteq U)}
<1>1. out \in SUBSET Nat /\ out # {}
  BY DEF Covered
<1>2. PICK i \in out : \A j \in out : i <= j
  <2> HIDE DEF out
  <2>1. QED
    BY <1>1, LeastNumber
<1>3. ASSUME NEW j \in 1 .. i - 1 PROVE q[j] \subseteq U
  <2>1. j \in 1 .. Len(q) /\ ~(i <= j)
    OBVIOUS
  <2>2. j \notin out
    <3> HIDE DEF out
    <3>1. QED
      BY <1>2, <2>1
  <2>3. QED
    BY <2>1, <2>2
<1>4. Before(q, i) \subseteq U
  BY <1>3 DEF Before
<1>5. QED
  BY <1>4

\* The beginning of a sequence of unattacked arguments is one.
LEMMA StrongPrefix ==
  ASSUME NEW R \in Framework, NEW q \in Seq(SUBSET Arg), IsStrong(R, q), NEW i \in 1 .. Len(q)
  PROVE  \E p \in Seq(SUBSET Arg) : IsStrong(R, p) /\ Covered(p) = Before(q, i)
<1> DEFINE p == SubSeq(q, 1, i - 1)
<1>1. /\ Len(q) \in Nat /\ i \in Nat /\ i - 1 \in Nat
      /\ \A j \in 1 .. i - 1 : j \in 1 .. Len(q) /\ q[j] \in SUBSET Arg
  OBVIOUS
<1>2. p \in Seq(SUBSET Arg) /\ Len(p) = i - 1 /\ \A j \in 1 .. i - 1 : p[j] = q[j]
  BY <1>1
<1> HIDE DEF p
<1>3. ASSUME NEW j \in 1 .. i - 1 PROVE Before(p, j) = Before(q, j)
  <2>1. \A k \in 1 .. j - 1 : k \in 1 .. i - 1
    BY <1>1
  <2>2. QED
    BY <1>2, <2>1 DEF Before
<1>4. IsStrong(R, p)
  BY <1>1, <1>2, <1>3 DEF IsStrong
<1>5. Covered(p) = Before(q, i)
  BY <1>2 DEF Covered, Before
<1>6. QED
  BY <1>2, <1>4, <1>5

(***************************************************************************)
(* The unions of these sequences satisfy the recursion that defines strong *)
(* admissibility, and only they do.                                        *)
(***************************************************************************)
StrongIn(R, S) == \E q \in Seq(SUBSET Arg) : IsStrong(R, q) /\ Covered(q) = S

\* The union of a sequence of unattacked sets is exactly a set whose arguments are
\* each defended by such a union without them.
LEMMA StrongRecursion ==
  ASSUME NEW R \in Framework, NEW S \in SUBSET Arg
  PROVE  StrongIn(R, S) <=>
           \A a \in S : \E T \in SUBSET (S \ {a}) : a \in Defended(R, T) /\ StrongIn(R, T)
<1>1. ASSUME StrongIn(R, S), NEW a \in S
      PROVE  \E T \in SUBSET (S \ {a}) : a \in Defended(R, T) /\ StrongIn(R, T)
  <2>1. PICK q \in Seq(SUBSET Arg) : IsStrong(R, q) /\ Covered(q) = S
    BY <1>1 DEF StrongIn
  <2>2. PICK i \in 1 .. Len(q) : a \in q[i]
    BY <2>1 DEF Covered
  <2>3. a \notin Before(q, i) /\ a \in Defended(R, Before(q, i))
    BY <2>1, <2>2, StrongElement
  <2>4. Before(q, i) \subseteq S
    <3>1. \A j \in 1 .. i - 1 : j \in 1 .. Len(q)
      OBVIOUS
    <3>2. QED
      BY <2>1, <3>1 DEF Before, Covered
  <2>5. StrongIn(R, Before(q, i))
    BY <2>1, StrongPrefix DEF StrongIn
  <2>6. QED
    BY <2>3, <2>4, <2>5
<1>2. ASSUME \A a \in S : \E T \in SUBSET (S \ {a}) : a \in Defended(R, T) /\ StrongIn(R, T)
      PROVE  StrongIn(R, S)
  <2> DEFINE Q == {q \in Seq(SUBSET Arg) : IsStrong(R, q) /\ Covered(q) \subseteq S}
  <2>1. <<>> \in Q
    <3>1. <<>> \in Seq(SUBSET Arg) /\ Len(<<>>) = 0
      BY EmptySeq
    <3>2. IsStrong(R, <<>>) /\ Covered(<<>>) = {}
      BY <3>1 DEF IsStrong, Covered
    <3>3. QED
      BY <3>1, <3>2
  <2>2. \A p \in Q : IsSerialisation(R, p)
    BY StrongIsSerialisation
  <2>3. PICK q \in Q : \A p \in Q : Len(p) <= Len(q)
    <3>1. Q # {} /\ Q \in SUBSET Seq(SUBSET Arg)
      BY <2>1
    <3> HIDE DEF Q
    <3>2. QED
      BY <2>2, <3>1, Longest
  <2>4. q \in Seq(SUBSET Arg) /\ IsStrong(R, q) /\ Covered(q) \subseteq S /\ Len(q) \in Nat
    OBVIOUS
  <2> DEFINE U == Covered(q)
  <2>5. ASSUME U # S PROVE FALSE
    <3>1. PICK a \in S : a \notin U
      BY <2>4, <2>5
    <3>2. PICK T \in SUBSET (S \ {a}) : a \in Defended(R, T) /\ StrongIn(R, T)
      BY <1>2
    <3>3. \A V, W : V \subseteq W => Defended(R, V) \subseteq Defended(R, W)
      BY DEF Defended, Attacked
    <3>4. \E b \in S : b \notin U /\ b \in Defended(R, U)
      <4>1. CASE T \subseteq U
        BY <3>1, <3>2, <3>3, <4>1
      <4>2. CASE ~(T \subseteq U)
        <5>1. PICK p \in Seq(SUBSET Arg) : IsStrong(R, p) /\ Covered(p) = T
          BY <3>2 DEF StrongIn
        <5> HIDE DEF U
        <5>2. PICK i \in 1 .. Len(p) : ~(p[i] \subseteq U) /\ Before(p, i) \subseteq U
          BY <4>2, <5>1, FirstOutside
        <5>3. PICK b \in Arg : p[i] = {b} /\ b \in Defended(R, Before(p, i))
          BY <5>1, StrongElement
        <5>4. b \notin U /\ b \in Defended(R, U)
          BY <3>3, <5>2, <5>3
        <5>5. b \in S
          BY <3>2, <5>1, <5>3 DEF Covered
        <5>6. QED
          BY <5>4, <5>5
      <4>3. QED
        BY <4>1, <4>2
    <3>5. PICK b \in S : b \notin U /\ b \in Defended(R, U)
      BY <3>4
    <3>6. /\ Append(q, {b}) \in Seq(SUBSET Arg) /\ IsStrong(R, Append(q, {b}))
          /\ Covered(Append(q, {b})) = U \cup {b} /\ Len(Append(q, {b})) = Len(q) + 1
      BY <2>4, <3>5, StrongExtends
    <3>7. Append(q, {b}) \in Q
      BY <2>4, <3>6
    <3>8. Len(Append(q, {b})) <= Len(q)
      <4> HIDE DEF Q
      <4>1. QED
        BY <2>3, <3>7
    <3>9. QED
      BY <2>4, <3>6, <3>8
  <2>6. QED
    BY <2>4, <2>5 DEF StrongIn
<1>3. QED
  BY <1>1, <1>2

\* The recursion of StronglyAdmissibleSets.
IsSa(R, f) ==
  f = [S \in SUBSET Arg |->
         \A a \in S : \E T \in SUBSET (S \ {a}) : a \in Defended(R, T) /\ f[T]]

\* The recursive definition of strong admissibility has one solution, the unions of
\* sequences of unattacked sets.
LEMMA StronglyAdmissibleAre ==
  ASSUME NEW R \in Framework
  PROVE  StronglyAdmissibleSets(R) = {S \in SUBSET Arg : StrongIn(R, S)}
<1> DEFINE sa == CHOOSE f : IsSa(R, f)
           strong == [S \in SUBSET Arg |-> StrongIn(R, S)]
           Rec(S) == \A a \in S : \E T \in SUBSET (S \ {a}) : a \in Defended(R, T) /\ strong[T]
<1>1. ASSUME NEW S \in SUBSET Arg PROVE strong[S] <=> Rec(S)
  <2>1. \A T \in SUBSET Arg : strong[T] = StrongIn(R, T)
    OBVIOUS
  <2> HIDE DEF strong
  <2>2. \A a \in S : \A T \in SUBSET (S \ {a}) : strong[T] = StrongIn(R, T)
    BY <2>1
  <2>3. Rec(S) <=>
          \A a \in S : \E T \in SUBSET (S \ {a}) : a \in Defended(R, T) /\ StrongIn(R, T)
    BY <2>2
  <2>4. QED
    BY <2>1, <2>3, StrongRecursion
<1>2. IsSa(R, strong)
  <2>1. \A S \in SUBSET Arg : strong[S] \in BOOLEAN
    BY DEF StrongIn
  <2>2. strong = [S \in SUBSET Arg |-> strong[S]]
    OBVIOUS
  <2> HIDE DEF strong
  <2>3. \A S \in SUBSET Arg : Rec(S) \in BOOLEAN
    OBVIOUS
  <2>4. \A S \in SUBSET Arg : strong[S] = Rec(S)
    <3> HIDE DEF Rec
    <3>1. QED
      BY <1>1, <2>1, <2>3
  <2>5. strong = [S \in SUBSET Arg |-> Rec(S)]
    <3> HIDE DEF Rec
    <3>1. QED
      BY <2>2, <2>4
  <2>6. QED
    BY <2>5 DEF IsSa
<1>3. IsSa(R, sa)
  BY <1>2, Zenon
<1>4. StronglyAdmissibleSets(R) = {S \in SUBSET Arg : sa[S]}
  BY DEF StronglyAdmissibleSets, IsSa
<1> HIDE DEF sa
<1>5. \A S \in SUBSET Arg :
        sa[S] <=> \A a \in S : \E T \in SUBSET (S \ {a}) : a \in Defended(R, T) /\ sa[T]
  BY <1>3 DEF IsSa
<1> HIDE DEF strong
<1> DEFINE bad == {S \in SUBSET Arg : ~(sa[S] <=> strong[S])}
<1>6. ASSUME bad # {} PROVE FALSE
  <2>1. IsFiniteSet(Arg)
    BY FS_Interval, ArgsAssumption DEF Arg
  <2>2. IsWellFoundedOn(StrictSubsetOrdering(Arg), SUBSET Arg)
    BY <2>1, FS_StrictSubsetOrderingWellFounded, FS_FiniteSubsetsOfFinite
  <2>3. PICK S \in bad : \A T \in bad : ~ (<<T, S>> \in StrictSubsetOrdering(Arg))
    <3>1. bad \subseteq SUBSET Arg
      OBVIOUS
    <3> HIDE DEF bad
    <3>2. QED
      BY <1>6, <2>2, <3>1, WFMin
  <2>4. S \in SUBSET Arg /\ ~(sa[S] <=> strong[S])
    OBVIOUS
  <2>5. ASSUME NEW a \in S, NEW T \in SUBSET (S \ {a}) PROVE sa[T] <=> strong[T]
    <3>1. T \in SUBSET Arg /\ T \subseteq S /\ T # S
      BY <2>4
    <3>2. <<T, S>> \in StrictSubsetOrdering(Arg)
      BY <2>4, <3>1 DEF StrictSubsetOrdering
    <3>3. T \notin bad
      <4> HIDE DEF bad
      <4>1. QED
        BY <2>3, <3>2
    <3>4. QED
      BY <3>1, <3>3
  <2>6. QED
    BY <1>1, <1>5, <2>4, <2>5
<1>7. \A S \in SUBSET Arg : sa[S] <=> StrongIn(R, S)
  BY <1>6 DEF strong
<1>8. QED
  BY <1>4, <1>7

\* A complete set contains every sequence of unattacked arguments.
LEMMA StrongBelowComplete ==
  ASSUME NEW R \in Framework, NEW q \in Seq(SUBSET Arg), IsStrong(R, q),
         NEW T, Defended(R, T) = T
  PROVE  Covered(q) \subseteq T
<1>1. SUFFICES ASSUME ~(Covered(q) \subseteq T) PROVE FALSE
  OBVIOUS
<1>2. PICK i \in 1 .. Len(q) : ~(q[i] \subseteq T) /\ Before(q, i) \subseteq T
  BY <1>1, FirstOutside
<1>3. PICK a \in Arg : q[i] = {a} /\ a \in Defended(R, Before(q, i))
  BY StrongElement
<1>4. a \in Defended(R, T)
  BY <1>2, <1>3 DEF Defended, Attacked
<1>5. QED
  BY <1>2, <1>3, <1>4

(***************************************************************************)
(* The semantics by sequences and by sets.                                 *)
(***************************************************************************)
LEMMA AdmissibleBySequences ==
  ASSUME NEW R \in Framework
  PROVE  {Covered(q) : q \in {p \in Seq(SUBSET Arg) : IsSerialisation(R, p)}} = AdmissibleSets(R)
<1>1. ASSUME NEW q \in Seq(SUBSET Arg), IsSerialisation(R, q)
      PROVE  Covered(q) \in AdmissibleSets(R)
  BY <1>1, CoveredAdmissible DEF AdmissibleSets, Admissible
<1>2. ASSUME NEW S \in AdmissibleSets(R)
      PROVE  \E q \in Seq(SUBSET Arg) : IsSerialisation(R, q) /\ Covered(q) = S
  BY AdmissibleCovered DEF AdmissibleSets
<1>3. QED
  BY <1>1, <1>2

\* An admissible set is maximal exactly if its reduct has no initial set.
LEMMA PreferredReduct ==
  ASSUME NEW R \in Framework, NEW U \in AdmissibleSets(R)
  PROVE  U \in PreferredSets(R) <=> InitialSets(R, Reduct(R, U)) = {}
<1> DEFINE X == Reduct(R, U)
<1>1. U \in SUBSET Arg /\ Admissible(R, Arg, U) /\ X \in SUBSET Arg /\ X \cap U = {}
  BY DEF AdmissibleSets, Reduct
<1>2. ASSUME NEW I \in InitialSets(R, X), U \in PreferredSets(R)
      PROVE  FALSE
  <2>1. I \subseteq X /\ I # {} /\ Admissible(R, X, I)
    BY DEF InitialSets
  <2>2. Admissible(R, Arg, U \cup I)
    BY <1>1, <2>1, AdmissibleUnion
  <2>3. U \cup I \in AdmissibleSets(R)
    BY <2>2 DEF AdmissibleSets, Admissible
  <2>4. U \cup I = U
    BY <1>2, <2>3 DEF PreferredSets
  <2>5. QED
    BY <1>1, <2>1, <2>4
<1>3. ASSUME InitialSets(R, X) = {}, NEW T \in AdmissibleSets(R), U \subseteq T, T # U
      PROVE  FALSE
  <2>1. Admissible(R, Arg, T)
    BY DEF AdmissibleSets
  <2> DEFINE D == T \ U
  <2>2. Admissible(R, X, D) /\ D # {}
    BY <1>3, <2>1, AdmissibleRest
  <2> HIDE DEF D, X
  <2>3. QED
    BY <1>1, <1>3, <2>2, InitialInside
<1>4. QED
  BY <1>2, <1>3 DEF PreferredSets

\* Sequences of unattacked sets that cannot be continued cover the grounded extension.
LEMMA GroundedBySequences ==
  ASSUME NEW R \in Framework
  PROVE  {Covered(q) : q \in {p \in Seq(SUBSET Arg) :
            IsStrong(R, p) /\ UnattackedSets(R, Reduct(R, Covered(p))) = {}}} = GroundedSets(R)
<1>1. ASSUME NEW q \in Seq(SUBSET Arg), IsStrong(R, q),
             UnattackedSets(R, Reduct(R, Covered(q))) = {}
      PROVE  Covered(q) \in GroundedSets(R)
  <2>1. Admissible(R, Arg, Covered(q))
    BY <1>1, StrongIsSerialisation, CoveredAdmissible
  <2>2. Unattacked(R, Reduct(R, Covered(q))) = {}
    BY <1>1 DEF UnattackedSets
  <2>3. Defended(R, Covered(q)) = Covered(q)
    BY <2>1, <2>2, CompleteReduct
  <2>4. Covered(q) \in CompleteSets(R)
    BY <2>1, <2>3 DEF CompleteSets, AdmissibleSets, Admissible
  <2>5. \A T \in CompleteSets(R) : Covered(q) \subseteq T
    BY <1>1, StrongBelowComplete DEF CompleteSets
  <2>6. QED
    BY <2>4, <2>5 DEF GroundedSets
<1>2. \E q \in Seq(SUBSET Arg) :
        IsStrong(R, q) /\ UnattackedSets(R, Reduct(R, Covered(q))) = {}
  <2> DEFINE Q == {q \in Seq(SUBSET Arg) : IsStrong(R, q)}
  <2>1. <<>> \in Q
    BY EmptySeq DEF IsStrong
  <2>2. \A p \in Q : IsSerialisation(R, p)
    BY StrongIsSerialisation
  <2>3. PICK q \in Q : \A p \in Q : Len(p) <= Len(q)
    <3>1. Q # {} /\ Q \in SUBSET Seq(SUBSET Arg)
      BY <2>1
    <3> HIDE DEF Q
    <3>2. QED
      BY <2>2, <3>1, Longest
  <2>4. q \in Seq(SUBSET Arg) /\ IsStrong(R, q) /\ Len(q) \in Nat
    OBVIOUS
  <2>5. ASSUME NEW a \in Unattacked(R, Reduct(R, Covered(q))) PROVE FALSE
    <3>1. {a} \in UnattackedSets(R, Reduct(R, Covered(q))) /\ {a} \in SUBSET Arg
      BY DEF UnattackedSets, Unattacked, Reduct
    <3>2. Append(q, {a}) \in Seq(SUBSET Arg) /\ Len(Append(q, {a})) = Len(q) + 1
      BY <2>4, <3>1, AppendFacts
    <3>3. IsStrong(R, Append(q, {a}))
      <4>1. Admissible(R, Arg, Covered(q))
        BY <2>4, StrongIsSerialisation, CoveredAdmissible
      <4>2. a \in Defended(R, Covered(q)) /\ a \notin Covered(q)
        <5>1. /\ a \in Arg /\ a \notin Covered(q) /\ a \notin Attacked(R, Covered(q))
              /\ \A b \in attackers(R, a) : b \notin Reduct(R, Covered(q))
          BY DEF Unattacked, Reduct
        <5>2. \A b \in attackers(R, a) : b \in Arg /\ b \notin Covered(q)
          BY <5>1 DEF attackers, Attacked
        <5>3. QED
          BY <5>1, <5>2 DEF Defended, Reduct
      <4>3. QED
        BY <2>4, <4>2, StrongExtends
    <3>4. Append(q, {a}) \in Q
      BY <3>2, <3>3
    <3>5. Len(Append(q, {a})) <= Len(q)
      <4> HIDE DEF Q
      <4>1. QED
        BY <2>3, <3>4
    <3>6. QED
      BY <2>4, <3>2, <3>5
  <2>6. QED
    BY <2>4, <2>5 DEF UnattackedSets
<1>3. ASSUME NEW S \in GroundedSets(R)
      PROVE  \E q \in Seq(SUBSET Arg) :
               IsStrong(R, q) /\ UnattackedSets(R, Reduct(R, Covered(q))) = {} /\ Covered(q) = S
  <2>1. PICK q \in Seq(SUBSET Arg) :
          IsStrong(R, q) /\ UnattackedSets(R, Reduct(R, Covered(q))) = {}
    BY <1>2
  <2>2. Covered(q) \in GroundedSets(R)
    BY <1>1, <2>1
  <2>3. Covered(q) = S
    BY <2>2 DEF GroundedSets
  <2>4. QED
    BY <2>1, <2>3
<1>4. QED
  BY <1>1, <1>3
=============================================================================
