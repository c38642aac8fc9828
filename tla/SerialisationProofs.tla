------------------------ MODULE SerialisationProofs ------------------------
(***************************************************************************)
(* Proofs about the searches of module Serialisation, for every number of  *)
(* arguments, every framework and every task.                              *)
(***************************************************************************)
EXTENDS Serialisation, ArgumentationProofs

-----------------------------------------------------------------------------
(***************************************************************************)
(* The inductive invariant.  What is printed is always the sequence of an  *)
(* activation, so the properties of printed sequences are kept for the     *)
(* sequences on the stack.  To extend a sequence one has to know that the  *)
(* array is the reduct, that it is part of the bitset, which bits are set  *)
(* in excess, and where the pending sets come from.                        *)
(***************************************************************************)
SequenceOK(R, t, q) ==
  /\ IsForward(R, q)
  /\ t.alg = "strong_admissible" => IsStrong(R, q)
  /\ IsSoundUnlessReattack(R, q)

PendingOK(R, t, f) ==
  IF t.alg = "strong_admissible"
  THEN f.pending \subseteq {{a} : a \in f.active.array}
  ELSE f.pending \subseteq EncodedInitialSets(R, f.active)

ActivationOK(R, t, f) ==
  /\ f.active.array = Reduct(R, Covered(f.sequence))
  /\ f.active.array \subseteq f.active.bitset
  /\ Phantoms(f.active) = Reattacked(R, f.sequence)
  /\ SequenceOK(R, t, f.sequence)
  /\ PendingOK(R, t, f)

IInv ==
  /\ TypeOK
  /\ \A i \in 1 .. Len(stack) : ActivationOK(af, task, stack[i])
  /\ \A q \in printed : SequenceOK(af, task, q)

\* The set that the loop hands to Descend.
Chosen(R, t, f, S) ==
  /\ S \in f.pending
  /\ t.alg = "strong_admissible" =>
       \A a \in S : active_attackers(R, f.active, a) = {}

(***************************************************************************)
(* A chosen set is a non-empty conflict-free set of listed arguments; it   *)
(* is a real initial set of the reduct when there are no phantoms, and a   *)
(* strong choice is one unattacked argument in any case.                   *)
(***************************************************************************)
LEMMA ChosenFacts ==
  ASSUME NEW R \in Framework, NEW t \in Task, NEW f \in Activation, NEW S,
         ActivationOK(R, t, f), Chosen(R, t, f, S)
  PROVE  /\ S \in SUBSET f.active.array
         /\ S # {}
         /\ ConflictFree(R, S)
         /\ t.alg = "strong_admissible" => S \in UnattackedSets(R, f.active.array)
         /\ Phantoms(f.active) = {} => S \in InitialSets(R, f.active.array)
<1> DEFINE X == f.active.array
<1>1. /\ f.active \in IterableBitSet
      /\ X \in SUBSET Arg
      /\ X \subseteq f.active.bitset
  BY DEF Activation, IterableBitSet, ActivationOK
<1>2. Phantoms(f.active) = {} => f.active.bitset = X
  BY <1>1 DEF Phantoms
<1>3. CASE t.alg = "strong_admissible"
  <2>1. PICK a \in X : S = {a}
    BY <1>3 DEF Chosen, ActivationOK, PendingOK
  <2>2. \A b \in X : <<b, a>> \notin R
    BY <1>1, <1>3, <2>1 DEF Chosen, active_attackers, attackers
  <2>3. a \in Unattacked(R, X)
    BY <2>1, <2>2 DEF Unattacked, attackers
  <2>4. S \in InitialSets(R, X)
    BY <1>1, <2>1, <2>3, UnattackedIsInitial
  <2>5. QED
    BY <2>1, <2>2, <2>3, <2>4 DEF ConflictFree, UnattackedSets
<1>4. CASE t.alg # "strong_admissible"
  <2>1. S \in EncodedInitialSets(R, f.active)
    BY <1>4 DEF Chosen, ActivationOK, PendingOK
  <2>2. S \subseteq X /\ S # {} /\ ConflictFree(R, S)
    BY <1>1, <2>1, EncodedSetsConflictFree
  <2>3. Phantoms(f.active) = {} => S \in InitialSets(R, X)
    BY <1>1, <1>2, <2>1, EncodedIsInitial
  <2>4. QED
    BY <1>4, <2>2, <2>3
<1>5. QED
  BY <1>3, <1>4

(***************************************************************************)
(* A sequence that re-attacks nothing leaves no phantoms at its end.       *)
(***************************************************************************)
LEMMA NoReattackFacts ==
  ASSUME NEW R \in Framework, NEW q \in Seq(SUBSET Arg), ~Reattacks(R, q)
  PROVE  /\ Reattacked(R, q) = {}
         /\ ~Reattacks(R, SubSeq(q, 1, Len(q) - 1))
<1>1. CASE q = <<>>
  <2>1. SubSeq(q, 1, Len(q) - 1) = <<>>
    BY <1>1
  <2>2. QED
    BY <1>1, <2>1 DEF Reattacked
<1>2. CASE q # <<>>
  <2> DEFINE p == SubSeq(q, 1, Len(q) - 1)
  <2>1. /\ Len(q) \in 1 .. Len(q)
        /\ Len(q) \in Nat
        /\ Len(p) = Len(q) - 1
        /\ \A i \in 1 .. Len(p) : i \in 1 .. Len(q) /\ p[i] = q[i]
    BY <1>2, FrontFacts
  <2> HIDE DEF p
  <2>2. ASSUME NEW i \in 1 .. Len(p)
        PROVE  Before(p, i) = Before(q, i)
    <3>1. \A j \in 1 .. i - 1 : j \in 1 .. Len(p)
      BY <2>1
    <3>2. QED
      BY <2>1, <3>1 DEF Before
  <2>3. ~Reattacks(R, p)
    BY <2>1, <2>2 DEF Reattacks
  <2>4. Reattacked(R, q) = {}
    BY <1>2, <2>1 DEF Reattacks, Reattacked
  <2>5. QED
    BY <2>3, <2>4 DEF p
<1>3. QED
  BY <1>1, <1>2

(***************************************************************************)
(* The heart of the proof: extending the sequence of an activation by a    *)
(* chosen set keeps what is claimed of sequences.                          *)
(***************************************************************************)
LEMMA SequenceExtends ==
  ASSUME NEW R \in Framework, NEW t \in Task, NEW f \in Activation, NEW S,
         ActivationOK(R, t, f), Chosen(R, t, f, S)
  PROVE  SequenceOK(R, t, Append(f.sequence, S))
<1> DEFINE q == f.sequence
           p == Append(q, S)
           n == Len(q)
<1>1. /\ q \in Seq(SUBSET Arg)
      /\ S \in SUBSET Arg
      /\ S \in SUBSET f.active.array
      /\ S # {}
      /\ ConflictFree(R, S)
      /\ t.alg = "strong_admissible" => S \in UnattackedSets(R, f.active.array)
      /\ Phantoms(f.active) = {} => S \in InitialSets(R, f.active.array)
  BY ChosenFacts DEF Activation, IterableBitSet
<1>2. /\ Len(p) = n + 1
      /\ n \in Nat
      /\ \A i \in 1 .. n : p[i] = q[i]
      /\ p[n + 1] = S
      /\ SubSeq(p, 1, Len(p) - 1) = q
  BY <1>1, AppendFacts
<1>3. /\ Covered(p) = Covered(q) \cup S
      /\ Before(p, n + 1) = Covered(q)
      /\ \A i \in 1 .. n : Before(p, i) = Before(q, i)
  BY <1>1, CoveredFacts
<1>4. /\ f.active.array = Reduct(R, Covered(q))
      /\ Phantoms(f.active) = Reattacked(R, q)
      /\ SequenceOK(R, t, q)
  BY DEF ActivationOK
<1>5. \A i \in 1 .. Len(p) : i \in 1 .. n \/ i = n + 1
  BY <1>2
<1> HIDE DEF p, q, n
<1>6. IsForward(R, p)
  BY <1>1, <1>2, <1>3, <1>4, <1>5 DEF IsForward, SequenceOK
<1>7. ASSUME t.alg = "strong_admissible"
      PROVE  IsStrong(R, p)
  BY <1>1, <1>2, <1>3, <1>4, <1>5, <1>7 DEF IsStrong, SequenceOK
<1>8. ASSUME ~Reattacks(R, q)
      PROVE  IsSerialisation(R, p) /\ Admissible(R, Arg, Covered(p))
  <2>1. Reattacked(R, q) = {} /\ ~Reattacks(R, SubSeq(q, 1, Len(q) - 1))
    BY <1>1, <1>8, NoReattackFacts
  <2>2. IsSerialisation(R, q) /\ Admissible(R, Arg, Covered(q))
    BY <1>4, <2>1 DEF SequenceOK, IsSoundUnlessReattack
  <2>3. S \in InitialSets(R, Reduct(R, Covered(q)))
    BY <1>1, <1>4, <2>1
  <2>4. IsSerialisation(R, p)
    BY <1>2, <1>3, <1>5, <2>2, <2>3 DEF IsSerialisation
  <2>5. Admissible(R, Reduct(R, Covered(q)), S)
    BY <2>3 DEF InitialSets
  <2>6. QED
    BY <1>3, <2>2, <2>4, <2>5, AdmissibleUnion
<1>9. QED
  BY <1>2, <1>6, <1>7, <1>8 DEF SequenceOK, IsSoundUnlessReattack, p, q

\* A search starts with the empty sequence.
LEMMA EmptySequenceOK ==
  ASSUME NEW R \in Framework, NEW t \in Task
  PROVE  SequenceOK(R, t, <<>>)
<1>1. Len(<<>>) = 0 /\ 1 .. Len(<<>>) = {}
  OBVIOUS
<1>2. IsForward(R, <<>>) /\ IsStrong(R, <<>>) /\ IsSerialisation(R, <<>>)
  BY <1>1 DEF IsForward, IsStrong, IsSerialisation
<1>3. Covered(<<>>) = {}
  BY <1>1 DEF Covered
<1>4. Admissible(R, Arg, {})
  BY DEF Admissible, ConflictFree
<1>5. QED
  BY <1>2, <1>3, <1>4 DEF SequenceOK, IsSoundUnlessReattack

(***************************************************************************)
(* The activation that Descend pushes.                                     *)
(***************************************************************************)
LEMMA NewActivationOK ==
  ASSUME NEW R \in Framework, NEW t \in Task, NEW f \in Activation, NEW S,
         ActivationOK(R, t, f), Chosen(R, t, f, S)
  PROVE  LET g == NewActivation(get_reduct(R, f.active, S), Append(f.sequence, S))
         IN  g \in Activation /\ ActivationOK(R, t, g)
<1> DEFINE q == f.sequence
           p == Append(q, S)
           b == get_reduct(R, f.active, S)
           g == NewActivation(b, p)
<1>1. /\ q \in Seq(SUBSET Arg)
      /\ f.active \in IterableBitSet
      /\ f.active.array = Reduct(R, Covered(q))
  BY DEF Activation, ActivationOK
<1>2. S \in SUBSET f.active.array /\ S \in SUBSET Arg
  BY <1>1, ChosenFacts DEF IterableBitSet
<1>3. Covered(q) \in SUBSET Arg /\ Covered(p) = Covered(q) \cup S
  BY <1>1, <1>2, CoveredFacts
<1>4. /\ b \in IterableBitSet
      /\ b.array = Reduct(R, Covered(p))
      /\ b.array \subseteq b.bitset
      /\ Phantoms(b) = Attacked(R, S) \ Reduct(R, Covered(q))
  <2> DEFINE U == Covered(q)
             active == f.active
  <2>1. /\ active \in IterableBitSet
        /\ U \in SUBSET Arg
        /\ S \in SUBSET Arg
        /\ S \subseteq active.array
        /\ active.array = Reduct(R, U)
    BY <1>1, <1>2, <1>3
  <2> HIDE DEF U, active
  <2>2. /\ get_reduct(R, active, S) \in IterableBitSet
        /\ get_reduct(R, active, S).array = Reduct(R, U \cup S)
        /\ get_reduct(R, active, S).array \subseteq get_reduct(R, active, S).bitset
    BY <2>1, ReductStep
  <2>3. Phantoms(get_reduct(R, active, S)) = Attacked(R, S) \ active.array
    BY <2>1, ReductPhantoms
  <2>4. QED
    BY <1>3, <2>1, <2>2, <2>3 DEF U, active
<1>5. /\ p \in Seq(SUBSET Arg)
      /\ p # <<>>
      /\ Len(p) = Len(q) + 1
      /\ p[Len(q) + 1] = S
      /\ Before(p, Len(q) + 1) = Covered(q)
  BY <1>1, <1>2, AppendFacts, CoveredFacts
<1>6. SequenceOK(R, t, p)
  BY SequenceExtends
<1> HIDE DEF p, b, q
<1>7. Reattacked(R, p) = Attacked(R, S) \ Reduct(R, Covered(q))
  BY <1>5 DEF Reattacked
<1>8. g \in Activation
  BY <1>4, <1>5 DEF NewActivation, Activation
<1>9. g.active = b /\ g.sequence = p /\ g.pending = {}
  BY DEF NewActivation
<1>10. ActivationOK(R, t, g)
  BY <1>4, <1>6, <1>7, <1>9 DEF ActivationOK, PendingOK
<1>11. QED
  BY <1>8, <1>10 DEF p, b, q

-----------------------------------------------------------------------------
(***************************************************************************)
(* Steps.  A step of the running activation changes the top of the stack   *)
(* only.                                                                   *)
(***************************************************************************)
LEMMA UpdateFacts ==
  ASSUME NEW E, NEW q \in Seq(E), NEW n \in 1 .. Len(q), NEW e \in E
  PROVE  /\ [q EXCEPT ![n] = e] \in Seq(E)
         /\ Len([q EXCEPT ![n] = e]) = Len(q)
         /\ [q EXCEPT ![n] = e][n] = e
         /\ \A i \in 1 .. Len(q) : i # n => [q EXCEPT ![n] = e][i] = q[i]
  OBVIOUS

\* What the invariant says of the running activation.
LEMMA TopFacts ==
  ASSUME IInv, stack # <<>>
  PROVE  /\ Len(stack) \in 1 .. Len(stack)
         /\ Top \in Activation
         /\ ActivationOK(af, task, Top)
<1>1. Len(stack) \in 1 .. Len(stack)
  BY FrontFacts DEF IInv, TypeOK
<1>2. QED
  BY <1>1 DEF IInv, TypeOK, Top

\* The first activation has all arguments.
LEMMA InitInv ==
  Init => IInv
<1> SUFFICES ASSUME Init PROVE IInv
  OBVIOUS
<1> DEFINE f == NewActivation(AllActive, <<>>)
<1>1. af \in Framework /\ task \in Task
  BY InputAssumption DEF Init
<1>2. f \in Activation
  BY DEF NewActivation, AllActive, Activation, IterableBitSet
<1>3. f.active = AllActive /\ f.sequence = <<>> /\ f.pending = {}
  BY DEF NewActivation
<1>4. Covered(<<>>) = {}
  BY DEF Covered
<1>5. Reduct(af, {}) = Arg
  BY DEF Reduct, Attacked
<1> HIDE DEF f
<1>6. ActivationOK(af, task, f)
  <2>1. SequenceOK(af, task, f.sequence)
    BY <1>1, <1>3, EmptySequenceOK
  <2>2. Reattacked(af, f.sequence) = {}
    BY <1>3 DEF Reattacked
  <2>3. f.active.array = Arg /\ f.active.bitset = Arg /\ Phantoms(f.active) = {}
    BY <1>3 DEF AllActive, Phantoms
  <2>4. PendingOK(af, task, f)
    BY <1>3 DEF PendingOK
  <2>5. QED
    BY <1>3, <1>4, <1>5, <2>1, <2>2, <2>3, <2>4 DEF ActivationOK
<1>7. stack = <<f>> /\ printed = {} /\ exited = FALSE
  BY DEF Init, f
<1>8. stack \in Seq(Activation) /\ \A i \in 1 .. Len(stack) : stack[i] = f
  BY <1>2, <1>7
<1>9. QED
  BY <1>1, <1>6, <1>7, <1>8 DEF IInv, TypeOK

\* The loop is reached with the result of enumerate_initial.
LEMMA EnterStep ==
  ASSUME IInv, stack # <<>>, NEW sets \in SUBSET SUBSET Arg, Enter(sets),
         IF task.alg = "strong_admissible"
         THEN sets \subseteq {{a} : a \in Top.active.array}
         ELSE sets \subseteq EncodedInitialSets(af, Top.active)
  PROVE  IInv'
<1> DEFINE n == Len(stack)
           f == [Top EXCEPT !.entered = TRUE, !.initial_sets = sets,
                            !.pending = sets]
<1>1. n \in 1 .. Len(stack) /\ Top \in Activation /\ ActivationOK(af, task, Top)
  BY TopFacts
<1>2. f \in Activation
  BY <1>1 DEF Activation
<1>3. f.active = Top.active /\ f.sequence = Top.sequence /\ f.pending = sets
  BY <1>1 DEF Activation
<1>4. ActivationOK(af, task, f)
  BY <1>1, <1>3 DEF ActivationOK, PendingOK
<1>5. stack' = [stack EXCEPT ![n] = f]
  BY DEF Enter, Top
<1> HIDE DEF f, n
<1>6. /\ stack' \in Seq(Activation)
      /\ Len(stack') = Len(stack)
      /\ stack'[n] = f
      /\ \A i \in 1 .. Len(stack) : i # n => stack'[i] = stack[i]
  BY <1>1, <1>2, <1>5, UpdateFacts DEF IInv, TypeOK
<1>7. QED
  BY <1>4, <1>6 DEF IInv, TypeOK, Enter

\* continue: a pending set is passed over.
LEMMA SkipStep ==
  ASSUME IInv, stack # <<>>, NEW S, Skip(S)
  PROVE  IInv'
<1> DEFINE n == Len(stack)
           f == [Top EXCEPT !.pending = @ \ {S}]
<1>1. n \in 1 .. Len(stack) /\ Top \in Activation /\ ActivationOK(af, task, Top)
  BY TopFacts
<1>2. f \in Activation
  BY <1>1 DEF Activation
<1>3. /\ f.active = Top.active
      /\ f.sequence = Top.sequence
      /\ f.pending \subseteq Top.pending
  BY <1>1 DEF Activation
<1>4. ActivationOK(af, task, f)
  BY <1>1, <1>3 DEF ActivationOK, PendingOK
<1>5. stack' = [stack EXCEPT ![n] = f]
  BY DEF Skip, Top
<1> HIDE DEF f, n
<1>6. /\ stack' \in Seq(Activation)
      /\ Len(stack') = Len(stack)
      /\ stack'[n] = f
      /\ \A i \in 1 .. Len(stack) : i # n => stack'[i] = stack[i]
  BY <1>1, <1>2, <1>5, UpdateFacts DEF IInv, TypeOK
<1>7. QED
  BY <1>4, <1>6 DEF IInv, TypeOK, Skip

\* A pending set extends the sequence and the function calls itself.
LEMMA DescendStep ==
  ASSUME IInv, stack # <<>>, NEW S, NEW unattacked \in BOOLEAN,
         Chosen(af, task, Top, S), Descend(S, unattacked)
  PROVE  IInv'
<1> DEFINE n == Len(stack)
           f == [Top EXCEPT !.pending = @ \ {S}, !.is_maximal = FALSE,
                            !.has_unattacked_initialset = @ \/ unattacked]
           g == NewActivation(get_reduct(af, Top.active, S),
                              Append(Top.sequence, S))
           base == [stack EXCEPT ![n] = f]
<1>1. n \in 1 .. Len(stack) /\ Top \in Activation /\ ActivationOK(af, task, Top)
  BY TopFacts
<1>2. f \in Activation
  BY <1>1 DEF Activation
<1>3. /\ f.active = Top.active
      /\ f.sequence = Top.sequence
      /\ f.pending \subseteq Top.pending
  BY <1>1 DEF Activation
<1>4. ActivationOK(af, task, f)
  BY <1>1, <1>3 DEF ActivationOK, PendingOK
<1>5. g \in Activation /\ ActivationOK(af, task, g)
  BY <1>1, NewActivationOK DEF IInv, TypeOK
<1>6. stack' = Append(base, g)
  BY DEF Descend, Top
<1> HIDE DEF f, g, n
<1>7. /\ base \in Seq(Activation)
      /\ Len(base) = Len(stack)
      /\ base[n] = f
      /\ \A i \in 1 .. Len(stack) : i # n => base[i] = stack[i]
  BY <1>1, <1>2, UpdateFacts DEF IInv, TypeOK
<1> HIDE DEF base
<1>8. \A i \in 1 .. Len(base) : ActivationOK(af, task, base[i])
  BY <1>4, <1>7 DEF IInv
<1>9. /\ stack' \in Seq(Activation)
      /\ \A i \in 1 .. Len(stack') :
           (i \in 1 .. Len(base) /\ stack'[i] = base[i]) \/ stack'[i] = g
  BY <1>5, <1>6, <1>7
<1>10. QED
  BY <1>5, <1>8, <1>9 DEF IInv, TypeOK, Descend

\* An activation prints or not and returns.
LEMMA ReturnStep ==
  ASSUME IInv, stack # <<>>, NEW print, Return(print)
  PROVE  IInv'
<1>1. Top \in Activation /\ ActivationOK(af, task, Top)
  BY TopFacts
<1>2. Top.sequence \in Seq(SUBSET Arg) /\ SequenceOK(af, task, Top.sequence)
  BY <1>1 DEF Activation, ActivationOK
<1>3. /\ stack' \in Seq(Activation)
      /\ Len(stack') = Len(stack) - 1
      /\ \A i \in 1 .. Len(stack) - 1 :
           i \in 1 .. Len(stack) /\ stack'[i] = stack[i]
  BY FrontFacts DEF Return, IInv, TypeOK
<1>4. printed' \subseteq printed \cup {Top.sequence}
  BY DEF Return
<1>5. QED
  BY <1>2, <1>3, <1>4 DEF IInv, TypeOK, Return

\* The sets that the loops range over are sets of arguments.
LEMMA LoopSets ==
  ASSUME IInv, stack # <<>>
  PROVE  /\ EncodedInitialSets(af, Top.active) \in SUBSET SUBSET Arg
         /\ {{a} : a \in Top.active.array} \in SUBSET SUBSET Arg
<1>1. Top.active.array \subseteq Arg
  BY TopFacts DEF Activation, IterableBitSet
<1>2. QED
  BY <1>1 DEF EncodedInitialSets

\* Outside ES-GR.cpp every pending set may be chosen.
LEMMA VisitStep ==
  ASSUME IInv, stack # <<>>, task.alg # "strong_admissible",
         NEW S \in Top.pending, NEW unattacked \in BOOLEAN,
         Descend(S, unattacked)
  PROVE  IInv'
<1>1. Chosen(af, task, Top, S)
  BY DEF Chosen
<1>2. QED
  BY <1>1, DescendStep

\* The searches over initial sets enter their loops alike.
LEMMA LoopStep ==
  ASSUME IInv, stack # <<>>, task.alg # "strong_admissible",
         Enter(EncodedInitialSets(af, Top.active))
  PROVE  IInv'
  BY LoopSets, EnterStep

(***************************************************************************)
(* Every step of every search keeps the invariant.                         *)
(***************************************************************************)
LEMMA NextInv ==
  IInv /\ [Next \/ Exited]_vars => IInv'
<1> SUFFICES ASSUME IInv, [Next \/ Exited]_vars
             PROVE  IInv'
  OBVIOUS
<1>1. CASE AdmissibleEnter
  BY <1>1, LoopStep DEF AdmissibleEnter, Entering
<1>2. CASE AdmissibleVisit
  BY <1>2, VisitStep DEF AdmissibleVisit, Looping
<1>3. CASE AdmissibleReturn
  BY <1>3, ReturnStep DEF AdmissibleReturn, Looping
<1>4. CASE StrongEnter
  BY <1>4, LoopSets, EnterStep DEF StrongEnter, Entering
<1>5. CASE StrongSkip
  BY <1>5, SkipStep DEF StrongSkip, Looping
<1>6. CASE StrongVisit
  <2>1. PICK S \in Top.pending : ~IsAttacked(S) /\ Descend(S, FALSE)
    BY <1>6 DEF StrongVisit
  <2>2. Chosen(af, task, Top, S)
    BY <2>1 DEF Chosen, IsAttacked
  <2>3. QED
    BY <1>6, <2>1, <2>2, DescendStep DEF StrongVisit, Looping
<1>7. CASE StrongReturn
  BY <1>7, ReturnStep DEF StrongReturn, Looping
<1>8. CASE CompleteEnter
  BY <1>8, LoopStep DEF CompleteEnter, Entering
<1>9. CASE CompleteVisit
  <2>1. PICK S \in Top.pending : Descend(S, IsSingleton(S) /\ ~IsAttacked(S))
    BY <1>9 DEF CompleteVisit
  <2>2. (IsSingleton(S) /\ ~IsAttacked(S)) \in BOOLEAN
    BY DEF IsSingleton, IsAttacked
  <2>3. QED
    BY <1>9, <2>1, <2>2, VisitStep DEF CompleteVisit, Looping
<1>10. CASE CompleteReturn
  BY <1>10, ReturnStep DEF CompleteReturn, Looping
<1>11. CASE StableFinish
  BY <1>11, ReturnStep DEF StableFinish, Entering
<1>12. CASE StableEnter
  BY <1>12, LoopStep DEF StableEnter, Entering
<1>13. CASE StableVisit
  BY <1>13, VisitStep DEF StableVisit, Looping
<1>14. CASE StableReturn
  BY <1>14, ReturnStep DEF StableReturn, Looping
<1>15. CASE UnchallengedEnter
  BY <1>15, LoopStep DEF UnchallengedEnter, Entering
<1>16. CASE UnchallengedSkip
  BY <1>16, SkipStep DEF UnchallengedSkip, Looping
<1>17. CASE UnchallengedVisit
  BY <1>17, VisitStep DEF UnchallengedVisit, Looping
<1>18. CASE UnchallengedReturn
  BY <1>18, ReturnStep DEF UnchallengedReturn, Looping
<1>19. CASE ArgumentFinish
  BY <1>19, ReturnStep DEF ArgumentFinish, Entering
<1>20. CASE ArgumentEnter
  BY <1>20, LoopStep DEF ArgumentEnter, Entering
<1>21. CASE ArgumentVisit
  BY <1>21, VisitStep DEF ArgumentVisit, Looping
<1>22. CASE ArgumentReturn
  BY <1>22, ReturnStep DEF ArgumentReturn, Looping
<1>23. CASE MainReturn
  BY <1>23 DEF MainReturn, IInv, TypeOK
<1>24. CASE Exited \/ UNCHANGED vars
  BY <1>24 DEF Exited, vars, IInv, TypeOK
<1>25. QED
  BY <1>1, <1>2, <1>3, <1>4, <1>5, <1>6, <1>7, <1>8, <1>9, <1>10, <1>11,
     <1>12, <1>13, <1>14, <1>15, <1>16, <1>17, <1>18, <1>19, <1>20, <1>21,
     <1>22, <1>23, <1>24 DEF Next

-----------------------------------------------------------------------------
(***************************************************************************)
(* The invariant holds in every reachable state.                           *)
(***************************************************************************)
THEOREM Invariance == Spec => []IInv
<1>1. QED
  BY InitInv, NextInv, PTL DEF Spec

(***************************************************************************)
(* The searches stay within their types: stack records, sequences of sets  *)
(* of arguments, printed output.                                           *)
(***************************************************************************)
THEOREM TypeCorrect == Spec => []TypeOK
<1>1. IInv => TypeOK
  BY DEF IInv
<1>2. QED
  BY <1>1, Invariance, PTL

(***************************************************************************)
(* get_reduct, applied along any path of the recursion, lists the reduct   *)
(* and leaves exactly the re-attacked bits set in excess.                  *)
(***************************************************************************)
THEOREM ReductCorrect == Spec => []ActiveIsReduct
<1>1. IInv => ActiveIsReduct
  BY DEF IInv, ActivationOK, ActiveIsReduct
<1>2. QED
  BY <1>1, Invariance, PTL

(***************************************************************************)
(* Every printed sequence, of every task, consists of non-empty conflict-  *)
(* free sets none of which is attacked by or overlaps one before it.       *)
(***************************************************************************)
THEOREM PrintedForward == Spec => []ForwardConsistent
<1>1. IInv => ForwardConsistent
  BY DEF IInv, SequenceOK, ForwardConsistent
<1>2. QED
  BY <1>1, Invariance, PTL

(***************************************************************************)
(* ES-SA and ES-GR print sequences of arguments each of which is           *)
(* unattacked in the reduct by those before it.                            *)
(***************************************************************************)
THEOREM PrintedStrong == Spec => []StrongSound
<1>1. IInv => StrongSound
  BY DEF IInv, SequenceOK, StrongSound
<1>2. QED
  BY <1>1, Invariance, PTL

(***************************************************************************)
(* What the searches print is sound up to re-attacks: a sequence without   *)
(* one is a serialisation sequence and its union is admissible.            *)
(***************************************************************************)
THEOREM PrintedSound == Spec => []SoundUnlessReattack
<1>1. IInv => SoundUnlessReattack
  BY DEF IInv, SequenceOK, SoundUnlessReattack
<1>2. QED
  BY <1>1, Invariance, PTL

-----------------------------------------------------------------------------
(***************************************************************************)
(* Nothing twice.  The sequence of an activation extends the sequences of  *)
(* all activations below it, at each by a set that was already taken out   *)
(* of that loop; and whatever was printed below an activation came through *)
(* a set that its loop is through with.                                    *)
(***************************************************************************)
Below(q, p) == Len(q) < Len(p) /\ \A k \in 1 .. Len(q) : p[k] = q[k]

Passed(f, p) == f.entered /\ p[Len(f.sequence) + 1] \notin f.pending

Fresh(f, p) == p # f.sequence /\ (Below(f.sequence, p) => Passed(f, p))

Once(st, pr) ==
  /\ \A i, j \in 1 .. Len(st) :
       i < j => Below(st[i].sequence, st[j].sequence) /\ Passed(st[i], st[j].sequence)
  /\ \A i \in 1 .. Len(st) : \A p \in pr : Fresh(st[i], p)

(***************************************************************************)
(* A step of the loop keeps the sequence.                                  *)
(***************************************************************************)
LEMMA OnceUpdate ==
  ASSUME NEW st \in Seq(Activation), st # <<>>, NEW pr, Once(st, pr),
         NEW f \in Activation, f.sequence = st[Len(st)].sequence,
         \A p \in pr : Fresh(f, p)
  PROVE  Once([st EXCEPT ![Len(st)] = f], pr)
<1> DEFINE n == Len(st)
           su == [st EXCEPT ![n] = f]
<1>1. n \in Nat /\ n \in 1 .. n
  BY FrontFacts
<1>2. /\ Len(su) = n /\ su[n] = f
      /\ \A i \in 1 .. n : i # n => su[i] = st[i]
  BY <1>1, UpdateFacts
<1> HIDE DEF su
<1>3. \A i \in 1 .. n : su[i].sequence = st[i].sequence
  BY <1>2
<1>4. ASSUME NEW i \in 1 .. n, NEW j \in 1 .. n, i < j
      PROVE  Below(su[i].sequence, su[j].sequence) /\ Passed(su[i], su[j].sequence)
  <2>1. su[i] = st[i]
    BY <1>1, <1>2, <1>4
  <2>2. QED
    BY <1>3, <1>4, <2>1 DEF Once
<1>5. ASSUME NEW i \in 1 .. n, NEW p \in pr
      PROVE  Fresh(su[i], p)
  BY <1>2 DEF Once
<1>6. QED
  BY <1>2, <1>4, <1>5 DEF Once, su

(***************************************************************************)
(* The activation of a set that was just taken out of the loop.            *)
(***************************************************************************)
LEMMA OncePush ==
  ASSUME NEW st \in Seq(Activation), st # <<>>, NEW pr, Once(st, pr),
         NEW S \in SUBSET Arg, NEW g \in Activation,
         g.sequence = Append(st[Len(st)].sequence, S),
         st[Len(st)].entered, S \notin st[Len(st)].pending,
         \A p \in pr : Fresh(g, p)
  PROVE  Once(Append(st, g), pr)
<1> DEFINE n == Len(st)
           sp == Append(st, g)
           q == st[n].sequence
<1>1. n \in Nat /\ n \in 1 .. n
  BY FrontFacts
<1>2. Len(sp) = n + 1 /\ sp[n + 1] = g /\ \A i \in 1 .. n : sp[i] = st[i]
  OBVIOUS
<1>3. \A i \in 1 .. n : st[i].sequence \in Seq(SUBSET Arg) /\ Len(st[i].sequence) \in Nat
  <2>1. \A i \in 1 .. n : st[i] \in Activation
    OBVIOUS
  <2>2. \A i \in 1 .. n : st[i].sequence \in Seq(SUBSET Arg)
    BY <2>1 DEF Activation
  <2>3. QED
    BY <2>2, LenProperties
<1>4. /\ Len(g.sequence) = Len(q) + 1 /\ g.sequence[Len(q) + 1] = S
      /\ \A k \in 1 .. Len(q) : g.sequence[k] = q[k]
      /\ Len(q) \in Nat
  <2>1. q \in Seq(SUBSET Arg) /\ Len(q) \in Nat /\ g.sequence = Append(q, S)
    BY <1>1, <1>3
  <2> HIDE DEF q
  <2>2. QED
    BY <2>1, AppendFacts
<1> HIDE DEF sp
<1>5. ASSUME NEW i \in 1 .. n
      PROVE  Below(st[i].sequence, g.sequence) /\ Passed(st[i], g.sequence)
  <2>1. CASE i = n
    BY <1>4, <2>1 DEF Below, Passed
  <2>2. CASE i # n
    <3> DEFINE m == Len(st[i].sequence)
    <3>1. Below(st[i].sequence, q) /\ Passed(st[i], q)
      BY <1>1, <2>2 DEF Once
    <3>2. m \in Nat /\ m < Len(q) /\ \A k \in 1 .. m : q[k] = st[i].sequence[k]
      BY <1>3, <3>1 DEF Below
    <3>3. g.sequence[m + 1] = q[m + 1] /\ \A k \in 1 .. m : g.sequence[k] = q[k]
      BY <1>4, <3>2
    <3>4. QED
      BY <1>4, <3>1, <3>2, <3>3 DEF Below, Passed
  <2>3. QED
    BY <2>1, <2>2
<1>6. ASSUME NEW i \in 1 .. n + 1, NEW j \in 1 .. n + 1, i < j
      PROVE  Below(sp[i].sequence, sp[j].sequence) /\ Passed(sp[i], sp[j].sequence)
  <2>1. i \in 1 .. n /\ (j \in 1 .. n \/ j = n + 1)
    BY <1>1, <1>6
  <2>2. QED
    BY <1>2, <1>5, <1>6, <2>1 DEF Once
<1>7. ASSUME NEW i \in 1 .. n + 1, NEW p \in pr
      PROVE  Fresh(sp[i], p)
  <2>1. i \in 1 .. n \/ i = n + 1
    BY <1>1
  <2>2. QED
    BY <1>2, <2>1 DEF Once
<1>8. QED
  BY <1>2, <1>6, <1>7 DEF Once, sp

(***************************************************************************)
(* Returning, whether the sequence is printed or not.                      *)
(***************************************************************************)
LEMMA OncePop ==
  ASSUME NEW st \in Seq(Activation), st # <<>>, NEW pr, Once(st, pr),
         NEW pn \in SUBSET (pr \cup {st[Len(st)].sequence})
  PROVE  Once(SubSeq(st, 1, Len(st) - 1), pn)
<1> DEFINE n == Len(st)
           sb == SubSeq(st, 1, n - 1)
<1>1. /\ n \in Nat /\ n \in 1 .. n /\ Len(sb) = n - 1
      /\ \A i \in 1 .. n - 1 : i \in 1 .. n /\ sb[i] = st[i]
  BY FrontFacts
<1>2. \A i \in 1 .. n : Len(st[i].sequence) \in Nat
  BY DEF Activation
<1> HIDE DEF sb
<1>3. ASSUME NEW i \in 1 .. n - 1
      PROVE  Fresh(st[i], st[n].sequence)
  <2>1. i \in 1 .. n /\ i < n
    BY <1>1
  <2>2. Below(st[i].sequence, st[n].sequence) /\ Passed(st[i], st[n].sequence)
    BY <1>1, <2>1 DEF Once
  <2>3. st[n].sequence # st[i].sequence
    BY <1>1, <1>2, <2>1, <2>2 DEF Below
  <2>4. QED
    BY <2>2, <2>3 DEF Fresh
<1>4. ASSUME NEW i \in 1 .. n - 1, NEW p \in pn
      PROVE  Fresh(sb[i], p)
  <2>1. sb[i] = st[i] /\ i \in 1 .. n
    BY <1>1
  <2>2. QED
    BY <1>3, <2>1 DEF Once
<1>5. ASSUME NEW i \in 1 .. n - 1, NEW j \in 1 .. n - 1, i < j
      PROVE  Below(sb[i].sequence, sb[j].sequence) /\ Passed(sb[i], sb[j].sequence)
  BY <1>1, <1>5 DEF Once
<1>6. QED
  BY <1>1, <1>4, <1>5 DEF Once, sb

(***************************************************************************)
(* The steps of the searches in these terms.                               *)
(***************************************************************************)
LEMMA EnterOnce ==
  ASSUME IInv, stack # <<>>, Once(stack, printed), ~Top.entered,
         NEW sets \in SUBSET SUBSET Arg, Enter(sets)
  PROVE  Once(stack, printed)'
<1> DEFINE f == [Top EXCEPT !.entered = TRUE, !.initial_sets = sets, !.pending = sets]
<1>1. /\ Len(stack) \in 1 .. Len(stack) /\ Top \in Activation /\ stack \in Seq(Activation)
      /\ Top = stack[Len(stack)]
  BY TopFacts DEF IInv, TypeOK, Top
<1>2. f \in Activation /\ f.sequence = Top.sequence
  BY <1>1 DEF Activation
<1>3. \A p \in printed : Fresh(f, p)
  <2>1. \A p \in printed : p # Top.sequence /\ ~Below(Top.sequence, p)
    BY <1>1 DEF Once, Fresh, Passed
  <2>2. QED
    BY <1>2, <2>1 DEF Fresh
<1>4. stack' = [stack EXCEPT ![Len(stack)] = f] /\ printed' = printed
  BY DEF Enter, Top
<1> HIDE DEF f
<1>5. Once([stack EXCEPT ![Len(stack)] = f], printed)
  BY <1>1, <1>2, <1>3, OnceUpdate
<1>6. QED
  BY <1>4, <1>5 DEF Once

\* A set passed over leads to no printed sequence again.
LEMMA SkipOnce ==
  ASSUME IInv, stack # <<>>, Once(stack, printed), NEW S, Skip(S)
  PROVE  Once(stack, printed)'
<1> DEFINE f == [Top EXCEPT !.pending = @ \ {S}]
<1>1. /\ Len(stack) \in 1 .. Len(stack) /\ Top \in Activation /\ stack \in Seq(Activation)
      /\ Top = stack[Len(stack)]
  BY TopFacts DEF IInv, TypeOK, Top
<1>2. /\ f \in Activation /\ f.sequence = Top.sequence
      /\ f.entered = Top.entered /\ f.pending \subseteq Top.pending
  BY <1>1 DEF Activation
<1>3. \A p \in printed : Fresh(f, p)
  BY <1>1, <1>2 DEF Once, Fresh, Passed
<1>4. stack' = [stack EXCEPT ![Len(stack)] = f] /\ printed' = printed
  BY DEF Skip, Top
<1> HIDE DEF f
<1>5. Once([stack EXCEPT ![Len(stack)] = f], printed)
  BY <1>1, <1>2, <1>3, OnceUpdate
<1>6. QED
  BY <1>4, <1>5 DEF Once

\* A set descended into is no longer pending in its caller.
LEMMA DescendOnce ==
  ASSUME IInv, stack # <<>>, Once(stack, printed), Top.entered,
         NEW S, NEW unattacked \in BOOLEAN,
         Chosen(af, task, Top, S), Descend(S, unattacked)
  PROVE  Once(stack, printed)'
<1> DEFINE f == [Top EXCEPT !.pending = @ \ {S}, !.is_maximal = FALSE,
                            !.has_unattacked_initialset = @ \/ unattacked]
           g == NewActivation(get_reduct(af, Top.active, S), Append(Top.sequence, S))
           base == [stack EXCEPT ![Len(stack)] = f]
           q == Top.sequence
<1>1. /\ Len(stack) \in 1 .. Len(stack) /\ Top \in Activation /\ stack \in Seq(Activation)
      /\ Top = stack[Len(stack)] /\ ActivationOK(af, task, Top)
      /\ af \in Framework /\ task \in Task
  BY TopFacts DEF IInv, TypeOK, Top
<1>2. /\ f \in Activation /\ f.sequence = Top.sequence
      /\ f.entered = Top.entered /\ f.pending = Top.pending \ {S}
  BY <1>1 DEF Activation
<1>3. S \in Top.pending /\ S \in SUBSET Arg /\ q \in Seq(SUBSET Arg)
  <2>1. S \in Top.pending
    BY DEF Chosen
  <2>2. QED
    BY <1>1, <2>1 DEF Activation
<1>4. g \in Activation
  BY <1>1, NewActivationOK
<1>5. g.sequence = Append(q, S) /\ ~g.entered
  BY DEF NewActivation
<1>6. stack' = Append(base, g) /\ printed' = printed
  BY DEF Descend, Top
<1> HIDE DEF f, g
<1>7. Once(base, printed)
  <2>1. \A p \in printed : Fresh(f, p)
    BY <1>1, <1>2 DEF Once, Fresh, Passed
  <2>2. QED
    BY <1>1, <1>2, <2>1, OnceUpdate
<1>8. base \in Seq(Activation) /\ Len(base) = Len(stack) /\ base[Len(base)] = f /\ base # <<>>
  BY <1>1, <1>2, UpdateFacts
<1>9. ASSUME NEW p \in printed
      PROVE  Fresh(g, p)
  <2>1. Fresh(Top, p)
    BY <1>1 DEF Once
  <2>2. /\ Len(q) \in Nat /\ Len(g.sequence) = Len(q) + 1
        /\ g.sequence[Len(q) + 1] = S
        /\ \A k \in 1 .. Len(q) : g.sequence[k] = q[k]
    <3> HIDE DEF q
    <3>1. QED
      BY <1>3, <1>5, AppendFacts
  <2>3. ~(Below(q, p) /\ p[Len(q) + 1] = S)
    BY <1>3, <2>1 DEF Fresh, Passed
  <2>4. p = g.sequence => Below(q, p) /\ p[Len(q) + 1] = S
    BY <2>2 DEF Below
  <2>5. Below(g.sequence, p) => Below(q, p) /\ p[Len(q) + 1] = S
    <3>1. SUFFICES ASSUME Below(g.sequence, p) PROVE Below(q, p) /\ p[Len(q) + 1] = S
      OBVIOUS
    <3>2. Len(q) + 1 < Len(p) /\ \A k \in 1 .. Len(q) + 1 : p[k] = g.sequence[k]
      BY <2>2, <3>1 DEF Below
    <3>3. Len(q) < Len(p)
      <4>1. Len(p) \in Nat
        BY DEF IInv, TypeOK
      <4>2. QED
        BY <2>2, <3>2, <4>1
    <3>4. QED
      BY <2>2, <3>2, <3>3 DEF Below
  <2>6. QED
    BY <2>3, <2>4, <2>5 DEF Fresh
<1> HIDE DEF base
<1>10. Once(Append(base, g), printed)
  BY <1>2, <1>3, <1>4, <1>5, <1>7, <1>8, <1>9, OncePush
<1>11. QED
  BY <1>6, <1>10 DEF Once

\* An activation that returns has printed its own sequence at most.
LEMMA ReturnOnce ==
  ASSUME IInv, stack # <<>>, Once(stack, printed), NEW print, Return(print)
  PROVE  Once(stack, printed)'
<1>1. stack \in Seq(Activation) /\ Top = stack[Len(stack)]
  BY DEF IInv, TypeOK, Top
<1>2. printed' \in SUBSET (printed \cup {Top.sequence}) /\ stack' = SubSeq(stack, 1, Len(stack) - 1)
  BY DEF Return
<1>3. Once(SubSeq(stack, 1, Len(stack) - 1), printed')
  BY <1>1, <1>2, OncePop
<1>4. QED
  BY <1>2, <1>3 DEF Once

(***************************************************************************)
(* The searches take nothing up again: no sequence is printed twice, on    *)
(* any framework, re-attacks or not.                                       *)
(***************************************************************************)
THEOREM PrintedOnce == Spec => []NeverReprinted
<1>1. Init => Once(stack, printed)
  <2>1. SUFFICES ASSUME Init PROVE Once(stack, printed)
    OBVIOUS
  <2>2. Len(stack) = 1 /\ printed = {}
    BY <2>1 DEF Init
  <2>3. \A i, j \in 1 .. Len(stack) : ~(i < j)
    BY <2>2
  <2>4. QED
    BY <2>2, <2>3 DEF Once
<1>2. IInv /\ Once(stack, printed) /\ [Next \/ Exited]_vars => Once(stack, printed)'
  <2> SUFFICES ASSUME IInv, Once(stack, printed), [Next \/ Exited]_vars
               PROVE  Once(stack, printed)'
    OBVIOUS
  <2>1. CASE AdmissibleEnter \/ CompleteEnter \/ StableEnter \/ UnchallengedEnter
             \/ ArgumentEnter \/ StrongEnter
    <3>1. stack # <<>> /\ ~Top.entered
      BY <2>1 DEF AdmissibleEnter, CompleteEnter, StableEnter, UnchallengedEnter,
                  ArgumentEnter, StrongEnter, Entering
    <3>2. PICK sets \in SUBSET SUBSET Arg : Enter(sets)
      BY <2>1, <3>1, LoopSets DEF AdmissibleEnter, CompleteEnter, StableEnter,
           UnchallengedEnter, ArgumentEnter, StrongEnter
    <3>3. QED
      BY <3>1, <3>2, EnterOnce
  <2>2. CASE StrongSkip \/ UnchallengedSkip
    BY <2>2, SkipOnce DEF StrongSkip, UnchallengedSkip, Looping
  <2>3. CASE StrongVisit
    <3>1. PICK S \in Top.pending : ~IsAttacked(S) /\ Descend(S, FALSE)
      BY <2>3 DEF StrongVisit
    <3>2. Chosen(af, task, Top, S)
      BY <3>1 DEF Chosen, IsAttacked
    <3>3. QED
      BY <2>3, <3>1, <3>2, DescendOnce DEF StrongVisit, Looping
  <2>4. CASE AdmissibleVisit \/ CompleteVisit \/ StableVisit \/ UnchallengedVisit
             \/ ArgumentVisit
    <3>1. stack # <<>> /\ Top.entered /\ task.alg # "strong_admissible"
      BY <2>4 DEF AdmissibleVisit, CompleteVisit, StableVisit, UnchallengedVisit,
                  ArgumentVisit, Looping
    <3>2. PICK S \in Top.pending, unattacked \in BOOLEAN : Descend(S, unattacked)
      <4>1. \A S : (IsSingleton(S) /\ ~IsAttacked(S)) \in BOOLEAN
        BY DEF IsSingleton, IsAttacked
      <4>2. QED
        BY <2>4, <4>1 DEF AdmissibleVisit, CompleteVisit, StableVisit, UnchallengedVisit,
             ArgumentVisit
    <3>3. Chosen(af, task, Top, S)
      BY <3>1 DEF Chosen
    <3>4. QED
      BY <3>1, <3>2, <3>3, DescendOnce
  <2>5. CASE AdmissibleReturn \/ StrongReturn \/ CompleteReturn \/ StableFinish
             \/ StableReturn \/ UnchallengedReturn \/ ArgumentFinish \/ ArgumentReturn
    <3>1. stack # <<>>
      BY <2>5 DEF AdmissibleReturn, StrongReturn, CompleteReturn, StableFinish, StableReturn,
           UnchallengedReturn, ArgumentFinish, ArgumentReturn, Looping, Entering
    <3>2. PICK print : Return(print)
      BY <2>5 DEF AdmissibleReturn, StrongReturn, CompleteReturn, StableFinish, StableReturn,
           UnchallengedReturn, ArgumentFinish, ArgumentReturn
    <3>3. QED
      BY <3>1, <3>2, ReturnOnce
  <2>6. CASE MainReturn \/ Exited \/ UNCHANGED vars
    <3>1. stack' = stack /\ printed' = printed
      BY <2>6 DEF MainReturn, Exited, vars
    <3>2. QED
      BY <3>1 DEF Once
  <2>7. QED
    BY <2>1, <2>2, <2>3, <2>4, <2>5, <2>6 DEF Next
<1>3. IInv /\ Once(stack, printed) => NeverReprinted
  <2>1. SUFFICES ASSUME IInv, Once(stack, printed),
                        NEW i \in 1 .. Len(stack), NEW p \in printed
                 PROVE  /\ p # stack[i].sequence
                        /\ \A S \in stack[i].pending :
                             LET q == Append(stack[i].sequence, S)
                             IN  Len(q) <= Len(p) => SubSeq(p, 1, Len(q)) # q
    BY DEF NeverReprinted
  <2>2. Fresh(stack[i], p) /\ stack[i] \in Activation /\ p \in Seq(SUBSET Arg)
    BY <2>1 DEF Once, IInv, TypeOK
  <2>3. ASSUME NEW S \in stack[i].pending, NEW q, q = Append(stack[i].sequence, S),
               Len(q) <= Len(p), SubSeq(p, 1, Len(q)) = q
        PROVE  FALSE
    <3>1. stack[i].sequence \in Seq(SUBSET Arg) /\ S \in SUBSET Arg
      BY <2>2 DEF Activation
    <3>2. PICK r \in Seq(SUBSET Arg) : r = stack[i].sequence
      BY <3>1
    <3>3. /\ Len(r) \in Nat /\ Len(p) \in Nat /\ Len(q) = Len(r) + 1 /\ q[Len(r) + 1] = S
          /\ \A k \in 1 .. Len(r) : q[k] = r[k]
      BY <2>2, <2>3, <3>1, <3>2, AppendFacts
    <3>4. \A k \in 1 .. Len(r) + 1 : SubSeq(p, 1, Len(q))[k] = p[k]
      BY <2>2, <2>3, <3>3
    <3>5. Below(r, p) /\ p[Len(r) + 1] = S
      BY <2>3, <3>3, <3>4 DEF Below
    <3>6. QED
      BY <2>2, <2>3, <3>2, <3>5 DEF Fresh, Passed
  <2>4. QED
    BY <2>2, <2>3 DEF Fresh
<1>4. QED
  BY <1>1, <1>2, <1>3, Invariance, PTL DEF Spec

-----------------------------------------------------------------------------
(***************************************************************************)
(* Paths: the sequences that a task may build.                             *)
(***************************************************************************)
LEMMA PicksInitial ==
  ASSUME NEW R \in Framework, NEW t \in Task, NEW X \in SUBSET Arg
  PROVE  Picks(R, t, X) \subseteq InitialSets(R, X)
<1>1. UnattackedSets(R, X) \subseteq InitialSets(R, X)
  BY UnattackedIsInitial DEF UnattackedSets
<1>2. Unchallenged(R, X) \subseteq InitialSets(R, X)
  BY DEF Unchallenged
<1>3. QED
  BY <1>1, <1>2 DEF Picks

\* A path of picks is a serialisation sequence.
LEMMA PathIsSerialisation ==
  ASSUME NEW R \in Framework, NEW t \in Task, NEW q \in Seq(SUBSET Arg), IsPath(R, t, q)
  PROVE  IsSerialisation(R, q)
<1>1. \A i \in 1 .. Len(q) : Reduct(R, Before(q, i)) \in SUBSET Arg
  BY DEF Reduct
<1>2. QED
  BY <1>1, PicksInitial DEF IsPath, IsSerialisation

\* A path grows by a pick in its reduct.
LEMMA PathAppend ==
  ASSUME NEW R \in Framework, NEW t \in Task, NEW q \in Seq(SUBSET Arg), NEW S \in SUBSET Arg
  PROVE  IsPath(R, t, Append(q, S))
           <=> IsPath(R, t, q) /\ S \in Picks(R, t, Reduct(R, Covered(q)))
<1> DEFINE p == Append(q, S)
           n == Len(q)
<1>1. n \in Nat /\ Len(p) = n + 1 /\ p[n + 1] = S /\ \A i \in 1 .. n : p[i] = q[i]
  BY AppendFacts
<1>2. Before(p, n + 1) = Covered(q) /\ \A i \in 1 .. n : Before(p, i) = Before(q, i)
  BY CoveredFacts
<1>3. 1 .. n + 1 = 1 .. n \cup {n + 1}
  BY <1>1
<1> HIDE DEF p, n
<1>4. IsPath(R, t, p) <=>
        /\ \A i \in 1 .. n : q[i] \in Picks(R, t, Reduct(R, Before(q, i)))
        /\ S \in Picks(R, t, Reduct(R, Covered(q)))
  BY <1>1, <1>2, <1>3 DEF IsPath
<1>5. QED
  BY <1>4 DEF IsPath, p, n

\* A path goes on from each of its beginnings by one of the sets to pick there.
LEMMA PathContinues ==
  ASSUME NEW R \in Framework, NEW t \in Task, NEW p \in Seq(SUBSET Arg),
         NEW q \in Seq(SUBSET Arg), Below(p, q), IsPath(R, t, q)
  PROVE  q[Len(p) + 1] \in Picks(R, t, Reduct(R, Covered(p)))
<1>1. Len(p) \in Nat /\ Len(q) \in Nat /\ Len(p) + 1 \in 1 .. Len(q)
      /\ \A k \in 1 .. Len(p) : q[k] = p[k]
  BY DEF Below
<1>2. 1 .. (Len(p) + 1) - 1 = 1 .. Len(p)
  BY <1>1
<1>3. Before(q, Len(p) + 1) = Covered(p)
  BY <1>1, <1>2 DEF Before, Covered
<1>4. QED
  BY <1>1, <1>3 DEF IsPath

(***************************************************************************)
(* Without re-attacks the bitset of an activation is its array, so that    *)
(* enumerate_initial returns the initial sets of the reduct.               *)
(***************************************************************************)
LEMMA NoPhantoms ==
  ASSUME NEW R \in Framework, NEW t \in Task, NEW f \in Activation, NeverReattacks(R),
         ActivationOK(R, t, f), IsPath(R, t, f.sequence)
  PROVE  /\ f.active.array = Reduct(R, Covered(f.sequence))
         /\ f.active.array \in SUBSET Arg
         /\ EncodedInitialSets(R, f.active) = InitialSets(R, f.active.array)
         /\ \A a : active_attackers(R, f.active, a) = attackers(R, a) \cap f.active.array
<1>1. f.sequence \in Seq(SUBSET Arg) /\ f.active \in IterableBitSet
  BY DEF Activation
<1>2. /\ f.active.array = Reduct(R, Covered(f.sequence))
      /\ f.active.array \subseteq f.active.bitset
      /\ Phantoms(f.active) = Reattacked(R, f.sequence)
  BY DEF ActivationOK
<1>3. f.sequence \in Serialisations(R)
  BY <1>1, PathIsSerialisation, SerialisationsAre
<1>4. Phantoms(f.active) = {}
  BY <1>1, <1>2, <1>3, NoReattackFacts DEF NeverReattacks
<1>5. f.active.bitset = f.active.array
  BY <1>2, <1>4 DEF Phantoms
<1>6. QED
  BY <1>1, <1>2, <1>5, EncodedIsInitial DEF active_attackers, IterableBitSet

(***************************************************************************)
(* The inductive invariant of completeness.  What a task asks for is       *)
(* printed or still ahead of some activation: it is the sequence of the    *)
(* activation or goes on from it by a set that the loop has not taken out. *)
(* The two flags of the loop tell what has been taken out so far.          *)
(***************************************************************************)
Open(f, q) ==
  \/ q = f.sequence
  \/ Below(f.sequence, q) /\ (f.entered => q[Len(f.sequence) + 1] \in f.pending)

LoopOK(R, t, f) ==
  LET X == f.active.array
  IN  IF f.entered
      THEN /\ t.alg # "strong_admissible" => f.initial_sets = InitialSets(R, X)
           /\ f.is_maximal <=> Picks(R, t, X) \subseteq f.pending
           /\ t.alg = "complete" =>
                (f.has_unattacked_initialset <=> \E a \in Unattacked(R, X) : {a} \notin f.pending)
           /\ t.alg \in {"stable", "argument"} => ~IsEnd(R, t, f.sequence)
      ELSE f.is_maximal /\ ~f.has_unattacked_initialset

FrameOK(R, t, f) == IsPath(R, t, f.sequence) /\ LoopOK(R, t, f)

Accounted(R, t, st, pr) ==
  /\ \A i \in 1 .. Len(st) : FrameOK(R, t, st[i])
  /\ \A q \in pr : Wanted(R, t, q)
  /\ \A q \in Seq(SUBSET Arg) :
       Wanted(R, t, q) => q \in pr \/ \E i \in 1 .. Len(st) : Open(st[i], q)

\* A step of the loop closes nothing that is asked for.
LEMMA AccountedUpdate ==
  ASSUME NEW R, NEW t, NEW st \in Seq(Activation), st # <<>>, NEW pr, Accounted(R, t, st, pr),
         NEW f \in Activation, FrameOK(R, t, f),
         \A q \in Seq(SUBSET Arg) : Wanted(R, t, q) /\ Open(st[Len(st)], q) => Open(f, q)
  PROVE  Accounted(R, t, [st EXCEPT ![Len(st)] = f], pr)
<1> DEFINE n == Len(st)
           su == [st EXCEPT ![n] = f]
<1>1. n \in Nat /\ n \in 1 .. n
  BY FrontFacts
<1>2. /\ Len(su) = n /\ su[n] = f
      /\ \A i \in 1 .. n : i # n => su[i] = st[i]
  BY <1>1, UpdateFacts
<1> HIDE DEF su
<1>3. \A i \in 1 .. n : FrameOK(R, t, su[i])
  BY <1>2 DEF Accounted
<1>4. ASSUME NEW q \in Seq(SUBSET Arg), Wanted(R, t, q), q \notin pr
      PROVE  \E i \in 1 .. n : Open(su[i], q)
  <2>1. PICK i \in 1 .. n : Open(st[i], q)
    BY <1>4 DEF Accounted
  <2>2. Open(su[i], q)
    BY <1>2, <1>4, <2>1
  <2>3. QED
    BY <2>2
<1>5. QED
  BY <1>2, <1>3, <1>4 DEF Accounted, su

\* Descend splits what was open at the top between the loop and the new activation.
LEMMA AccountedPush ==
  ASSUME NEW R, NEW t, NEW st \in Seq(Activation), st # <<>>, NEW pr, Accounted(R, t, st, pr),
         NEW f \in Activation, FrameOK(R, t, f), NEW g \in Activation, FrameOK(R, t, g),
         \A q \in Seq(SUBSET Arg) :
           Wanted(R, t, q) /\ Open(st[Len(st)], q) => Open(f, q) \/ Open(g, q)
  PROVE  Accounted(R, t, Append([st EXCEPT ![Len(st)] = f], g), pr)
<1> DEFINE n == Len(st)
           base == [st EXCEPT ![n] = f]
           sp == Append(base, g)
<1>1. n \in Nat /\ n \in 1 .. n
  BY FrontFacts
<1>2. /\ base \in Seq(Activation) /\ Len(base) = n /\ base[n] = f
      /\ \A i \in 1 .. n : i # n => base[i] = st[i]
  BY <1>1, UpdateFacts
<1> HIDE DEF base
<1>3. Len(sp) = n + 1 /\ sp[n + 1] = g /\ \A i \in 1 .. n : sp[i] = base[i]
  BY <1>2
<1>4. /\ n + 1 \in 1 .. n + 1
      /\ \A i \in 1 .. n : i \in 1 .. n + 1
      /\ \A i \in 1 .. n + 1 : i \in 1 .. n \/ i = n + 1
  BY <1>1
<1> HIDE DEF sp
<1>5. \A i \in 1 .. n + 1 : FrameOK(R, t, sp[i])
  BY <1>2, <1>3, <1>4 DEF Accounted
<1>6. ASSUME NEW q \in Seq(SUBSET Arg), Wanted(R, t, q), q \notin pr
      PROVE  \E i \in 1 .. n + 1 : Open(sp[i], q)
  <2>1. PICK i \in 1 .. n : Open(st[i], q)
    BY <1>6 DEF Accounted
  <2>2. CASE i # n
    BY <1>2, <1>3, <1>4, <2>1, <2>2
  <2>3. CASE i = n
    <3>1. Open(f, q) \/ Open(g, q)
      BY <1>6, <2>1, <2>3
    <3>2. Open(sp[n], q) \/ Open(sp[n + 1], q)
      BY <1>1, <1>2, <1>3, <3>1
    <3>3. QED
      BY <1>1, <1>4, <3>2
  <2>4. QED
    BY <2>2, <2>3
<1>7. QED
  BY <1>3, <1>5, <1>6 DEF Accounted, base, sp

\* Return leaves nothing open at the top but the sequence itself, which is
\* printed exactly when it is asked for.
LEMMA AccountedPop ==
  ASSUME NEW R, NEW t, NEW st \in Seq(Activation), st # <<>>, NEW pr, Accounted(R, t, st, pr),
         NEW print, print <=> IsEnd(R, t, st[Len(st)].sequence),
         \A q \in Seq(SUBSET Arg) :
           Wanted(R, t, q) /\ Open(st[Len(st)], q) => q = st[Len(st)].sequence
  PROVE  Accounted(R, t, SubSeq(st, 1, Len(st) - 1),
                   IF print THEN pr \cup {st[Len(st)].sequence} ELSE pr)
<1> DEFINE n == Len(st)
           sb == SubSeq(st, 1, n - 1)
           pn == IF print THEN pr \cup {st[n].sequence} ELSE pr
<1>1. /\ n \in Nat /\ n \in 1 .. n /\ Len(sb) = n - 1
      /\ \A i \in 1 .. n - 1 : i \in 1 .. n /\ sb[i] = st[i]
  BY FrontFacts
<1>2. \A i \in 1 .. n : i # n => i \in 1 .. n - 1
  BY <1>1
<1> HIDE DEF sb
<1>3. \A i \in 1 .. n - 1 : FrameOK(R, t, sb[i])
  BY <1>1 DEF Accounted
<1>4. \A q \in pn : Wanted(R, t, q)
  BY <1>1 DEF Accounted, FrameOK, Wanted
<1>5. ASSUME NEW q \in Seq(SUBSET Arg), Wanted(R, t, q), q \notin pn
      PROVE  \E i \in 1 .. n - 1 : Open(sb[i], q)
  <2>1. q \notin pr /\ q # st[n].sequence
    BY <1>5 DEF Wanted
  <2>2. PICK i \in 1 .. n : Open(st[i], q)
    BY <1>5, <2>1 DEF Accounted
  <2>3. i # n
    BY <1>5, <2>1, <2>2
  <2>4. QED
    BY <1>1, <1>2, <2>2, <2>3
<1>6. QED
  BY <1>1, <1>3, <1>4, <1>5 DEF Accounted, sb

-----------------------------------------------------------------------------
(***************************************************************************)
(* The steps of one activation: what becomes of its frame and of the       *)
(* sequences that are open at it.                                          *)
(***************************************************************************)
Entered(f, sets) == [f EXCEPT !.entered = TRUE, !.initial_sets = sets, !.pending = sets]

Skipped(f, S) == [f EXCEPT !.pending = @ \ {S}]

Descended(f, S, unattacked) ==
  [f EXCEPT !.pending = @ \ {S}, !.is_maximal = FALSE,
            !.has_unattacked_initialset = @ \/ unattacked]

\* Entering the loop leaves every wanted continuation open.
LEMMA EnterFrame ==
  ASSUME NEW R \in Framework, NEW t \in Task, NEW f \in Activation, NeverReattacks(R),
         ActivationOK(R, t, f), FrameOK(R, t, f), ~f.entered, NEW sets \in SUBSET SUBSET Arg,
         sets = IF t.alg = "strong_admissible" THEN {{a} : a \in f.active.array}
                ELSE EncodedInitialSets(R, f.active),
         t.alg \in {"stable", "argument"} => ~IsEnd(R, t, f.sequence)
  PROVE  /\ FrameOK(R, t, Entered(f, sets))
         /\ \A q \in Seq(SUBSET Arg) : Wanted(R, t, q) /\ Open(f, q) => Open(Entered(f, sets), q)
<1> DEFINE X == f.active.array
           h == Entered(f, sets)
<1>1. /\ h.active = f.active /\ h.sequence = f.sequence /\ h.entered /\ h.initial_sets = sets
      /\ h.pending = sets /\ h.is_maximal = f.is_maximal
      /\ h.has_unattacked_initialset = f.has_unattacked_initialset
  BY DEF Activation, Entered
<1> HIDE DEF h
<1>2. /\ f.is_maximal /\ ~f.has_unattacked_initialset /\ IsPath(R, t, f.sequence)
      /\ f.sequence \in Seq(SUBSET Arg)
  BY DEF FrameOK, LoopOK, Activation
<1>3. /\ X = Reduct(R, Covered(f.sequence)) /\ X \in SUBSET Arg
      /\ EncodedInitialSets(R, f.active) = InitialSets(R, X)
  BY <1>2, NoPhantoms
<1>4. Picks(R, t, X) \subseteq sets
  <2>1. CASE t.alg = "strong_admissible"
    BY <2>1 DEF Picks, UnattackedSets, Unattacked
  <2>2. CASE t.alg # "strong_admissible"
    BY <1>3, <2>2, PicksInitial
  <2>3. QED
    BY <2>1, <2>2
<1>5. t.alg # "strong_admissible" => \A a \in Unattacked(R, X) : {a} \in sets
  <2> HIDE DEF X
  <2>1. \A a \in Unattacked(R, X) : {a} \in InitialSets(R, X)
    BY <1>3, UnattackedIsInitial
  <2>2. QED
    BY <1>3, <2>1
<1>6. LoopOK(R, t, h)
  BY <1>1, <1>2, <1>3, <1>4, <1>5 DEF LoopOK
<1>7. ASSUME NEW q \in Seq(SUBSET Arg), Wanted(R, t, q), Open(f, q)
      PROVE  Open(h, q)
  <2>1. CASE q = f.sequence
    BY <1>1, <2>1 DEF Open
  <2>2. CASE Below(f.sequence, q)
    BY <1>1, <1>2, <1>3, <1>4, <1>7, <2>2, PathContinues DEF Open, Wanted
  <2>3. QED
    BY <1>7, <2>1, <2>2 DEF Open
<1>8. QED
  BY <1>1, <1>2, <1>6, <1>7 DEF FrameOK, h

\* A set that is no pick leads to nothing wanted.
LEMMA SkipFrame ==
  ASSUME NEW R \in Framework, NEW t \in Task, NEW f \in Activation,
         ActivationOK(R, t, f), FrameOK(R, t, f), f.entered, t.alg # "complete",
         NEW S, S \notin Picks(R, t, f.active.array)
  PROVE  /\ FrameOK(R, t, Skipped(f, S))
         /\ \A q \in Seq(SUBSET Arg) : Wanted(R, t, q) /\ Open(f, q) => Open(Skipped(f, S), q)
<1> DEFINE X == f.active.array
           h == Skipped(f, S)
<1>1. /\ h.active = f.active /\ h.sequence = f.sequence /\ h.entered = f.entered
      /\ h.initial_sets = f.initial_sets
      /\ h.pending = f.pending \ {S} /\ h.is_maximal = f.is_maximal
  BY DEF Activation, Skipped
<1> HIDE DEF h
<1>2. /\ IsPath(R, t, f.sequence) /\ LoopOK(R, t, f) /\ f.sequence \in Seq(SUBSET Arg)
      /\ X = Reduct(R, Covered(f.sequence))
  BY DEF FrameOK, ActivationOK, Activation
<1>3. LoopOK(R, t, h)
  BY <1>1, <1>2 DEF LoopOK
<1>4. ASSUME NEW q \in Seq(SUBSET Arg), Wanted(R, t, q), Open(f, q)
      PROVE  Open(h, q)
  <2>1. CASE q = f.sequence
    BY <1>1, <2>1 DEF Open
  <2>2. CASE Below(f.sequence, q) /\ q[Len(f.sequence) + 1] \in f.pending
    <3>1. q[Len(f.sequence) + 1] \in Picks(R, t, X)
      BY <1>2, <1>4, <2>2, PathContinues DEF Wanted
    <3>2. QED
      BY <1>1, <2>2, <3>1 DEF Open
  <2>3. QED
    BY <1>4, <2>1, <2>2 DEF Open
<1>5. QED
  BY <1>1, <1>2, <1>3, <1>4 DEF FrameOK, h

\* What was open in the caller stays open there or in the new activation.
LEMMA DescendFrame ==
  ASSUME NEW R \in Framework, NEW t \in Task, NEW f \in Activation,
         ActivationOK(R, t, f), FrameOK(R, t, f), f.entered, NEW unattacked \in BOOLEAN,
         NEW S \in f.pending, S \in Picks(R, t, f.active.array),
         t.alg = "complete" => (unattacked <=> \E a \in Unattacked(R, f.active.array) : S = {a}),
         NEW b
  PROVE  /\ FrameOK(R, t, Descended(f, S, unattacked))
         /\ FrameOK(R, t, NewActivation(b, Append(f.sequence, S)))
         /\ \A q \in Seq(SUBSET Arg) : Wanted(R, t, q) /\ Open(f, q) =>
              \/ Open(Descended(f, S, unattacked), q)
              \/ Open(NewActivation(b, Append(f.sequence, S)), q)
<1> DEFINE X == f.active.array
           h == Descended(f, S, unattacked)
           g == NewActivation(b, Append(f.sequence, S))
<1>1. /\ h.active = f.active /\ h.sequence = f.sequence /\ h.entered = f.entered
      /\ h.initial_sets = f.initial_sets
      /\ h.pending = f.pending \ {S} /\ h.is_maximal = FALSE
      /\ h.has_unattacked_initialset = (f.has_unattacked_initialset \/ unattacked)
  BY DEF Activation, Descended
<1>2. /\ IsPath(R, t, f.sequence) /\ LoopOK(R, t, f) /\ f.sequence \in Seq(SUBSET Arg)
      /\ X = Reduct(R, Covered(f.sequence)) /\ S \in SUBSET Arg
      /\ f.has_unattacked_initialset \in BOOLEAN
  BY DEF FrameOK, ActivationOK, Activation
<1>3. LoopOK(R, t, h)
  <2>1. t.alg = "complete" =>
          (h.has_unattacked_initialset <=> \E a \in Unattacked(R, X) : {a} \notin h.pending)
    BY <1>1, <1>2 DEF LoopOK
  <2>2. ~(Picks(R, t, X) \subseteq h.pending)
    BY <1>1
  <2>3. QED
    BY <1>1, <1>2, <2>1, <2>2 DEF LoopOK
<1>4. g.sequence = Append(f.sequence, S) /\ ~g.entered /\ g.is_maximal
      /\ ~g.has_unattacked_initialset
  BY DEF NewActivation
<1> HIDE DEF g, h
<1>5. FrameOK(R, t, g)
  BY <1>2, <1>4, PathAppend DEF FrameOK, LoopOK
<1>6. ASSUME NEW q \in Seq(SUBSET Arg), Wanted(R, t, q), Open(f, q), ~Open(h, q)
      PROVE  Open(g, q)
  <2> DEFINE p == f.sequence
             n == Len(p)
  <2>1. Below(p, q) /\ q[n + 1] = S
    BY <1>1, <1>6 DEF Open
  <2>2. /\ g.sequence \in Seq(SUBSET Arg) /\ Len(g.sequence) = n + 1 /\ n \in Nat
        /\ g.sequence[n + 1] = S /\ \A i \in 1 .. n : g.sequence[i] = p[i]
    <3> HIDE DEF p
    <3>1. p \in Seq(SUBSET Arg) /\ g.sequence = Append(p, S)
      BY <1>2, <1>4 DEF p
    <3>2. QED
      BY <1>2, <3>1, AppendFacts
  <2>3. Len(q) \in Nat /\ n < Len(q) /\ \A k \in 1 .. n : q[k] = p[k]
    BY <2>1 DEF Below
  <2> HIDE DEF p, n
  <2>4. \A k \in 1 .. n + 1 : q[k] = g.sequence[k]
    <3>1. \A k \in 1 .. n + 1 : k \in 1 .. n \/ k = n + 1
      BY <2>2
    <3>2. QED
      BY <2>1, <2>2, <2>3, <3>1
  <2>5. CASE Len(q) = n + 1
    <3>1. q = g.sequence
      BY <2>2, <2>4, <2>5, SeqEqual
    <3>2. QED
      BY <3>1 DEF Open
  <2>6. CASE Len(q) # n + 1
    <3>1. Len(g.sequence) < Len(q)
      BY <2>2, <2>3, <2>6
    <3>2. QED
      BY <1>4, <2>2, <2>4, <3>1 DEF Open, Below
  <2>7. QED
    BY <2>5, <2>6
<1>7. QED
  BY <1>1, <1>2, <1>3, <1>5, <1>6 DEF FrameOK, g, h

\* The loop is over: what it has learnt decides whether to print.
LEMMA ReturnFrame ==
  ASSUME NEW R \in Framework, NEW t \in Task, NEW f \in Activation,
         ActivationOK(R, t, f), FrameOK(R, t, f), f.entered, f.pending = {}
  PROVE  /\ \A q : Open(f, q) => q = f.sequence
         /\ t.alg \in {"admissible", "strong_admissible", "unchallenged"} =>
              (~t.flag \/ f.is_maximal <=> IsEnd(R, t, f.sequence))
         /\ t.alg = "complete" => (~f.has_unattacked_initialset <=> IsEnd(R, t, f.sequence))
         /\ t.alg \in {"stable", "argument"} => ~IsEnd(R, t, f.sequence)
<1>1. /\ f.active.array = Reduct(R, Covered(f.sequence)) /\ LoopOK(R, t, f)
      /\ t.flag \in BOOLEAN
  BY DEF FrameOK, ActivationOK, Task
<1>2. f.is_maximal <=> Picks(R, t, f.active.array) = {}
  BY <1>1 DEF LoopOK
<1>3. QED
  BY <1>1, <1>2 DEF LoopOK, IsEnd, Open

-----------------------------------------------------------------------------
(***************************************************************************)
(* The steps of the searches in these terms.                               *)
(***************************************************************************)
ExactInv ==
  /\ af \in Frameworks
  /\ Accounted(af, task, stack, printed)
  /\ exited => stack = <<>>

\* What a step of the running activation may assume.
LEMMA TopAccounted ==
  ASSUME IInv, ExactInv, stack # <<>>
  PROVE  /\ stack \in Seq(Activation) /\ Top = stack[Len(stack)] /\ Top \in Activation
         /\ af \in Framework /\ task \in Task
         /\ ActivationOK(af, task, Top) /\ FrameOK(af, task, Top)
<1>1. Len(stack) \in 1 .. Len(stack)
  BY TopFacts
<1>2. QED
  BY <1>1, TopFacts DEF IInv, TypeOK, ExactInv, Accounted, Top

\* Entering the loop: every wanted sequence stays accounted for.
LEMMA EnterAccounted ==
  ASSUME IInv, ExactInv, stack # <<>>, NeverReattacks(af), ~Top.entered,
         NEW sets \in SUBSET SUBSET Arg, Enter(sets),
         sets = IF task.alg = "strong_admissible" THEN {{a} : a \in Top.active.array}
                ELSE EncodedInitialSets(af, Top.active),
         task.alg \in {"stable", "argument"} => ~IsEnd(af, task, Top.sequence)
  PROVE  Accounted(af, task, stack, printed)'
<1> DEFINE h == Entered(Top, sets)
<1>1. h \in Activation
  BY TopAccounted DEF Activation, Entered
<1>2. /\ FrameOK(af, task, h)
      /\ \A q \in Seq(SUBSET Arg) : Wanted(af, task, q) /\ Open(Top, q) => Open(h, q)
  BY TopAccounted, EnterFrame
<1>3. /\ stack' = [stack EXCEPT ![Len(stack)] = h]
      /\ printed' = printed /\ af' = af /\ task' = task
  BY DEF Enter, Top, Entered
<1> HIDE DEF h
<1>4. Accounted(af, task, [stack EXCEPT ![Len(stack)] = h], printed)
  BY <1>1, <1>2, TopAccounted, AccountedUpdate DEF ExactInv
<1>5. QED
  BY <1>3, <1>4

\* continue: every wanted sequence stays accounted for.
LEMMA SkipAccounted ==
  ASSUME IInv, ExactInv, stack # <<>>, Top.entered, task.alg # "complete",
         NEW S, S \notin Picks(af, task, Top.active.array), Skip(S)
  PROVE  Accounted(af, task, stack, printed)'
<1> DEFINE h == Skipped(Top, S)
<1>1. h \in Activation
  BY TopAccounted DEF Activation, Skipped
<1>2. /\ FrameOK(af, task, h)
      /\ \A q \in Seq(SUBSET Arg) : Wanted(af, task, q) /\ Open(Top, q) => Open(h, q)
  BY TopAccounted, SkipFrame
<1>3. /\ stack' = [stack EXCEPT ![Len(stack)] = h]
      /\ printed' = printed /\ af' = af /\ task' = task
  BY DEF Skip, Top, Skipped
<1> HIDE DEF h
<1>4. Accounted(af, task, [stack EXCEPT ![Len(stack)] = h], printed)
  BY <1>1, <1>2, TopAccounted, AccountedUpdate DEF ExactInv
<1>5. QED
  BY <1>3, <1>4

\* The recursive call: every wanted sequence stays accounted for.
LEMMA DescendAccounted ==
  ASSUME IInv, ExactInv, stack # <<>>, Top.entered, NEW unattacked \in BOOLEAN,
         NEW S \in Top.pending, S \in Picks(af, task, Top.active.array),
         Chosen(af, task, Top, S), Descend(S, unattacked),
         task.alg = "complete" =>
           (unattacked <=> \E a \in Unattacked(af, Top.active.array) : S = {a})
  PROVE  Accounted(af, task, stack, printed)'
<1> DEFINE h == Descended(Top, S, unattacked)
           g == NewActivation(get_reduct(af, Top.active, S), Append(Top.sequence, S))
<1>1. h \in Activation
  BY TopAccounted DEF Activation, Descended
<1>2. g \in Activation
  BY TopAccounted, NewActivationOK
<1>3. /\ FrameOK(af, task, h) /\ FrameOK(af, task, g)
      /\ \A q \in Seq(SUBSET Arg) :
           Wanted(af, task, q) /\ Open(Top, q) => Open(h, q) \/ Open(g, q)
  BY TopAccounted, DescendFrame
<1>4. /\ stack' = Append([stack EXCEPT ![Len(stack)] = h], g)
      /\ printed' = printed /\ af' = af /\ task' = task
  BY DEF Descend, Top, Descended
<1> HIDE DEF g, h
<1>5. Accounted(af, task, Append([stack EXCEPT ![Len(stack)] = h], g), printed)
  BY <1>1, <1>2, <1>3, TopAccounted, AccountedPush DEF ExactInv
<1>6. QED
  BY <1>4, <1>5

\* The return: what was still open in the activation is its own sequence.
LEMMA ReturnAccounted ==
  ASSUME IInv, ExactInv, stack # <<>>, NEW print, Return(print),
         print <=> IsEnd(af, task, Top.sequence),
         \A q \in Seq(SUBSET Arg) : Wanted(af, task, q) /\ Open(Top, q) => q = Top.sequence
  PROVE  Accounted(af, task, stack, printed)'
<1>1. /\ stack' = SubSeq(stack, 1, Len(stack) - 1) /\ af' = af /\ task' = task
      /\ printed' = IF print THEN printed \cup {stack[Len(stack)].sequence} ELSE printed
  BY DEF Return, Top
<1>2. Accounted(af, task, SubSeq(stack, 1, Len(stack) - 1),
                IF print THEN printed \cup {stack[Len(stack)].sequence} ELSE printed)
  BY TopAccounted, AccountedPop DEF ExactInv
<1>3. QED
  BY <1>1, <1>2

\* The tests in the loops recognise the sets to pick.
LEMMA LoopTests ==
  ASSUME IInv, ExactInv, stack # <<>>, Top.entered, NeverReattacks(af), NEW S \in Top.pending
  PROVE  LET X == Top.active.array
         IN  /\ task.alg = "strong_admissible" => (S \in Picks(af, task, X) <=> ~IsAttacked(S))
             /\ task.alg = "unchallenged" => (S \in Picks(af, task, X) <=> ~IsChallenged(S))
             /\ task.alg \notin {"strong_admissible", "unchallenged"} => S \in Picks(af, task, X)
             /\ IsSingleton(S) /\ ~IsAttacked(S) <=> \E a \in Unattacked(af, X) : S = {a}
<1> DEFINE X == Top.active.array
<1>1. /\ Top \in Activation /\ af \in Framework /\ task \in Task
      /\ ActivationOK(af, task, Top) /\ FrameOK(af, task, Top)
  BY TopAccounted
<1>2. /\ X \in SUBSET Arg /\ EncodedInitialSets(af, Top.active) = InitialSets(af, X)
      /\ \A a : active_attackers(af, Top.active, a) = attackers(af, a) \cap X
  BY <1>1, NoPhantoms DEF FrameOK
<1>3. task.alg # "strong_admissible" => S \in InitialSets(af, X) /\ Top.initial_sets = InitialSets(af, X)
  BY <1>1, <1>2 DEF ActivationOK, PendingOK, FrameOK, LoopOK
<1>4. task.alg = "strong_admissible" => \E a \in X : S = {a}
  BY <1>1 DEF ActivationOK, PendingOK
<1>5. S \subseteq X
  BY <1>3, <1>4 DEF InitialSets
<1>6. IsSingleton(S) /\ ~IsAttacked(S) <=> \E a \in Unattacked(af, X) : S = {a}
  BY <1>2, <1>5 DEF IsSingleton, IsAttacked, Unattacked
<1>7. ASSUME task.alg = "strong_admissible"
      PROVE  S \in Picks(af, task, X) <=> ~IsAttacked(S)
  <2>1. IsSingleton(S)
    BY <1>4, <1>7 DEF IsSingleton
  <2>2. QED
    BY <1>6, <1>7, <2>1 DEF Picks, UnattackedSets
<1>8. ASSUME task.alg = "unchallenged"
      PROVE  S \in Picks(af, task, X) <=> ~IsChallenged(S)
  <2>1. \A T \in InitialSets(af, X) : T \subseteq X /\ T \subseteq Arg
    BY <1>2 DEF InitialSets
  <2>2. \A T \in InitialSets(af, X) :
          Attacked(af, T) \cap S # {} <=> \E a \in S : attackers(af, a) \cap X \cap T # {}
    BY <1>2, <1>5, <2>1 DEF Attacked, attackers
  <2>3. IsChallenged(S) <=> \E T \in InitialSets(af, X) : Attacked(af, T) \cap S # {}
    BY <1>2, <1>3, <1>8, <2>2 DEF IsChallenged
  <2>4. QED
    BY <1>3, <1>8, <2>3 DEF Picks, Unchallenged
<1>9. task.alg \notin {"strong_admissible", "unchallenged"} => S \in Picks(af, task, X)
  BY <1>3 DEF Picks
<1>10. QED
  BY <1>6, <1>7, <1>8, <1>9

\* Where AS-AD.cpp turns back: at the query, or where it is out of reach.
LEMMA ArgumentTests ==
  ASSUME IInv, ExactInv, stack # <<>>, task.alg = "argument"
  PROVE  /\ ContainsArgument <=> IsEnd(af, task, Top.sequence)
         /\ ContainsArgument \/ AttacksArgument =>
              \A q \in Seq(SUBSET Arg) : Wanted(af, task, q) => ~Below(Top.sequence, q)
<1> DEFINE p == Top.sequence
           n == Len(p)
<1>1. /\ Top \in Activation /\ af \in Framework /\ task \in Task
      /\ ActivationOK(af, task, Top) /\ FrameOK(af, task, Top)
  BY TopAccounted
<1>2. p \in Seq(SUBSET Arg) /\ IsForward(af, p) /\ n \in Nat
  BY <1>1 DEF Activation, ActivationOK, SequenceOK
<1>3. p # <<>> => n \in 1 .. n /\ LastSet = p[n] /\ ConflictFree(af, LastSet) /\ LastSet \subseteq Covered(p)
  <2>1. p # <<>> => n \in 1 .. n
    BY <1>2, FrontFacts
  <2>2. QED
    BY <1>2, <2>1 DEF LastSet, IsForward, Covered
<1>4. p = <<>> => LastSet = {}
  BY DEF LastSet
<1>5. IsEnd(af, task, p) <=> p # <<>> /\ task.argument \in LastSet
  BY <1>3 DEF IsEnd
<1>6. ContainsArgument <=> IsEnd(af, task, p)
  BY <1>3, <1>4, <1>5 DEF ContainsArgument, ConflictFree
<1>7. ASSUME ContainsArgument \/ AttacksArgument,
             NEW q \in Seq(SUBSET Arg), Wanted(af, task, q), Below(p, q)
      PROVE  FALSE
  <2> DEFINE m == Len(q)
  <2>1. q # <<>> /\ task.argument \in q[m] /\ IsPath(af, task, q)
    BY <1>7 DEF Wanted, IsEnd
  <2>2. m \in Nat /\ m \in 1 .. m /\ n < m /\ \A k \in 1 .. n : q[k] = p[k]
    BY <1>7, <2>1, FrontFacts DEF Below
  <2>3. Covered(p) \subseteq Before(q, m)
    <3>1. \A k \in 1 .. n : k \in 1 .. m - 1
      BY <1>2, <2>2
    <3>2. QED
      BY <2>2, <3>1 DEF Covered, Before
  <2>4. q[m] \subseteq Reduct(af, Before(q, m))
    <3>1. q[m] \in InitialSets(af, Reduct(af, Before(q, m)))
      BY <1>1, <2>1, <2>2, PathIsSerialisation DEF IsSerialisation
    <3>2. QED
      BY <3>1 DEF InitialSets
  <2>5. task.argument \notin Covered(p) /\ task.argument \notin Attacked(af, Covered(p))
    BY <2>1, <2>3, <2>4 DEF Reduct, Attacked
  <2>6. LastSet \subseteq Covered(p)
    BY <1>3, <1>4
  <2>7. QED
    BY <1>7, <2>5, <2>6 DEF ContainsArgument, AttacksArgument, Attacked
<1>8. QED
  BY <1>6, <1>7

\* ES-ST.cpp turns back when no argument is left: there is nothing to pick.
LEMMA StableTests ==
  ASSUME IInv, ExactInv, stack # <<>>, task.alg = "stable"
  PROVE  /\ Top.active.array = {} <=> IsEnd(af, task, Top.sequence)
         /\ Top.active.array = {} =>
              \A q \in Seq(SUBSET Arg) : Wanted(af, task, q) => ~Below(Top.sequence, q)
<1>1. /\ Top \in Activation /\ af \in Framework /\ task \in Task
      /\ ActivationOK(af, task, Top) /\ FrameOK(af, task, Top)
  BY TopAccounted
<1>2. Top.active.array = Reduct(af, Covered(Top.sequence)) /\ Top.sequence \in Seq(SUBSET Arg)
  BY <1>1 DEF ActivationOK, Activation
<1>3. Picks(af, task, {}) = {}
  BY DEF Picks, InitialSets
<1>4. ASSUME Top.active.array = {}, NEW q \in Seq(SUBSET Arg), Wanted(af, task, q),
             Below(Top.sequence, q)
      PROVE  FALSE
  BY <1>1, <1>2, <1>3, <1>4, PathContinues DEF Wanted
<1>5. QED
  BY <1>2, <1>4 DEF IsEnd

\* The sets that the loops range over, in the form that EnterAccounted wants.
LEMMA LoopAccounted ==
  ASSUME IInv, ExactInv, stack # <<>>, NeverReattacks(af), ~Top.entered,
         task.alg # "strong_admissible", Enter(EncodedInitialSets(af, Top.active)),
         task.alg \in {"stable", "argument"} => ~IsEnd(af, task, Top.sequence)
  PROVE  Accounted(af, task, stack, printed)'
  BY LoopSets, EnterAccounted

\* Outside ES-GR.cpp, a visit takes a set that the task may pick.
LEMMA VisitAccounted ==
  ASSUME IInv, ExactInv, stack # <<>>, NeverReattacks(af), Top.entered,
         task.alg # "strong_admissible", NEW S \in Top.pending,
         task.alg = "unchallenged" => ~IsChallenged(S),
         NEW unattacked \in BOOLEAN, Descend(S, unattacked),
         task.alg = "complete" => unattacked = (IsSingleton(S) /\ ~IsAttacked(S))
  PROVE  Accounted(af, task, stack, printed)'
<1>1. Chosen(af, task, Top, S)
  BY DEF Chosen
<1>2. S \in Picks(af, task, Top.active.array)
  BY LoopTests
<1>3. IsSingleton(S) /\ ~IsAttacked(S) <=> \E a \in Unattacked(af, Top.active.array) : S = {a}
  BY LoopTests
<1>4. QED
  BY <1>1, <1>2, <1>3, DescendAccounted

\* The loop is through, and print is what the task prints then.
LEMMA EndAccounted ==
  ASSUME IInv, ExactInv, stack # <<>>, Top.entered, Top.pending = {}, NEW print, Return(print),
         task.alg \in {"admissible", "strong_admissible", "unchallenged"} =>
           (print <=> ~task.flag \/ Top.is_maximal),
         task.alg = "complete" => (print <=> ~Top.has_unattacked_initialset),
         task.alg \in {"stable", "argument"} => ~print
  PROVE  Accounted(af, task, stack, printed)'
<1>1. /\ \A q : Open(Top, q) => q = Top.sequence
      /\ task.alg \in {"admissible", "strong_admissible", "unchallenged"} =>
           (~task.flag \/ Top.is_maximal <=> IsEnd(af, task, Top.sequence))
      /\ task.alg = "complete" => (~Top.has_unattacked_initialset <=> IsEnd(af, task, Top.sequence))
      /\ task.alg \in {"stable", "argument"} => ~IsEnd(af, task, Top.sequence)
  BY TopAccounted, ReturnFrame
<1>2. task.alg \in {"admissible", "strong_admissible", "unchallenged", "complete", "stable", "argument"}
  BY TopAccounted DEF Task, Algs
<1>3. print <=> IsEnd(af, task, Top.sequence)
  BY <1>1, <1>2
<1>4. QED
  BY <1>1, <1>3, ReturnAccounted

(***************************************************************************)
(* Every step of every search keeps account of what is asked for.          *)
(***************************************************************************)
LEMMA AccountedNext ==
  ASSUME \A R \in Frameworks : NeverReattacks(R), IInv, ExactInv, [Next \/ Exited]_vars
  PROVE  Accounted(af, task, stack, printed)'
<1>0. NeverReattacks(af)
  BY DEF ExactInv
<1>1. CASE AdmissibleEnter \/ CompleteEnter \/ UnchallengedEnter
  BY <1>0, <1>1, LoopAccounted DEF AdmissibleEnter, CompleteEnter, UnchallengedEnter, Entering
<1>2. CASE StableEnter
  <2>1. ~IsEnd(af, task, Top.sequence)
    BY <1>2, StableTests DEF StableEnter, Entering
  <2>2. QED
    BY <1>0, <1>2, <2>1, LoopAccounted DEF StableEnter, Entering
<1>3. CASE ArgumentEnter
  <2>1. ~IsEnd(af, task, Top.sequence)
    BY <1>3, ArgumentTests DEF ArgumentEnter, Entering
  <2>2. QED
    BY <1>0, <1>3, <2>1, LoopAccounted DEF ArgumentEnter, Entering
<1>4. CASE StrongEnter
  BY <1>0, <1>4, LoopSets, EnterAccounted DEF StrongEnter, Entering
<1>5. CASE StrongSkip
  <2>1. PICK S \in Top.pending : IsAttacked(S) /\ Skip(S)
    BY <1>5 DEF StrongSkip
  <2>2. S \notin Picks(af, task, Top.active.array)
    BY <1>0, <1>5, <2>1, LoopTests DEF StrongSkip, Looping
  <2>3. QED
    BY <1>5, <2>1, <2>2, SkipAccounted DEF StrongSkip, Looping
<1>6. CASE UnchallengedSkip
  <2>1. PICK S \in Top.pending : IsChallenged(S) /\ Skip(S)
    BY <1>6 DEF UnchallengedSkip
  <2>2. S \notin Picks(af, task, Top.active.array)
    BY <1>0, <1>6, <2>1, LoopTests DEF UnchallengedSkip, Looping
  <2>3. QED
    BY <1>6, <2>1, <2>2, SkipAccounted DEF UnchallengedSkip, Looping
<1>7. CASE StrongVisit
  <2>1. PICK S \in Top.pending : ~IsAttacked(S) /\ Descend(S, FALSE)
    BY <1>7 DEF StrongVisit
  <2>2. S \in Picks(af, task, Top.active.array)
    BY <1>0, <1>7, <2>1, LoopTests DEF StrongVisit, Looping
  <2>3. Chosen(af, task, Top, S)
    BY <2>1 DEF Chosen, IsAttacked
  <2>4. QED
    BY <1>7, <2>1, <2>2, <2>3, DescendAccounted DEF StrongVisit, Looping
<1>8. CASE AdmissibleVisit \/ StableVisit \/ ArgumentVisit
  BY <1>0, <1>8, VisitAccounted DEF AdmissibleVisit, StableVisit, ArgumentVisit, Looping
<1>9. CASE UnchallengedVisit
  BY <1>0, <1>9, VisitAccounted DEF UnchallengedVisit, Looping
<1>10. CASE CompleteVisit
  <2>1. PICK S \in Top.pending : Descend(S, IsSingleton(S) /\ ~IsAttacked(S))
    BY <1>10 DEF CompleteVisit
  <2>2. PICK unattacked \in BOOLEAN : unattacked = (IsSingleton(S) /\ ~IsAttacked(S))
    BY DEF IsSingleton, IsAttacked
  <2>3. Descend(S, unattacked)
    BY <2>1, <2>2
  <2>4. QED
    BY <1>0, <1>10, <2>2, <2>3, VisitAccounted DEF CompleteVisit, Looping
<1>11. CASE AdmissibleReturn \/ StrongReturn \/ UnchallengedReturn
  BY <1>11, EndAccounted DEF AdmissibleReturn, StrongReturn, UnchallengedReturn, Looping
<1>12. CASE CompleteReturn
  BY <1>12, EndAccounted DEF CompleteReturn, Looping
<1>13. CASE StableReturn \/ ArgumentReturn
  BY <1>13, EndAccounted DEF StableReturn, ArgumentReturn, Looping
<1>14. CASE StableFinish
  <2>1. \A q \in Seq(SUBSET Arg) : Wanted(af, task, q) /\ Open(Top, q) => q = Top.sequence
    BY <1>14, StableTests DEF StableFinish, Entering, Open
  <2>2. IsEnd(af, task, Top.sequence)
    BY <1>14, StableTests DEF StableFinish, Entering
  <2>3. QED
    BY <1>14, <2>1, <2>2, ReturnAccounted DEF StableFinish, Entering
<1>15. CASE ArgumentFinish
  <2>1. \A q \in Seq(SUBSET Arg) : Wanted(af, task, q) /\ Open(Top, q) => q = Top.sequence
    BY <1>15, ArgumentTests DEF ArgumentFinish, Entering, Open
  <2>2. ContainsArgument <=> IsEnd(af, task, Top.sequence)
    BY <1>15, ArgumentTests DEF ArgumentFinish, Entering
  <2>3. QED
    BY <1>15, <2>1, <2>2, ReturnAccounted DEF ArgumentFinish, Entering
<1>16. CASE MainReturn \/ Exited \/ UNCHANGED vars
  <2>1. af' = af /\ task' = task /\ stack' = stack /\ printed' = printed
    BY <1>16 DEF MainReturn, Exited, vars
  <2>2. QED
    BY <2>1 DEF ExactInv
<1>17. QED
  BY <1>1, <1>2, <1>3, <1>4, <1>5, <1>6, <1>7, <1>8, <1>9, <1>10, <1>11, <1>12, <1>13,
     <1>14, <1>15, <1>16 DEF Next

\* What a step changes of main's state, and when it prints.
LEMMA StepShape ==
  ASSUME IInv, [Next \/ Exited]_vars
  PROVE  /\ af' = af /\ task' = task
         /\ \/ exited' = exited /\ printed' = printed /\ (stack = <<>> => stack' = stack)
            \/ exited' = exited /\ printed' = printed \cup {Top.sequence} /\ stack # <<>>
            \/ MainReturn
<1>1. CASE MainReturn
  BY <1>1 DEF MainReturn
<1>2. CASE Exited \/ UNCHANGED vars
  BY <1>2 DEF Exited, vars
<1>3. ASSUME NEW print, Return(print), stack # <<>>
      PROVE  /\ af' = af /\ task' = task /\ exited' = exited
             /\ printed' = printed \/ printed' = printed \cup {Top.sequence}
  BY <1>3 DEF Return
<1>4. CASE AdmissibleReturn \/ StrongReturn \/ CompleteReturn \/ StableFinish
           \/ StableReturn \/ UnchallengedReturn \/ ArgumentFinish \/ ArgumentReturn
  <2>1. stack # <<>>
    BY <1>4 DEF AdmissibleReturn, StrongReturn, CompleteReturn, StableFinish, StableReturn,
         UnchallengedReturn, ArgumentFinish, ArgumentReturn, Looping, Entering
  <2>2. PICK print : Return(print)
    BY <1>4 DEF AdmissibleReturn, StrongReturn, CompleteReturn, StableFinish, StableReturn,
         UnchallengedReturn, ArgumentFinish, ArgumentReturn
  <2>3. QED
    BY <1>3, <2>1, <2>2
<1>5. CASE AdmissibleEnter \/ CompleteEnter \/ StableEnter \/ UnchallengedEnter
           \/ ArgumentEnter \/ StrongEnter
  BY <1>5 DEF AdmissibleEnter, CompleteEnter, StableEnter, UnchallengedEnter, ArgumentEnter,
       StrongEnter, Entering, Enter
<1>6. CASE StrongSkip \/ UnchallengedSkip
  BY <1>6 DEF StrongSkip, UnchallengedSkip, Looping, Skip
<1>7. CASE AdmissibleVisit \/ CompleteVisit \/ StableVisit \/ UnchallengedVisit
           \/ ArgumentVisit \/ StrongVisit
  BY <1>7 DEF AdmissibleVisit, CompleteVisit, StableVisit, UnchallengedVisit, ArgumentVisit,
       StrongVisit, Looping, Descend
<1>8. QED
  BY <1>1, <1>2, <1>4, <1>5, <1>6, <1>7 DEF Next

\* The account is kept from the start to the end.
LEMMA ExactInvariance ==
  ASSUME \A R \in Frameworks : NeverReattacks(R)
  PROVE  Spec => []ExactInv
<1>1. Init => ExactInv
  <2> SUFFICES ASSUME Init PROVE ExactInv
    OBVIOUS
  <2> DEFINE f == NewActivation(AllActive, <<>>)
  <2>1. stack = <<f>> /\ printed = {} /\ ~exited /\ af \in Frameworks
    BY DEF Init
  <2>2. f.sequence = <<>> /\ ~f.entered /\ f.is_maximal /\ ~f.has_unattacked_initialset
    BY DEF NewActivation
  <2> HIDE DEF f
  <2>3. Len(stack) = 1 /\ 1 \in 1 .. Len(stack) /\ \A i \in 1 .. Len(stack) : stack[i] = f
    BY <2>1
  <2>4. FrameOK(af, task, f)
    BY <2>2 DEF FrameOK, LoopOK, IsPath
  <2>5. ASSUME NEW q \in Seq(SUBSET Arg)
        PROVE  Open(f, q)
    <3>1. CASE q = <<>>
      BY <2>2, <3>1 DEF Open
    <3>2. CASE q # <<>>
      <4>1. Len(q) \in Nat \ {0}
        BY <3>2, EmptySeq
      <4>2. QED
        BY <2>2, <4>1 DEF Open, Below
    <3>3. QED
      BY <3>1, <3>2
  <2>6. QED
    BY <2>1, <2>3, <2>4, <2>5 DEF ExactInv, Accounted
<1>2. IInv /\ ExactInv /\ [Next \/ Exited]_vars => ExactInv'
  <2> SUFFICES ASSUME IInv, ExactInv, [Next \/ Exited]_vars PROVE ExactInv'
    OBVIOUS
  <2>1. Accounted(af, task, stack, printed)'
    BY AccountedNext
  <2>2. af' \in Frameworks /\ (exited' => stack' = <<>>)
    <3>1. CASE MainReturn
      BY <3>1 DEF ExactInv, MainReturn
    <3>2. CASE exited' = exited /\ (stack = <<>> => stack' = stack)
      BY <3>2, StepShape, Zenon DEF ExactInv
    <3>3. CASE exited' = exited /\ stack # <<>>
      BY <3>3, StepShape, Zenon DEF ExactInv
    <3>4. QED
      BY <3>1, <3>2, <3>3, StepShape
  <2>3. QED
    BY <2>1, <2>2 DEF ExactInv
<1>3. QED
  BY <1>1, <1>2, Invariance, PTL DEF Spec

\* What the task asks for, in terms of the sequences that TLC enumerates.
LEMMA ExpectedAre ==
  ASSUME IInv
  PROVE  ExpectedSequences = {q \in Seq(SUBSET Arg) : Wanted(af, task, q)}
<1>1. af \in Framework /\ task \in Task
  BY DEF IInv, TypeOK
<1>2. QED
  BY <1>1, SerialisationsAre, PathIsSerialisation DEF ExpectedSequences, Wanted

(***************************************************************************)
(* The searches implement the abstract enumeration: on frameworks without  *)
(* re-attacks each of them prints sequences that its task asks for, no     *)
(* sequence twice, and ends only when it has printed all of them.          *)
(***************************************************************************)
THEOREM SearchImplemented ==
  ASSUME \A R \in Frameworks : NeverReattacks(R)
  PROVE  Spec => ImplementsEnumeration
<1>1. Init => Enum!Init
  BY DEF Init, Enum!Init
<1>2. IInv /\ IInv' /\ ExactInv /\ ExactInv' /\ NeverReprinted /\ [Next \/ Exited]_vars
        => [Enum!Next]_(Enum!vars)
  <2> SUFFICES ASSUME IInv, IInv', ExactInv, ExactInv', NeverReprinted, [Next \/ Exited]_vars
               PROVE  [Enum!Next]_(Enum!vars)
    OBVIOUS
  <2>1. af' = af /\ task' = task
    BY StepShape
  <2>2. ExpectedSequences' = ExpectedSequences
    BY <2>1 DEF ExpectedSequences
  <2>3. CASE exited' = exited /\ printed' = printed
    BY <2>2, <2>3 DEF Enum!vars
  <2>4. CASE exited' = exited /\ printed' = printed \cup {Top.sequence} /\ stack # <<>>
    <3>1. Top.sequence \in printed' /\ Top.sequence \in Seq(SUBSET Arg)
      BY <2>4, TopFacts DEF Activation
    <3>2. Wanted(af', task', Top.sequence)
      BY <3>1 DEF ExactInv, Accounted
    <3>3. Top.sequence \in ExpectedSequences
      BY <2>1, <3>1, <3>2, ExpectedAre
    <3>4. Top.sequence \notin printed
      <4>1. Len(stack) \in 1 .. Len(stack)
        BY <2>4, TopFacts
      <4>2. QED
        BY <4>1 DEF NeverReprinted, Top
    <3>5. ~exited
      BY <2>4 DEF ExactInv, IInv, TypeOK
    <3>6. QED
      BY <2>2, <2>4, <3>3, <3>4, <3>5 DEF Enum!Next, Enum!Deliver
  <2>5. CASE MainReturn
    <3>1. stack = <<>> /\ ~exited /\ exited' = TRUE /\ printed' = printed
      BY <2>5 DEF MainReturn
    <3>2. \A q \in Seq(SUBSET Arg) : Wanted(af, task, q) => q \in printed
      BY <3>1 DEF ExactInv, Accounted
    <3>3. \A q \in printed : q \in Seq(SUBSET Arg) /\ Wanted(af, task, q)
      BY DEF ExactInv, Accounted, IInv, TypeOK
    <3>4. printed = ExpectedSequences
      BY <3>2, <3>3, ExpectedAre
    <3>5. QED
      BY <2>2, <3>1, <3>4 DEF Enum!Next, Enum!Complete
  <2>6. QED
    BY <2>3, <2>4, <2>5, StepShape
<1>3. QED
  BY <1>1, <1>2, Invariance, ExactInvariance, PrintedOnce, PTL
     DEF Spec, ImplementsEnumeration, Enum!Spec

-----------------------------------------------------------------------------
(***************************************************************************)
(* What a task asks for, sequence by sequence, covers the extensions of    *)
(* its semantics.                                                          *)
(***************************************************************************)
LEMMA WantedCover ==
  ASSUME IInv
  PROVE  {Covered(q) : q \in {p \in Seq(SUBSET Arg) : Wanted(af, task, p)}} = ExpectedExtensions
<1> DEFINE R == af
           All == {p \in Seq(SUBSET Arg) : IsSerialisation(R, p)}
           Asked == {p \in Seq(SUBSET Arg) : Wanted(R, task, p)}
<1>1. R \in Framework /\ task \in Task /\ task.alg \in Algs /\ task.flag \in BOOLEAN
  BY DEF IInv, TypeOK, Task
<1> HIDE DEF R
<1>2. {Covered(q) : q \in All} = AdmissibleSets(R)
  BY <1>1, AdmissibleBySequences
<1>3. \A q \in All : Covered(q) \in AdmissibleSets(R)
  BY <1>2
<1>4. ASSUME task.alg \in {"admissible", "complete", "stable"}
      PROVE  Asked = {q \in All : IsEnd(R, task, q)}
  BY <1>4 DEF Wanted, IsPath, IsSerialisation, Picks
<1>5. CASE task.alg = "admissible" /\ ~task.flag
  <2>1. Asked = All
    BY <1>4, <1>5 DEF IsEnd
  <2>2. QED
    BY <1>2, <1>5, <2>1 DEF ExpectedExtensions, R
<1>6. CASE task.alg = "admissible" /\ task.flag
  <2>1. \A q \in All : IsEnd(R, task, q) <=> Covered(q) \in PreferredSets(R)
    BY <1>1, <1>3, <1>6, PreferredReduct DEF IsEnd, Picks
  <2>2. PreferredSets(R) \subseteq AdmissibleSets(R)
    BY DEF PreferredSets
  <2>3. {Covered(q) : q \in Asked} = PreferredSets(R)
    <3> HIDE DEF All, Asked
    <3>1. QED
      BY <1>2, <1>4, <1>6, <2>1, <2>2
  <2>4. QED
    BY <1>6, <2>3 DEF ExpectedExtensions, R
<1>7. CASE task.alg = "complete"
  <2>1. \A q \in All : IsEnd(R, task, q) <=> Covered(q) \in CompleteSets(R)
    BY <1>1, <1>3, <1>7, CompleteReduct DEF IsEnd, CompleteSets, AdmissibleSets
  <2>2. CompleteSets(R) \subseteq AdmissibleSets(R)
    BY DEF CompleteSets
  <2>3. {Covered(q) : q \in Asked} = CompleteSets(R)
    <3> HIDE DEF All, Asked
    <3>1. QED
      BY <1>2, <1>4, <1>7, <2>1, <2>2
  <2>4. QED
    BY <1>7, <2>3 DEF ExpectedExtensions, R
<1>8. CASE task.alg = "stable"
  <2>1. ASSUME NEW q \in All
        PROVE  IsEnd(R, task, q) <=> Covered(q) \in StableSets(R)
    <3>1. Covered(q) \subseteq Arg /\ Attacked(R, Covered(q)) \subseteq Arg
      BY <1>3 DEF AdmissibleSets, Attacked
    <3>2. QED
      BY <1>3, <1>8, <3>1 DEF IsEnd, StableSets, Reduct
  <2>2. StableSets(R) \subseteq AdmissibleSets(R)
    BY DEF StableSets
  <2>3. {Covered(q) : q \in Asked} = StableSets(R)
    <3> HIDE DEF All, Asked
    <3>1. QED
      BY <1>2, <1>4, <1>8, <2>1, <2>2
  <2>4. QED
    BY <1>8, <2>3 DEF ExpectedExtensions, R
<1>9. CASE task.alg = "strong_admissible" /\ ~task.flag
  <2>1. \A q \in Seq(SUBSET Arg) : Wanted(R, task, q) <=> IsStrong(R, q)
    BY <1>9 DEF Wanted, IsPath, IsStrong, Picks, IsEnd
  <2>2. {Covered(q) : q \in Asked} = {S \in SUBSET Arg : StrongIn(R, S)}
    <3>1. \A q \in Seq(SUBSET Arg) : Covered(q) \in SUBSET Arg
      BY CoveredFacts
    <3>2. QED
      BY <2>1, <3>1 DEF StrongIn
  <2>3. QED
    BY <1>1, <1>9, <2>2, StronglyAdmissibleAre DEF ExpectedExtensions, R
<1>10. CASE task.alg = "strong_admissible" /\ task.flag
  <2>1. \A q \in Seq(SUBSET Arg) : Wanted(R, task, q) <=>
          IsStrong(R, q) /\ UnattackedSets(R, Reduct(R, Covered(q))) = {}
    BY <1>10 DEF Wanted, IsPath, IsStrong, Picks, IsEnd
  <2>2. Asked = {q \in Seq(SUBSET Arg) :
                   IsStrong(R, q) /\ UnattackedSets(R, Reduct(R, Covered(q))) = {}}
    BY <2>1
  <2>3. {Covered(q) : q \in Asked} = GroundedSets(R)
    BY <1>1, <2>2, GroundedBySequences
  <2>4. QED
    BY <1>10, <2>3 DEF ExpectedExtensions, R
<1>11. CASE task.alg \in {"unchallenged", "argument"}
  BY <1>11, ExpectedAre DEF ExpectedExtensions, R
<1>12. QED
  BY <1>1, <1>5, <1>6, <1>7, <1>8, <1>9, <1>10, <1>11 DEF Algs

(***************************************************************************)
(* The headline: when the program is done, the unions of what it has       *)
(* printed are exactly the admissible, preferred, strongly admissible,     *)
(* grounded, complete or stable sets in the classical sense, on frameworks *)
(* of any size without re-attacks.                                         *)
(***************************************************************************)
THEOREM ExtensionsCorrect ==
  ASSUME \A R \in Frameworks : NeverReattacks(R)
  PROVE  Spec => []ExtensionsExact
<1>1. IInv /\ ExactInv => ExtensionsExact
  <2> SUFFICES ASSUME IInv, ExactInv, exited PROVE {Covered(q) : q \in printed} = ExpectedExtensions
    BY DEF ExtensionsExact
  <2>1. stack = <<>>
    BY DEF ExactInv
  <2>2. \A q \in Seq(SUBSET Arg) : Wanted(af, task, q) => q \in printed
    BY <2>1 DEF ExactInv, Accounted
  <2>3. \A q \in printed : q \in Seq(SUBSET Arg) /\ Wanted(af, task, q)
    BY DEF ExactInv, Accounted, IInv, TypeOK
  <2>4. printed = {q \in Seq(SUBSET Arg) : Wanted(af, task, q)}
    BY <2>2, <2>3
  <2>5. QED
    BY <2>4, WantedCover
<1>2. QED
  BY <1>1, Invariance, ExactInvariance, PTL
=============================================================================
