---------------------------- MODULE WeakenProofs ----------------------------
(***************************************************************************)
(* Covered clause elimination and the elimination of globally blocked      *)
(* clauses keep to the contract of the extension stack, for every formula  *)
(* and every choice of the frozen variables.  What they push is stranger   *)
(* than a blocked clause with its literal: clauses that never were part of *)
(* the formula, and witnesses that need not occur in the clause.           *)
(***************************************************************************)
EXTENDS Cover, FiniteSetTheorems, SequenceTheorems, TLAPS

CONSTANT MaxPushed

VARIABLES reasons, assignment, initial, watched, candidates, unassigned, conditional, next

\* Globally blocked clauses, over the same clauses, units and stack.
Cond == INSTANCE Condition

-----------------------------------------------------------------------------
(* Literals and assignments.                                               *)

\* Literals come in pairs that are different.
LEMMA LitFacts ==
  ASSUME Vars \subseteq Nat \ {0}, NEW lit \in Lits
  PROVE  /\ lit \in Int /\ -lit \in Lits /\ -(-lit) = lit /\ -lit # lit
         /\ Var(lit) \in Vars /\ Var(-lit) = Var(lit)
BY DEF Lits, Var

\* A total assignment has exactly one of a literal and its negation.
LEMMA TotalFacts ==
  ASSUME Vars \subseteq Nat \ {0}, NEW sigma \in Total, NEW lit \in Lits
  PROVE  lit \in sigma <=> -lit \notin sigma
<1>1. PICK P \in SUBSET Vars : sigma = {IF v \in P THEN v ELSE -v : v \in Vars}
  BY DEF Total
<1>2. \A v \in Vars : v \in Int /\ v > 0
  OBVIOUS
<1>3. \A v \in Vars : (v \in sigma <=> v \in P) /\ (-v \in sigma <=> v \notin P)
  <2>1. TAKE v \in Vars
  <2>2. ASSUME NEW u \in Vars PROVE (u = v <=> -u = -v) /\ u # -v /\ -u # v
    BY <1>2
  <2>3. v \in sigma <=> \E u \in Vars : v = IF u \in P THEN u ELSE -u
    BY <1>1
  <2>4. -v \in sigma <=> \E u \in Vars : -v = IF u \in P THEN u ELSE -u
    BY <1>1
  <2>5. QED
    BY <2>2, <2>3, <2>4
<1>4. CASE lit \in Vars
  BY <1>3, <1>4
<1>5. CASE lit \notin Vars
  <2>1. PICK v \in Vars : lit = -v
    BY <1>5 DEF Lits
  <2>2. -lit = v
    BY <1>2, <2>1
  <2>3. QED
    BY <1>3, <2>1, <2>2
<1>6. QED
  BY <1>4, <1>5

\* No clause has both.
LEMMA ClauseFacts ==
  ASSUME NEW C \in ProperClauses
  PROVE  C \subseteq Lits /\ \A lit \in C : -lit \notin C
BY DEF ProperClauses, Tautological

\* The two parts of a stack entry.
LEMMA EntryFields ==
  ASSUME NEW W, NEW C
  PROVE  StackEntry(W, C).witness = W /\ StackEntry(W, C).clause = C
BY DEF StackEntry

Entries == [witness : SUBSET Lits, clause : SUBSET Lits]

\* A step that leaves the stack alone and drops only clauses that a unit satisfies.
LEMMA SatisfiedDropped ==
  ASSUME NEW F, NEW G \in SUBSET F, NEW U, NEW e \in Seq(Entries), NEW fr,
         \A C \in F \ G : C \cap U # {}
  PROVE  Weakens(F \cup Units(U), e, G \cup Units(U), e, fr)
<1> DEFINE new == {i \in DOMAIN e : i > Len(e)}
           later(i) == (G \cup Units(U)) \cup {e[j].clause : j \in {k \in new : k >= i}}
<1>1. new = {}
  <2>1. DOMAIN e = 1..Len(e) /\ Len(e) \in Nat
    OBVIOUS
  <2>2. QED
    BY <2>1
<1>2. ASSUME NEW C \in (F \cup Units(U)) \ (G \cup Units(U)) PROVE Implies(later(Len(e) + 1), C)
  <2>1. PICK u \in U : u \in C
    BY <1>2
  <2>2. {u} \in later(Len(e) + 1)
    BY DEF Units
  <2>3. ASSUME NEW sigma \in Models(later(Len(e) + 1)) PROVE C \cap sigma # {}
    <3>1. {u} \cap sigma # {}
      BY <2>2, <2>3 DEF Models, Satisfies
    <3>2. QED
      BY <2>1, <3>1
  <2>4. QED
    BY <2>3 DEF Implies
<1>3. QED
  BY <1>1, <1>2 DEF Weakens

-----------------------------------------------------------------------------
(* Globally blocked clauses.                                               *)

\* The clauses, literals and assignments of the two modules are the same.
LEMMA SameClauses ==
  /\ Cond!Lits = Lits /\ Cond!Total = Total /\ Cond!ProperClauses = ProperClauses
  /\ \A lit : Cond!Var(lit) = Var(lit)
  /\ \A C : Cond!Neg(C) = Neg(C)
  /\ \A L : Cond!Consistent(L) <=> Consistent(L)
  /\ \A L : Cond!Units(L) = Units(L)
  /\ \A F, e, G, e1, fr : Cond!Weakens(F, e, G, e1, fr) <=> Weakens(F, e, G, e1, fr)
  /\ \A W, C : Cond!StackEntry(W, C) = StackEntry(W, C)
<1>1. Cond!Lits = Lits /\ \A lit : Cond!Var(lit) = Var(lit)
  BY DEF Cond!Lits, Lits, Cond!Var, Var
<1>2. Cond!Total = Total
  BY DEF Cond!Total, Total
<1>3. /\ \A C : Cond!Neg(C) = Neg(C)
      /\ \A L : Cond!Units(L) = Units(L)
      /\ \A W, C : Cond!StackEntry(W, C) = StackEntry(W, C)
  BY DEF Cond!Neg, Neg, Cond!Units, Units, Cond!StackEntry, StackEntry
<1>4. \A L : Cond!Tautological(L) <=> Tautological(L)
  BY DEF Cond!Tautological, Tautological
<1>5. /\ Cond!ProperClauses = ProperClauses
      /\ \A L : Cond!Consistent(L) <=> Consistent(L)
  BY <1>1, <1>4 DEF Cond!ProperClauses, ProperClauses, Cond!Consistent, Consistent
<1>6. \A sigma, F : Cond!Satisfies(sigma, F) <=> Satisfies(sigma, F)
  BY DEF Cond!Satisfies, Satisfies
<1>7. \A F : Cond!Models(F) = Models(F)
  BY <1>2, <1>6 DEF Cond!Models, Models
<1>8. \A F, C : Cond!Implies(F, C) <=> Implies(F, C)
  BY <1>7 DEF Cond!Implies, Implies
<1>9. \A sigma, W : Cond!MadeTrue(sigma, W) = MadeTrue(sigma, W)
  BY <1>3 DEF Cond!MadeTrue, MadeTrue
<1>10. \A e, sigma : Cond!ExtendEntry(e, sigma) = ExtendEntry(e, sigma)
  BY <1>9 DEF Cond!ExtendEntry, ExtendEntry
<1>11. \A C, W, F : Cond!RedundantWith(C, W, F) <=> RedundantWith(C, W, F)
  BY <1>3, <1>6, <1>7, <1>10 DEF Cond!RedundantWith, RedundantWith
<1>12. \A F, e, G, e1, fr : Cond!Weakens(F, e, G, e1, fr) <=> Weakens(F, e, G, e1, fr)
  <2>1. TAKE F, e, G, e1, fr
  <2> DEFINE new == {i \in DOMAIN e1 : i > Len(e)}
             later(i) == G \cup {e1[j].clause : j \in {k \in new : k >= i}}
  <2>2. Cond!Weakens(F, e, G, e1, fr) <=>
          /\ \A i \in new : /\ Cond!RedundantWith(e1[i].clause, e1[i].witness, later(i))
                            /\ \A lit \in e1[i].witness : Cond!Var(lit) \notin fr
          /\ \A C \in F \ G : Cond!Implies(later(Len(e) + 1), C)
    BY DEF Cond!Weakens
  <2>3. Weakens(F, e, G, e1, fr) <=>
          /\ \A i \in new : /\ RedundantWith(e1[i].clause, e1[i].witness, later(i))
                            /\ \A lit \in e1[i].witness : Var(lit) \notin fr
          /\ \A C \in F \ G : Implies(later(Len(e) + 1), C)
    BY DEF Weakens
  <2> HIDE DEF new, later
  <2>4. QED
    BY <1>1, <1>8, <1>11, <2>2, <2>3
<1>13. QED
  BY <1>1, <1>2, <1>3, <1>5, <1>12

\* The literals that are flipped.
Flipped == assignment \ (conditional \cup unassigned)

\* The assignment splits into three parts, none of them frozen or assigned at the root.
SplitOK ==
  /\ irr \subseteq ProperClauses /\ candidates \subseteq ProperClauses /\ units \subseteq Lits
  /\ extension \in Seq(Entries)
  /\ assignment \subseteq Lits
  /\ \A lit \in assignment : /\ -lit \notin assignment /\ Var(lit) \notin Frozen
                             /\ Var(lit) \notin units /\ -Var(lit) \notin units
  /\ conditional \subseteq assignment /\ unassigned \subseteq assignment
  /\ conditional \cap unassigned = {} /\ next \subseteq conditional
  /\ pc \in {"search", "round", "refine"}
  /\ pc = "search" => assignment = {}
  /\ pc # "refine" => conditional = {} /\ unassigned = {} /\ next = {}

\* The occurrence lists have every clause that can lose its true literals, and the initial
\* conditional literals are those of the clauses that never had one.
RoundOK ==
  pc # "search" =>
    /\ initial \subseteq assignment
    /\ \A D \in irr : D \cap assignment = {} => \A a \in assignment : -a \in D => a \in initial
    /\ \A D \in irr : \A a \in assignment : D \cap assignment # {} /\ -a \in D => D \in watched

\* What is left of the assignment satisfies the clauses that the autarky touches, at every
\* moment of the refinement; conditional literals that have been looked at are negated in
\* the candidate.
RefineOK ==
  pc = "refine" =>
    /\ c \in SUBSET Lits
    /\ \A lit \in conditional \ next : -lit \in c
    /\ \A D \in irr : \A a \in Flipped : -a \in D => D \cap (assignment \ unassigned) # {}

CondInv == SplitOK /\ RoundOK /\ RefineOK

\* An assignment of the search has no frozen and no root-level literal.
LEMMA AssignmentFacts ==
  ASSUME Cond!FormulasAssumption, NEW alpha \in Cond!Assignments
  PROVE  /\ alpha \subseteq Lits
         /\ \A lit \in alpha : /\ -lit \notin alpha /\ Var(lit) \notin Frozen
                               /\ Var(lit) \notin units /\ -Var(lit) \notin units
<1> DEFINE A == Cond!Active \ Frozen
<1>1. PICK P \in SUBSET A : alpha = {IF v \in P THEN v ELSE -v : v \in A}
  BY DEF Cond!Assignments
<1>2. A \subseteq Vars /\ \A v \in A : v \notin Frozen /\ v \notin units /\ -v \notin units
  BY DEF Cond!Active
<1> HIDE DEF A
<1>3. \A v \in A : v \in Int /\ v > 0
  <2>1. \A v \in Vars : v \in Int /\ v > 0
    BY DEF Cond!FormulasAssumption
  <2>2. QED
    BY <1>2, <2>1
<1>4. ASSUME NEW lit \in alpha
      PROVE  lit \in Lits /\ -lit \notin alpha /\ Var(lit) \in A
  <2>1. PICK v \in A : lit = IF v \in P THEN v ELSE -v
    BY <1>1
  <2>2. lit \in Lits /\ Var(lit) = v
    BY <1>2, <1>3, <2>1 DEF Lits, Var
  <2>3. ASSUME -lit \in alpha PROVE FALSE
    <3>1. PICK u \in A : -lit = IF u \in P THEN u ELSE -u
      BY <1>1, <2>3
    <3>2. u = v
      BY <1>3, <2>1, <3>1
    <3>3. QED
      BY <1>3, <2>1, <3>1, <3>2
  <2>4. QED
    BY <2>2, <2>3
<1>5. QED
  BY <1>2, <1>4

\* Flipping an autarky under its condition: a model of the other clauses that falsifies the
\* candidate satisfies the condition, so nothing that the flip touches becomes false.
LEMMA AutarkyRedundant ==
  ASSUME Vars \subseteq Nat \ {0}, NEW F, NEW U \in SUBSET Lits, NEW C \in SUBSET Lits,
         NEW A \in SUBSET Lits, NEW K \in SUBSET Lits,
         \A lit \in A : -lit \notin A \cup K /\ -lit \notin U, C \cap A # {},
         \A lit \in K : -lit \in C,
         \A D \in F : \A a \in A : -a \in D => D \cap (A \cup K) # {}
  PROVE  RedundantWith(C, A, (F \cup Units(U)) \cup {C})
<1> DEFINE G == (F \cup Units(U)) \cup {C}
           e == StackEntry(A, C)
<1>1. SUFFICES ASSUME NEW sigma \in Models(G \ {C}), NEW D \in G
               PROVE  D \cap ExtendEntry(e, sigma) # {}
  BY DEF RedundantWith, Satisfies
<1>2. sigma \in Total /\ \A E \in G \ {C} : E \cap sigma # {}
  BY DEF Models, Satisfies
<1>3. e.clause = C /\ e.witness = A
  BY EntryFields
<1>4. CASE C \cap sigma # {}
  <2>1. ExtendEntry(e, sigma) = sigma
    BY <1>3, <1>4 DEF ExtendEntry
  <2>2. QED
    BY <1>2, <1>4, <2>1
<1>5. CASE C \cap sigma = {}
  <2> DEFINE tau == (sigma \ Neg(A)) \cup A
  <2>1. ExtendEntry(e, sigma) = tau
    BY <1>3, <1>5 DEF ExtendEntry, MadeTrue
  <2>2. \A lit \in K : lit \in tau
    <3>1. TAKE lit \in K
    <3>2. -lit \in C /\ -lit \notin sigma /\ lit \in Lits
      BY <1>5
    <3>3. lit \in sigma
      BY <1>2, <3>2, TotalFacts
    <3>4. ASSUME lit \in Neg(A) PROVE FALSE
      <4>1. PICK a \in A : lit = -a
        BY <3>4 DEF Neg
      <4>2. QED
        BY <4>1
    <3>5. QED
      BY <3>3, <3>4
  <2>3. CASE D = C
    BY <2>1, <2>3
  <2>4. CASE D # C /\ D \cap Neg(A) = {}
    BY <1>2, <2>1, <2>4
  <2>5. CASE D # C /\ D \cap Neg(A) # {}
    <3>1. PICK a \in A : -a \in D
      BY <2>5 DEF Neg
    <3>2. CASE D \in F
      <4>1. D \cap (A \cup K) # {}
        BY <3>1, <3>2
      <4>2. QED
        BY <2>1, <2>2, <4>1
    <3>3. CASE D \in Units(U)
      BY <3>1, <3>3 DEF Units
    <3>4. QED
      BY <2>5, <3>2, <3>3
  <2>6. QED
    BY <2>3, <2>4, <2>5
<1>6. QED
  BY <1>4, <1>5

\* A clause that is pushed and removed.
LEMMA OnePushed ==
  ASSUME NEW F, NEW U, NEW C \in SUBSET Lits, NEW W \in SUBSET Lits, NEW e \in Seq(Entries), NEW fr,
         \A lit \in W : Var(lit) \notin fr,
         RedundantWith(C, W, ((F \ {C}) \cup Units(U)) \cup {C})
  PROVE  Weakens(F \cup Units(U), e, (F \ {C}) \cup Units(U), Append(e, StackEntry(W, C)), fr)
<1> DEFINE e1 == Append(e, StackEntry(W, C))
           G == (F \ {C}) \cup Units(U)
           new == {i \in DOMAIN e1 : i > Len(e)}
           later(i) == G \cup {e1[j].clause : j \in {k \in new : k >= i}}
<1>1. StackEntry(W, C) \in Entries
  BY DEF StackEntry, Entries
<1>2. DOMAIN e1 = 1..(Len(e) + 1) /\ e1[Len(e) + 1] = StackEntry(W, C) /\ Len(e) \in Nat
  BY <1>1, AppendProperties, LenProperties
<1>3. new = {Len(e) + 1}
  BY <1>2
<1>4. e1[Len(e) + 1].clause = C /\ e1[Len(e) + 1].witness = W
  BY <1>2, EntryFields
<1> HIDE DEF e1
<1>5. later(Len(e) + 1) = G \cup {C}
  <2>1. {k \in new : k >= Len(e) + 1} = {Len(e) + 1}
    BY <1>2, <1>3
  <2>2. {e1[j].clause : j \in {Len(e) + 1}} = {C}
    BY <1>4
  <2>3. QED
    BY <2>1, <2>2
<1>6. ASSUME NEW D \in (F \cup Units(U)) \ G PROVE Implies(later(Len(e) + 1), D)
  <2>1. D = C
    BY <1>6
  <2>2. QED
    BY <1>5, <2>1 DEF Implies, Models, Satisfies
<1> HIDE DEF G, new, later
<1>7. /\ \A i \in new : /\ RedundantWith(e1[i].clause, e1[i].witness, later(i))
                        /\ \A lit \in e1[i].witness : Var(lit) \notin fr
      /\ \A D \in (F \cup Units(U)) \ G : Implies(later(Len(e) + 1), D)
  BY <1>3, <1>4, <1>5, <1>6 DEF G
<1>8. QED
  BY <1>7 DEF Weakens, G, new, later, e1

\* Initially nothing is assigned.
LEMMA CondInitially ==
  ASSUME Cond!FormulasAssumption, Cond!Init
  PROVE  CondInv
<1>1. PICK F \in Formulas : units = {lit \in Cond!Lits : {lit} \in F} /\ irr \subseteq F
  BY DEF Cond!Init
<1>2. irr \subseteq ProperClauses /\ units \subseteq Lits
  BY <1>1, SameClauses DEF Cond!FormulasAssumption
<1>3. SplitOK
  <2>1. extension \in Seq(Entries)
    BY DEF Cond!Init
  <2>2. QED
    BY <1>2, <2>1 DEF SplitOK, Cond!Init
<1>4. QED
  BY <1>3 DEF CondInv, RoundOK, RefineOK, Cond!Init

\* The start of a round.
LEMMA CondStart ==
  ASSUME Cond!FormulasAssumption, CondInv, NEW alpha \in Cond!Assignments, NEW r, Cond!Start(alpha, r)
  PROVE  CondInv' /\ Cond!WeakenContract
<1> DEFINE live == {C \in irr : C \cap units = {}}
<1>1. /\ pc = "search" /\ pc' = "round" /\ irr' = live /\ assignment' = alpha
      /\ initial' = Cond!Conditionals(live, alpha)
      /\ candidates' = {C \in live : C \cap alpha # {}}
      /\ watched' = {C \in candidates' : Neg(C) \cap alpha # {}}
      /\ UNCHANGED <<units, extension, c, unassigned, conditional, next>>
  BY SameClauses DEF Cond!Start
<1>2. /\ alpha \subseteq Lits
      /\ \A lit \in alpha : /\ -lit \notin alpha /\ Var(lit) \notin Frozen
                            /\ Var(lit) \notin units /\ -Var(lit) \notin units
  BY AssignmentFacts
<1>3. SplitOK'
  BY <1>1, <1>2 DEF CondInv, SplitOK
<1>4. RoundOK'
  <2>1. initial' = {lit \in alpha : \E C \in live : C \cap alpha = {} /\ -lit \in C}
    BY <1>1 DEF Cond!Conditionals
  <2>2. ASSUME NEW D \in live, NEW a \in alpha, D \cap alpha # {}, -a \in D PROVE D \in watched'
    <3>1. -(-a) = a
      BY <1>2, LitFacts DEF Cond!FormulasAssumption
    <3>2. a \in Neg(D)
      BY <2>2, <3>1 DEF Neg
    <3>3. QED
      BY <1>1, <2>2, <3>2
  <2>3. QED
    BY <1>1, <2>1, <2>2 DEF RoundOK
<1>5. RefineOK'
  BY <1>1 DEF RefineOK
<1>6. Weakens(irr \cup Units(units), extension, live \cup Units(units), extension, Frozen)
  BY SatisfiedDropped DEF CondInv, SplitOK
<1>7. Cond!WeakenContract
  BY <1>1, <1>6, SameClauses DEF Cond!WeakenContract
<1>8. QED
  BY <1>3, <1>4, <1>5, <1>7 DEF CondInv

\* A step that leaves the clauses and the stack alone.
LEMMA NothingWeakened ==
  ASSUME extension \in Seq(Entries), UNCHANGED <<irr, units, extension>>
  PROVE  Cond!WeakenContract /\ WeakenContract
<1>1. Weakens(irr \cup Units(units), extension, irr \cup Units(units), extension, Frozen)
  BY SatisfiedDropped
<1>2. QED
  BY <1>1, SameClauses DEF Cond!WeakenContract, WeakenContract

\* A candidate is taken up: all clauses that the assignment touches have a true literal,
\* unless its negations are conditional from the start.
LEMMA CondTry ==
  ASSUME CondInv, NEW C \in candidates, Cond!Try(C)
  PROVE  CondInv'
<1>1. CASE C \in reasons \/ C \cap (assignment \ initial) = {}
  <2>1. UNCHANGED <<pc, c, conditional, next, irr, units, extension, reasons, assignment, initial,
                    watched, unassigned>>
    BY <1>1 DEF Cond!Try
  <2>2. candidates' \subseteq candidates
    BY DEF Cond!Try
  <2>3. QED
    BY <2>1, <2>2 DEF CondInv, SplitOK, RoundOK, RefineOK, Flipped
<1>2. CASE ~(C \in reasons \/ C \cap (assignment \ initial) = {})
  <2>1. /\ pc = "round" /\ pc' = "refine" /\ c' = C /\ conditional' = initial /\ next' = initial
        /\ candidates' = candidates \ {C}
        /\ UNCHANGED <<irr, units, extension, reasons, assignment, initial, watched, unassigned>>
    BY <1>2 DEF Cond!Try
  <2>2. unassigned = {} /\ initial \subseteq assignment /\ C \in SUBSET Lits
    BY <2>1, ClauseFacts DEF CondInv, SplitOK, RoundOK
  <2>3. SplitOK'
    BY <2>1, <2>2 DEF CondInv, SplitOK
  <2>4. RoundOK'
    BY <2>1 DEF CondInv, RoundOK
  <2>5. ASSUME NEW D \in irr, NEW a \in assignment \ initial, -a \in D PROVE D \cap assignment # {}
    BY <2>1, <2>5 DEF CondInv, RoundOK
  <2>6. RefineOK'
    BY <2>1, <2>2, <2>5 DEF RefineOK, Flipped
  <2>7. QED
    BY <2>3, <2>4, <2>6 DEF CondInv
<1>3. QED
  BY <1>1, <1>2

\* A conditional literal is unassigned: a clause that loses its last true literal by it is
\* watched, and what it has falsified leaves the autarky.
LEMMA CondRefine ==
  ASSUME CondInv, NEW lit \in next, Cond!Refine(lit)
  PROVE  CondInv'
<1>1. /\ pc = "refine" /\ lit \in conditional /\ lit \in assignment
      /\ UNCHANGED <<irr, units, extension, reasons, assignment, initial, watched, candidates, pc, c>>
  BY DEF Cond!Refine, CondInv, SplitOK
<1>2. CASE -lit \in c
  <2>1. next' = next \ {lit} /\ UNCHANGED <<unassigned, conditional>>
    BY <1>2 DEF Cond!Refine
  <2>2. SplitOK' /\ RoundOK'
    BY <1>1, <2>1 DEF CondInv, SplitOK, RoundOK
  <2>3. RefineOK'
    BY <1>1, <1>2, <2>1 DEF CondInv, RefineOK, Flipped
  <2>4. QED
    BY <2>2, <2>3 DEF CondInv
<1>3. CASE -lit \notin c
  <2> DEFINE U == unassigned \cup {lit}
             new == {a \in Flipped : \E D \in Cond!Exposed(U) : -a \in D}
  <2>1. unassigned' = U /\ conditional' = (conditional \ {lit}) \cup new /\ next' = (next \ {lit}) \cup new
    BY <1>3 DEF Cond!Refine, Cond!Autarky, Flipped
  <2>2. Cond!Exposed(U) = {D \in watched : D \cap assignment \subseteq U}
    BY DEF Cond!Exposed
  <2>3. new \subseteq Flipped
    OBVIOUS
  <2>4. \A a \in Flipped : (\E D \in Cond!Exposed(U) : -a \in D) => a \in new
    OBVIOUS
  <2> HIDE DEF new
  <2>5. /\ conditional' \subseteq assignment /\ U \subseteq assignment
        /\ conditional' \cap U = {} /\ next' \subseteq conditional'
    BY <1>1, <2>1, <2>3 DEF CondInv, SplitOK, Flipped
  <2>6. SplitOK' /\ RoundOK'
    BY <1>1, <2>1, <2>5 DEF CondInv, SplitOK, RoundOK
  <2>7. Flipped' \subseteq Flipped /\ Flipped' \cap new = {}
    BY <1>1, <2>1 DEF Flipped
  <2>8. ASSUME NEW D \in irr, NEW a \in Flipped', -a \in D, D \cap (assignment \ U) = {} PROVE FALSE
    <3>1. D \cap (assignment \ unassigned) # {}
      BY <1>1, <2>7, <2>8 DEF CondInv, RefineOK
    <3>2. D \cap assignment # {} /\ D \cap assignment \subseteq U /\ a \in assignment
      BY <2>7, <2>8, <3>1 DEF Flipped
    <3>3. D \in watched
      BY <1>1, <2>8, <3>2 DEF CondInv, RoundOK
    <3>4. a \in new
      BY <2>2, <2>4, <2>7, <2>8, <3>2, <3>3
    <3>5. QED
      BY <2>7, <3>4
  <2>9. \A l \in conditional' \ next' : -l \in c
    BY <1>1, <2>1 DEF CondInv, RefineOK
  <2>10. RefineOK'
    BY <1>1, <2>1, <2>8, <2>9 DEF CondInv, RefineOK
  <2>11. QED
    BY <2>6, <2>10 DEF CondInv
<1>4. QED
  BY <1>2, <1>3

\* The fix-point.
LEMMA CondFixPoint ==
  ASSUME CondInv, pc = "refine", next = {}
  PROVE  /\ \A lit \in conditional : -lit \in c
         /\ \A D \in irr : \A a \in Flipped : -a \in D => D \cap (Flipped \cup conditional) # {}
<1>1. assignment \ unassigned = Flipped \cup conditional
  BY DEF CondInv, SplitOK, Flipped
<1>2. QED
  BY <1>1 DEF CondInv, RefineOK

\* The candidate goes on the stack with the autarky as its witness.
LEMMA CondEliminate ==
  ASSUME Cond!FormulasAssumption, CondInv, Cond!Eliminate
  PROVE  CondInv' /\ Cond!WeakenContract
<1>1. /\ pc = "refine" /\ next = {} /\ c \cap Flipped # {}
      /\ extension' = Append(extension, StackEntry(Flipped, c)) /\ irr' = irr \ {c}
      /\ pc' = "round" /\ c' = {} /\ unassigned' = {} /\ conditional' = {}
      /\ UNCHANGED <<units, reasons, assignment, initial, watched, candidates, next>>
  BY SameClauses DEF Cond!Eliminate, Cond!Witness, Cond!Autarky, Flipped
<1>2. c \in SUBSET Lits /\ Flipped \in SUBSET Lits /\ conditional \in SUBSET Lits /\ units \in SUBSET Lits
  BY <1>1 DEF CondInv, SplitOK, RefineOK, Flipped
<1>3. Vars \subseteq Nat \ {0}
  BY DEF Cond!FormulasAssumption
<1>4. ASSUME NEW lit \in Flipped
      PROVE  -lit \notin Flipped \cup conditional /\ -lit \notin units /\ Var(lit) \notin Frozen
  <2>1. /\ lit \in assignment /\ -lit \notin assignment /\ Var(lit) \notin Frozen /\ lit \in Lits
        /\ Var(lit) \notin units /\ -Var(lit) \notin units
    BY DEF CondInv, SplitOK, Flipped
  <2>2. -lit = Var(lit) \/ -lit = -Var(lit)
    BY <1>3, <2>1, LitFacts DEF Var
  <2>3. QED
    BY <2>1, <2>2 DEF CondInv, SplitOK, Flipped
<1>5. RedundantWith(c, Flipped, ((irr \ {c}) \cup Units(units)) \cup {c})
  <2>1. /\ \A lit \in conditional : -lit \in c
        /\ \A D \in irr \ {c} : \A a \in Flipped : -a \in D => D \cap (Flipped \cup conditional) # {}
    BY <1>1, CondFixPoint
  <2>2. QED
    BY <1>1, <1>2, <1>3, <1>4, <2>1, AutarkyRedundant
<1>6. extension \in Seq(Entries)
  BY DEF CondInv, SplitOK
<1>7. Weakens(irr \cup Units(units), extension, (irr \ {c}) \cup Units(units),
              Append(extension, StackEntry(Flipped, c)), Frozen)
  BY <1>2, <1>4, <1>5, <1>6, OnePushed
<1>8. Cond!WeakenContract
  BY <1>1, <1>7, SameClauses DEF Cond!WeakenContract
<1>9. StackEntry(Flipped, c) \in Entries
  BY <1>2 DEF StackEntry, Entries
<1>10. extension' \in Seq(Entries)
  BY <1>1, <1>6, <1>9, AppendProperties
<1>11. SplitOK' /\ RoundOK' /\ RefineOK'
  BY <1>1, <1>10 DEF CondInv, SplitOK, RoundOK, RefineOK
<1>12. QED
  BY <1>8, <1>11 DEF CondInv

\* Every step keeps the invariant and the contract.
LEMMA CondStep ==
  ASSUME Cond!FormulasAssumption, CondInv, [Cond!Next]_(Cond!vars)
  PROVE  CondInv' /\ [Cond!WeakenContract]_(Cond!vars)
<1>1. extension \in Seq(Entries)
  BY DEF CondInv, SplitOK
<1>2. ASSUME NEW alpha \in Cond!Assignments, NEW r, Cond!Start(alpha, r)
      PROVE  CondInv' /\ Cond!WeakenContract
  BY <1>2, CondStart
<1>3. ASSUME NEW C \in candidates, Cond!Try(C) PROVE CondInv' /\ Cond!WeakenContract
  <2>1. UNCHANGED <<irr, units, extension>>
    BY <1>3 DEF Cond!Try
  <2>2. QED
    BY <1>1, <1>3, <2>1, CondTry, NothingWeakened
<1>4. ASSUME NEW lit \in next, Cond!Refine(lit) PROVE CondInv' /\ Cond!WeakenContract
  <2>1. UNCHANGED <<irr, units, extension>>
    BY <1>4 DEF Cond!Refine
  <2>2. QED
    BY <1>1, <1>4, <2>1, CondRefine, NothingWeakened
<1>5. CASE Cond!Eliminate
  BY <1>5, CondEliminate
<1>6. CASE Cond!GiveUp
  <2>1. CondInv'
    BY <1>6 DEF Cond!GiveUp, CondInv, SplitOK, RoundOK, RefineOK
  <2>2. UNCHANGED <<irr, units, extension>>
    BY <1>6 DEF Cond!GiveUp
  <2>3. QED
    BY <1>1, <2>1, <2>2, NothingWeakened
<1>7. CASE Cond!Finish
  <2>1. CondInv'
    BY <1>7 DEF Cond!Finish, CondInv, SplitOK, RoundOK, RefineOK
  <2>2. UNCHANGED <<irr, units, extension>>
    BY <1>7 DEF Cond!Finish
  <2>3. QED
    BY <1>1, <2>1, <2>2, NothingWeakened
<1>8. CASE UNCHANGED Cond!vars
  BY <1>8 DEF Cond!vars, CondInv, SplitOK, RoundOK, RefineOK, Flipped
<1>9. QED
  BY <1>2, <1>3, <1>4, <1>5, <1>6, <1>7, <1>8 DEF Cond!Next

\* Conditioning (condition.cpp): every clause it removes is redundant with the autarky as its
\* witness in what is left and what is pushed after it, and no witness is frozen.
THEOREM ConditionContract ==
  ASSUME Cond!FormulasAssumption
  PROVE  Cond!Spec => [][Cond!WeakenContract]_(Cond!vars)
<1>1. Cond!Init => CondInv
  BY CondInitially
<1>2. CondInv /\ [Cond!Next]_(Cond!vars) => CondInv' /\ [Cond!WeakenContract]_(Cond!vars)
  BY CondStep
<1>3. QED
  BY <1>1, <1>2, PTL DEF Cond!Spec

\* The refinement loop of condition_round: its fix-point is a conditional autarky whose
\* condition the candidate has negated.
THEOREM ConditionFixPoint ==
  ASSUME Cond!FormulasAssumption
  PROVE  Cond!Spec => []Cond!ConditionalAutarky
<1>1. Cond!Init => CondInv
  BY CondInitially
<1>2. CondInv /\ [Cond!Next]_(Cond!vars) => CondInv'
  BY CondStep
<1>3. CondInv => Cond!ConditionalAutarky
  <2>1. SUFFICES ASSUME CondInv, pc = "refine", next = {}
                 PROVE  /\ Neg(conditional) \subseteq c
                        /\ \A D \in irr : D \cap Neg(Flipped) # {} => D \cap (Flipped \cup conditional) # {}
    BY SameClauses DEF Cond!ConditionalAutarky, Cond!Autarky, Flipped
  <2>2. QED
    BY <2>1, CondFixPoint DEF Neg
<1>4. QED
  BY <1>1, <1>2, <1>3, PTL DEF Cond!Spec

-----------------------------------------------------------------------------
(* Covered clauses.                                                        *)

\* The other clauses and the units.
Others == (irr \ {c}) \cup Units(units)

\* The covered literals at the time of the next push.
Following(i) == IF i < Len(extend) THEN extend[i + 1].clause ELSE covered

\* An entry that has been collected: what will be pushed contains its literal, which is not
\* frozen, and is no clause of the formula.
EntryOK(i) ==
  \E lit \in Lits :
    /\ extend[i].witness = {lit} /\ lit \in extend[i].clause /\ Var(lit) \notin Frozen
    /\ extend[i].clause \subseteq covered
    /\ extend[i].clause \notin Others /\ extend[i].clause \cup c \notin Others

\* Its literal repairs a model of the other clauses that falsifies it but has one of the
\* literals added next.
Repairs(i) ==
  \A sigma \in Models(Others) :
    sigma \cap extend[i].clause = {} /\ sigma \cap Following(i) # {} =>
      Satisfies(MadeTrue(sigma, extend[i].witness), Others)

Working == pc \in {"cover", "tautological"}

\* Types, and clauses that a unit satisfies are gone as long as a round lasts.
FormulaOK ==
  /\ TypeOK
  /\ units \subseteq Lits /\ extension \in Seq(Entries)
  /\ pc # "idle" => \A C \in irr : C \cap units = {}

\* The extended clause is false where its covered part is.
ClauseOK ==
  Working =>
    /\ c \in irr /\ c \notin schedule /\ c \ Neg(units) \subseteq covered
    /\ next_covered \subseteq covered
    /\ \A sigma \in Models(Others) : sigma \cap covered = {} => sigma \cap added = {}

\* The entries collected so far grow from the clause itself; while the search goes on, and
\* for all but the last entry after it, something new was added after each.
ExtendOK ==
  Working =>
    /\ extend \in Seq(Entries)
    /\ \A i \in 1..Len(extend) : EntryOK(i) /\ Repairs(i)
    /\ \A i, j \in 1..Len(extend) : i <= j => extend[i].clause \subseteq extend[j].clause
    /\ Following(0) = c \ Neg(units)
    /\ \A i \in 1..Len(extend) :
         i < Len(extend) \/ pc = "cover" => ~(Following(i) \subseteq extend[i].clause \cup c)

\* At the end the last entry repairs every model that falsifies it.
LastOK ==
  pc = "tautological" /\ extend # <<>> =>
    \A sigma \in Models(Others) :
      sigma \cap extend[Len(extend)].clause = {} =>
        Satisfies(MadeTrue(sigma, extend[Len(extend)].witness), Others)

CoverInv == FormulaOK /\ ClauseOK /\ ExtendOK /\ LastOK

\* What is true and what is false while a clause is tried.
LEMMA FalseFacts ==
  ASSUME FormulasAssumption, FormulaOK
  PROVE  /\ added \subseteq Lits /\ covered \subseteq Lits
         /\ \A lit \in Lits : lit \in False <=> lit \in added \/ -lit \in units
         /\ \A lit \in Lits : lit \in True <=> -lit \in added \/ lit \in units
         /\ \A lit \in added : lit \notin units /\ -lit \notin units /\ -lit \notin added
<1>1. Vars \subseteq Nat \ {0}
  BY DEF FormulasAssumption
<1>2. added \subseteq Lits /\ units \subseteq Lits /\ added \in ProperClauses /\ covered \subseteq added
  BY ClauseFacts DEF FormulaOK, TypeOK
<1>3. \A lit \in Lits : -lit \in Lits /\ -(-lit) = lit
  BY <1>1, LitFacts
<1>4. ASSUME NEW L \in SUBSET Lits, NEW lit \in Lits PROVE lit \in Neg(L) <=> -lit \in L
  BY <1>3 DEF Neg
<1>5. \A lit \in Lits : lit \in False <=> lit \in added \/ -lit \in units
  BY <1>2, <1>4 DEF False
<1>6. False \in SUBSET Lits
  BY <1>2, <1>3 DEF False, Neg
<1>7. ASSUME NEW lit \in Lits PROVE lit \in True <=> -lit \in added \/ lit \in units
  <2>1. lit \in True <=> -lit \in False
    BY <1>4, <1>6 DEF True
  <2>2. -lit \in False <=> -lit \in added \/ -(-lit) \in units
    BY <1>3, <1>5
  <2>3. QED
    BY <1>3, <2>1, <2>2
<1>8. ASSUME NEW lit \in added PROVE lit \notin units /\ -lit \notin units /\ -lit \notin added
  <2>1. lit \notin units /\ lit \notin Neg(units) /\ -lit \notin added
    BY <1>2, ClauseFacts DEF FormulaOK, TypeOK
  <2>2. QED
    BY <1>2, <1>4, <2>1
<1>9. QED
  BY <1>2, <1>5, <1>7, <1>8

\* The clause being tried is false, and no literal of it is true.
LEMMA TriedFalse ==
  ASSUME FormulasAssumption, FormulaOK, ClauseOK, Working
  PROVE  c \subseteq Lits /\ \A lit \in c : lit \in False /\ lit \notin True
<1>1. c \in irr /\ c \in ProperClauses /\ c \subseteq Lits /\ c \ Neg(units) \subseteq added /\ c \cap units = {}
  BY ClauseFacts DEF FormulaOK, TypeOK, ClauseOK, Working
<1>2. Vars \subseteq Nat \ {0} /\ units \subseteq Lits
  BY DEF FormulasAssumption, FormulaOK
<1>3. ASSUME NEW lit \in c PROVE lit \in False /\ lit \notin True
  <2>1. lit \in Lits /\ -lit \in Lits /\ -(-lit) = lit
    BY <1>1, <1>2, LitFacts
  <2>2. lit \in added \/ -lit \in units
    <3>1. CASE lit \in Neg(units)
      <4>1. PICK u \in units : lit = -u
        BY <3>1 DEF Neg
      <4>2. -lit = u
        BY <1>2, <4>1, LitFacts
      <4>3. QED
        BY <4>2
    <3>2. CASE lit \notin Neg(units)
      BY <1>1, <3>2
    <3>3. QED
      BY <3>1, <3>2
  <2>3. ASSUME -lit \in added PROVE FALSE
    BY <2>1, <2>2, <2>3, FalseFacts
  <2>4. lit \notin units
    BY <1>1
  <2>5. QED
    BY <2>1, <2>2, <2>3, <2>4, FalseFacts
<1>4. QED
  BY <1>1, <1>3

\* A model of the other clauses that has none of the added literals.
LEMMA ModelFacts ==
  ASSUME FormulasAssumption, FormulaOK, NEW sigma \in Models(Others), sigma \cap added = {}
  PROVE  /\ sigma \in Total /\ units \subseteq sigma
         /\ \A D \in irr \ {c} : D \cap sigma # {}
         /\ \A lit \in Lits : lit \in False => lit \notin sigma
         /\ \A lit \in Lits : lit \in True => lit \in sigma
<1>1. sigma \in Total /\ \A D \in Others : D \cap sigma # {}
  BY DEF Models, Satisfies
<1>2. Vars \subseteq Nat \ {0} /\ units \subseteq Lits
  BY DEF FormulasAssumption, FormulaOK
<1>3. ASSUME NEW u \in units PROVE u \in sigma
  <2>1. {u} \in Others
    BY DEF Others, Units
  <2>2. {u} \cap sigma # {}
    BY <1>1, <2>1
  <2>3. QED
    BY <2>2
<1>4. ASSUME NEW lit \in Lits, lit \in False PROVE lit \notin sigma
  <2>1. lit \in added \/ -lit \in units
    BY <1>4, FalseFacts
  <2>2. QED
    BY <1>1, <1>2, <1>3, <2>1, TotalFacts
<1>5. ASSUME NEW lit \in Lits, lit \in True PROVE lit \in sigma
  <2>1. -lit \in added \/ lit \in units
    BY <1>5, FalseFacts
  <2>2. QED
    BY <1>1, <1>2, <1>3, <2>1, TotalFacts
<1>6. QED
  BY <1>1, <1>3, <1>4, <1>5 DEF Others

\* A step that leaves the clauses, the covered literals and the entries alone.
LEMMA SameEntries ==
  ASSUME UNCHANGED <<irr, units, c, covered, extend>>
  PROVE  /\ Others' = Others
         /\ \A i : Following(i)' = Following(i)
         /\ \A i : EntryOK(i) => EntryOK(i)'
         /\ \A i : Repairs(i) => Repairs(i)'
<1>1. Others' = Others
  BY DEF Others
<1>2. \A i : Following(i)' = Following(i)
  BY DEF Following
<1>3. \A i : EntryOK(i) => EntryOK(i)'
  BY <1>1 DEF EntryOK
<1>4. \A i : Repairs(i) => Repairs(i)'
  BY <1>1, <1>2 DEF Repairs
<1>5. QED
  BY <1>1, <1>2, <1>3, <1>4

-----------------------------------------------------------------------------
(* The steps of a round.                                                   *)

LEMMA CoverInitially ==
  ASSUME FormulasAssumption, Init
  PROVE  CoverInv
<1>1. PICK F \in Formulas : units = {lit \in Lits : {lit} \in F} /\ irr \subseteq F
  BY DEF Init
<1>2. irr \subseteq ProperClauses /\ units \subseteq Lits
  BY <1>1 DEF FormulasAssumption
<1>3. extension \in Seq(Entries)
  BY DEF Init
<1>4. {} \in ProperClauses
  BY DEF ProperClauses, Tautological
<1>5. FormulaOK
  BY <1>2, <1>3, <1>4 DEF Init, FormulaOK, TypeOK
<1>6. ClauseOK /\ ExtendOK /\ LastOK
  BY DEF Init, ClauseOK, ExtendOK, LastOK, Working
<1>7. QED
  BY <1>5, <1>6 DEF CoverInv

LEMMA CoverSchedule ==
  ASSUME CoverInv, Schedule
  PROVE  CoverInv' /\ WeakenContract
<1> DEFINE live == {C \in irr : C \cap units = {}}
<1>1. irr' = live /\ pc' = "round" /\ UNCHANGED <<units, extension, c, added, covered, extend, next_covered>>
  BY DEF Schedule
<1>2. schedule' \subseteq irr'
  BY DEF Schedule
<1>3. FormulaOK'
  BY <1>1, <1>2 DEF CoverInv, FormulaOK, TypeOK
<1>4. ClauseOK' /\ ExtendOK' /\ LastOK'
  BY <1>1 DEF ClauseOK, ExtendOK, LastOK, Working
<1>5. Weakens(irr \cup Units(units), extension, live \cup Units(units), extension, Frozen)
  BY SatisfiedDropped DEF CoverInv, FormulaOK
<1>6. WeakenContract
  BY <1>1, <1>5 DEF WeakenContract
<1>7. QED
  BY <1>3, <1>4, <1>6 DEF CoverInv

LEMMA CoverTry ==
  ASSUME FormulasAssumption, CoverInv, NEW C \in irr, Try(C)
  PROVE  CoverInv'
<1> DEFINE L == C \ Neg(units)
<1>1. /\ pc = "round" /\ pc' = "cover" /\ c' = C /\ schedule' = schedule \ {C}
      /\ added' = L /\ covered' = L /\ next_covered' = L /\ extend' = <<>>
      /\ UNCHANGED <<irr, units, extension, rounds>>
  BY DEF Try
<1>2. C \in ProperClauses /\ C \cap units = {}
  BY <1>1 DEF CoverInv, FormulaOK, TypeOK
<1>3. L \in ProperClauses /\ L \cap (units \cup Neg(units)) = {}
  BY <1>2 DEF ProperClauses, Tautological
<1>4. FormulaOK'
  BY <1>1, <1>3 DEF CoverInv, FormulaOK, TypeOK
<1>5. ClauseOK'
  BY <1>1 DEF ClauseOK
<1>6. ExtendOK'
  <2>1. Len(extend') = 0 /\ extend' \in Seq(Entries)
    BY <1>1
  <2>2. Following(0)' = L
    BY <1>1, <2>1 DEF Following
  <2>3. QED
    BY <1>1, <2>1, <2>2 DEF ExtendOK
<1>7. LastOK'
  BY <1>1 DEF LastOK
<1>8. QED
  BY <1>4, <1>5, <1>6, <1>7 DEF CoverInv

\* Asymmetric literals: a model that falsifies all but one literal of a clause has that
\* literal; one that falsifies the whole clause does not exist.
LEMMA CoverAsymmetric ==
  ASSUME FormulasAssumption, CoverInv, NEW D \in irr, Asymmetric(D)
  PROVE  CoverInv'
<1>1. /\ pc = "cover" /\ D \in Triggered
      /\ UNCHANGED <<irr, units, extension, tried, schedule, c, covered, extend, rounds>>
  BY DEF Asymmetric
<1>2. D \in irr \ {c} /\ D \cap True = {} /\ Cardinality(D \ False) <= 1
  BY <1>1 DEF Triggered
<1>3. D \in ProperClauses /\ D \subseteq Lits /\ Working
  BY <1>1, <1>2, ClauseFacts DEF CoverInv, FormulaOK, TypeOK, Working
<1>4. FormulaOK /\ ClauseOK /\ ExtendOK
  BY DEF CoverInv
<1>5. /\ Others' = Others
      /\ \A i : Following(i)' = Following(i)
      /\ \A i : EntryOK(i) => EntryOK(i)'
      /\ \A i : Repairs(i) => Repairs(i)'
  BY <1>1, SameEntries
<1>6. CASE D \subseteq False
  <2>1. pc' = "tautological" /\ UNCHANGED <<added, next_covered>>
    BY <1>6 DEF Asymmetric
  <2>2. FormulaOK'
    BY <1>1, <1>4, <2>1 DEF FormulaOK, TypeOK
  <2>3. ClauseOK'
    BY <1>1, <1>3, <1>4, <1>5, <2>1 DEF ClauseOK
  <2>4. ExtendOK'
    BY <1>1, <1>3, <1>4, <1>5, <2>1 DEF ExtendOK
  <2>5. ASSUME NEW sigma \in Models(Others) PROVE sigma \cap covered # {}
    <3>1. SUFFICES ASSUME sigma \cap covered = {} PROVE FALSE
      OBVIOUS
    <3>2. sigma \cap added = {}
      BY <1>3, <1>4, <3>1 DEF ClauseOK
    <3>3. D \cap sigma # {} /\ \A lit \in Lits : lit \in False => lit \notin sigma
      BY <1>2, <1>4, <3>2, ModelFacts
    <3>4. QED
      BY <1>3, <1>6, <3>3
  <2>6. LastOK'
    <3>1. SUFFICES ASSUME extend # <<>>, NEW sigma \in Models(Others),
                          sigma \cap extend[Len(extend)].clause = {}
                   PROVE  Satisfies(MadeTrue(sigma, extend[Len(extend)].witness), Others)
      BY <1>1, <1>5 DEF LastOK
    <3>2. Len(extend) \in 1..Len(extend)
      BY <1>3, <1>4, <3>1 DEF ExtendOK
    <3>3. Repairs(Len(extend)) /\ Following(Len(extend)) = covered
      BY <1>3, <1>4, <3>2 DEF ExtendOK, Following
    <3>4. QED
      BY <2>5, <3>1, <3>3 DEF Repairs
  <2>7. QED
    BY <2>2, <2>3, <2>4, <2>6 DEF CoverInv
<1>7. CASE ~(D \subseteq False)
  <2>1. added' = added \cup Neg(D \ False) /\ next_covered' = covered /\ pc' = pc
    BY <1>7 DEF Asymmetric
  <2>2. PICK lit : D \ False = {lit}
    <3>1. D \ False \in SUBSET Lits /\ IsFiniteSet(Lits)
      <4>1. IsFiniteSet(Vars)
        BY DEF FormulasAssumption
      <4> DEFINE f == [v \in Vars |-> -v]
      <4>2. f \in Surjection(Vars, {-v : v \in Vars})
        BY DEF Surjection
      <4>3. IsFiniteSet({-v : v \in Vars})
        BY <4>1, <4>2, FS_Surjection
      <4>4. QED
        BY <1>3, <4>1, <4>3, FS_Union DEF Lits
    <3>2. IsFiniteSet(D \ False) /\ Cardinality(D \ False) \in Nat
      BY <3>1, FS_Subset, FS_CardinalityType
    <3>3. Cardinality(D \ False) # 0
      BY <1>7, <3>2, FS_EmptySet
    <3>4. Cardinality(D \ False) = 1
      BY <1>2, <3>2, <3>3
    <3>5. QED
      BY <3>2, <3>4, FS_Singleton
  <2>3. Vars \subseteq Nat \ {0} /\ units \subseteq Lits
    BY <1>4 DEF FormulasAssumption, FormulaOK
  <2>4. /\ lit \in Lits /\ -lit \in Lits /\ -(-lit) = lit /\ -lit # lit
        /\ lit \in D /\ lit \notin False /\ lit \notin True
    BY <1>2, <1>3, <2>2, <2>3, LitFacts
  <2>5. Neg(D \ False) = {-lit}
    BY <2>2 DEF Neg
  <2>6. lit \notin added /\ -lit \notin added /\ lit \notin units /\ -lit \notin units
    BY <1>4, <2>4, FalseFacts
  <2>7. FormulaOK'
    <3>1. added \cup {-lit} \in ProperClauses
      <4>1. added \in ProperClauses
        BY <1>4 DEF FormulaOK, TypeOK
      <4>2. ASSUME NEW l \in added \cup {-lit}, -l \in added \cup {-lit} PROVE FALSE
        <5>1. CASE l \in added /\ -l \in added
          BY <4>1, <5>1, ClauseFacts
        <5>2. CASE l \in added /\ -l = -lit
          <6>1. l \in Lits
            BY <4>1, <5>2, ClauseFacts
          <6>2. l = lit
            BY <2>3, <2>4, <5>2, <6>1, LitFacts
          <6>3. QED
            BY <2>6, <5>2, <6>2
        <5>3. CASE l = -lit
          BY <2>4, <2>6, <4>2, <5>3
        <5>4. QED
          BY <4>2, <5>1, <5>2, <5>3
      <4>3. QED
        BY <2>4, <4>1, <4>2 DEF ProperClauses, Tautological
    <3>2. -lit \notin Neg(units)
      <4>1. SUFFICES ASSUME NEW u \in units, -lit = -u PROVE FALSE
        BY DEF Neg
      <4>2. u = lit
        BY <2>3, <2>4, <4>1, LitFacts
      <4>3. QED
        BY <2>6, <4>2
    <3>3. QED
      BY <1>1, <1>4, <2>1, <2>5, <2>6, <3>1, <3>2 DEF FormulaOK, TypeOK
  <2>8. ClauseOK'
    <3>1. ASSUME NEW sigma \in Models(Others), sigma \cap covered = {} PROVE sigma \cap added' = {}
      <4>1. sigma \cap added = {}
        BY <1>3, <1>4, <3>1 DEF ClauseOK
      <4>2. /\ D \cap sigma # {} /\ sigma \in Total
            /\ \A l \in Lits : l \in False => l \notin sigma
        BY <1>2, <1>4, <4>1, ModelFacts
      <4>3. lit \in sigma
        BY <1>3, <2>2, <4>2
      <4>4. -lit \notin sigma
        BY <2>3, <2>4, <4>2, <4>3, TotalFacts
      <4>5. QED
        BY <2>1, <2>5, <4>1, <4>4
    <3>2. QED
      BY <1>1, <1>3, <1>4, <1>5, <2>1, <3>1 DEF ClauseOK
  <2>9. ExtendOK'
    BY <1>1, <1>3, <1>4, <1>5, <2>1 DEF ExtendOK
  <2>10. LastOK'
    BY <1>1, <2>1 DEF LastOK
  <2>11. QED
    BY <2>7, <2>8, <2>9, <2>10 DEF CoverInv
<1>8. QED
  BY <1>6, <1>7

\* What is pushed when nothing is left to propagate is no clause of the formula.
LEMMA PushedNew ==
  ASSUME FormulasAssumption, CoverInv, pc = "cover", Triggered = {}, NEW lit \in covered
  PROVE  covered \notin Others /\ covered \cup c \notin Others
<1>1. FormulaOK /\ ClauseOK /\ Working
  BY DEF CoverInv, Working
<1>2. ASSUME NEW E \in {covered, covered \cup c}, E \in irr \ {c} PROVE FALSE
  <2>1. /\ covered \subseteq added /\ c \subseteq Lits
        /\ \A l \in c : l \in False /\ l \notin True
    BY <1>1, TriedFalse DEF FormulaOK, TypeOK
  <2>2. ASSUME NEW l \in covered PROVE l \in False /\ l \notin True
    BY <1>1, <2>1, FalseFacts
  <2>3. E \subseteq False /\ E \cap True = {}
    BY <1>2, <2>1, <2>2
  <2>4. Cardinality(E \ False) = 0
    <3>1. E \ False = {}
      BY <2>3
    <3>2. QED
      BY <3>1, FS_EmptySet
  <2>5. E \in Triggered
    BY <1>2, <2>3, <2>4 DEF Triggered
  <2>6. QED
    BY <2>5
<1>3. ASSUME NEW E \in {covered, covered \cup c}, E \in Units(units) PROVE FALSE
  <2>1. lit \in units
    BY <1>3 DEF Units
  <2>2. QED
    BY <1>1, <2>1, FalseFacts DEF FormulaOK, TypeOK
<1>4. QED
  BY <1>2, <1>3 DEF Others

\* A literal of the extended clause repairs a model that falsifies it, if the clauses to be
\* resolved with have another true literal.
LEMMA LiteralRepairs ==
  ASSUME FormulasAssumption, CoverInv, pc = "cover", NEW lit \in covered, Var(lit) \notin Frozen,
         NEW sigma \in Models(Others), sigma \cap covered = {},
         \A D \in Candidates(lit) : D \cap (sigma \ {-lit}) # {}
  PROVE  Satisfies(MadeTrue(sigma, {lit}), Others)
<1>1. FormulaOK /\ ClauseOK /\ Working
  BY DEF CoverInv, Working
<1>2. sigma \cap added = {} /\ lit \in added /\ lit \in Lits
  BY <1>1, FalseFacts DEF ClauseOK, FormulaOK, TypeOK
<1>3. /\ sigma \in Total /\ units \subseteq sigma
      /\ \A D \in irr \ {c} : D \cap sigma # {}
      /\ \A l \in Lits : l \in True => l \in sigma
  BY <1>1, <1>2, ModelFacts
<1>4. MadeTrue(sigma, {lit}) = (sigma \ {-lit}) \cup {lit}
  BY DEF MadeTrue, Neg
<1>5. SUFFICES ASSUME NEW D \in Others PROVE D \cap (sigma \ {-lit}) # {}
  BY <1>4 DEF Satisfies
<1>6. CASE D \in Units(units)
  <2>1. PICK u \in units : D = {u}
    BY <1>6 DEF Units
  <2>2. u # -lit
    BY <1>1, <1>2, FalseFacts
  <2>3. QED
    BY <1>3, <2>1, <2>2
<1>7. CASE D \in irr \ {c}
  <2>1. D \subseteq Lits
    BY <1>1, <1>7, ClauseFacts DEF FormulaOK, TypeOK
  <2>2. CASE -lit \notin D
    BY <1>3, <1>7, <2>2
  <2>3. CASE -lit \in D /\ (D \ {-lit}) \cap True # {}
    BY <1>3, <2>1, <2>3
  <2>4. CASE -lit \in D /\ (D \ {-lit}) \cap True = {}
    <3>1. Var(-lit) = Var(lit)
      BY <1>2, LitFacts DEF FormulasAssumption
    <3>2. ~AllFrozen(D)
      BY <2>4, <3>1 DEF AllFrozen
    <3>3. D \in Candidates(lit)
      BY <1>7, <2>4, <3>2 DEF Candidates
    <3>4. QED
      BY <3>3
  <2>5. QED
    BY <2>2, <2>3, <2>4
<1>8. QED
  BY <1>6, <1>7 DEF Others

\* An entry is collected.
LEMMA EntryPushed ==
  ASSUME FormulasAssumption, CoverInv, pc = "cover", Triggered = {}, NEW lit \in covered,
         Var(lit) \notin Frozen, UNCHANGED <<irr, units, c>>, extend' = Pushed(lit),
         covered \subseteq covered',
         \A sigma \in Models(Others) : sigma \cap covered = {} /\ sigma \cap covered' # {} =>
           Satisfies(MadeTrue(sigma, {lit}), Others),
         pc' = "tautological" \/ ~(covered' \subseteq covered \cup c)
  PROVE  ExtendOK' /\ extend' # <<>> /\ extend'[Len(extend')] = StackEntry({lit}, covered)
<1> DEFINE e == StackEntry({lit}, covered)
<1>1. FormulaOK /\ ClauseOK /\ ExtendOK /\ Working
  BY DEF CoverInv, Working
<1>2. PICK n \in Nat : extend \in Seq(Entries) /\ n = Len(extend)
  BY <1>1 DEF ExtendOK
<1>3. lit \in Lits /\ covered \subseteq Lits
  BY <1>1, FalseFacts
<1>4. e \in Entries /\ e.witness = {lit} /\ e.clause = covered
  BY <1>3, EntryFields DEF StackEntry, Entries
<1>5. /\ extend' \in Seq(Entries) /\ Len(extend') = n + 1 /\ extend'[n + 1] = e
      /\ \A i \in 1..n : extend'[i] = extend[i]
  BY <1>2, <1>4, AppendProperties DEF Pushed
<1> HIDE DEF e
<1>6. Others' = Others
  BY DEF Others
<1>7. \A i \in 1..n : Following(i)' = Following(i)
  <2>1. TAKE i \in 1..n
  <2>2. CASE i < n
    <3>1. i + 1 \in 1..n /\ i < n + 1
      BY <1>2, <2>2
    <3>2. QED
      BY <1>2, <1>5, <2>2, <3>1 DEF Following
  <2>3. CASE i = n
    <3>1. i < n + 1 /\ ~(i < n)
      BY <1>2, <2>3
    <3>2. QED
      BY <1>2, <1>4, <1>5, <2>3, <3>1 DEF Following
  <2>4. QED
    BY <1>2, <2>2, <2>3
<1>8. Following(n + 1)' = covered'
  <2>1. ~(n + 1 < n + 1)
    BY <1>2
  <2>2. QED
    BY <1>5, <2>1 DEF Following
<1>9. \A i \in 1..(n + 1) : i \in 1..n \/ i = n + 1
  BY <1>2
<1>10. \A i \in 1..(n + 1) : EntryOK(i)'
  <2>1. \A i \in 1..n : EntryOK(i)'
    <3>1. TAKE i \in 1..n
    <3>2. EntryOK(i)
      BY <1>1, <1>2 DEF ExtendOK
    <3>3. QED
      BY <1>5, <1>6, <3>2 DEF EntryOK
  <2>2. EntryOK(n + 1)'
    <3>1. covered \notin Others /\ covered \cup c \notin Others
      BY PushedNew
    <3>2. QED
      BY <1>3, <1>4, <1>5, <1>6, <3>1 DEF EntryOK
  <2>3. QED
    BY <1>9, <2>1, <2>2
<1>11. \A i \in 1..(n + 1) : Repairs(i)'
  <2>1. \A i \in 1..n : Repairs(i)'
    <3>1. TAKE i \in 1..n
    <3>2. Repairs(i)
      BY <1>1, <1>2 DEF ExtendOK
    <3>3. QED
      BY <1>5, <1>6, <1>7, <3>2 DEF Repairs
  <2>2. Repairs(n + 1)'
    BY <1>4, <1>5, <1>6, <1>8 DEF Repairs
  <2>3. QED
    BY <1>9, <2>1, <2>2
<1>12. ASSUME NEW i \in 1..(n + 1), NEW j \in 1..(n + 1), i <= j
       PROVE  extend'[i].clause \subseteq extend'[j].clause
  <2>1. CASE j \in 1..n
    <3>1. i \in 1..n
      BY <1>2, <1>12, <2>1
    <3>2. QED
      BY <1>1, <1>2, <1>5, <1>12, <2>1, <3>1 DEF ExtendOK
  <2>2. CASE j = n + 1 /\ i \in 1..n
    <3>1. EntryOK(i)
      BY <1>1, <1>2, <2>2 DEF ExtendOK
    <3>2. QED
      BY <1>4, <1>5, <2>2, <3>1 DEF EntryOK
  <2>3. CASE j = n + 1 /\ i = n + 1
    BY <2>3
  <2>4. QED
    BY <1>9, <2>1, <2>2, <2>3
<1>13. Following(0)' = c \ Neg(units)
  <2>1. Following(0) = c \ Neg(units)
    BY <1>1 DEF ExtendOK
  <2>2. CASE n = 0
    <3>1. Following(0) = covered
      BY <1>2, <2>2 DEF Following
    <3>2. Following(0)' = covered
      BY <1>4, <1>5, <2>2 DEF Following
    <3>3. QED
      BY <2>1, <3>1, <3>2
  <2>3. CASE n > 0
    <3>1. 0 < n /\ 0 < n + 1 /\ 0 + 1 \in 1..n
      BY <1>2, <2>3
    <3>2. Following(0)' = Following(0)
      BY <1>2, <1>5, <3>1 DEF Following
    <3>3. QED
      BY <2>1, <3>2
  <2>4. QED
    BY <1>2, <2>2, <2>3
<1>14. ASSUME NEW i \in 1..(n + 1), i < n + 1 \/ pc' = "cover"
       PROVE  ~(Following(i)' \subseteq extend'[i].clause \cup c)
  <2>1. CASE i \in 1..n
    BY <1>1, <1>2, <1>5, <1>7, <2>1 DEF ExtendOK
  <2>2. CASE i = n + 1
    <3>1. pc' = "cover"
      BY <1>2, <1>14, <2>2
    <3>2. QED
      BY <1>4, <1>5, <1>8, <2>2, <3>1
  <2>3. QED
    BY <1>9, <2>1, <2>2
<1>15. ExtendOK'
  BY <1>5, <1>10, <1>11, <1>12, <1>13, <1>14 DEF ExtendOK
<1>16. extend' # <<>>
  BY <1>2, <1>5
<1>17. QED
  BY <1>5, <1>15, <1>16 DEF e

\* Covered literals: the literals common to all clauses to be resolved with.
LEMMA CoverCovered ==
  ASSUME FormulasAssumption, CoverInv, NEW lit \in Lits, Covered(lit)
  PROVE  CoverInv'
<1>1. /\ pc = "cover" /\ Triggered = {} /\ lit \in next_covered
      /\ UNCHANGED <<irr, units, extension, tried, schedule, c, rounds>>
  BY DEF Covered
<1>2. FormulaOK /\ ClauseOK /\ ExtendOK /\ Working
  BY <1>1 DEF CoverInv, Working
<1>3. lit \in covered /\ covered \subseteq added
  BY <1>1, <1>2 DEF ClauseOK, FormulaOK, TypeOK
<1>4. Others' = Others
  BY <1>1 DEF Others
<1>5. CASE Var(lit) \in Frozen \/ (Candidates(lit) # {} /\ Intersection(lit) = {})
  <2>1. next_covered' = next_covered \ {lit} /\ UNCHANGED <<pc, added, covered, extend>>
    BY <1>5 DEF Covered
  <2>2. /\ \A i : Following(i)' = Following(i)
        /\ \A i : EntryOK(i) => EntryOK(i)'
        /\ \A i : Repairs(i) => Repairs(i)'
    BY <1>1, <2>1, SameEntries
  <2>3. FormulaOK'
    BY <1>1, <1>2, <2>1 DEF FormulaOK, TypeOK
  <2>4. ClauseOK'
    BY <1>1, <1>2, <1>4, <2>1 DEF ClauseOK
  <2>5. ExtendOK'
    BY <1>1, <1>2, <2>1, <2>2 DEF ExtendOK
  <2>6. LastOK'
    BY <1>1, <2>1 DEF LastOK
  <2>7. QED
    BY <2>3, <2>4, <2>5, <2>6 DEF CoverInv
<1>6. CASE Var(lit) \notin Frozen /\ Candidates(lit) = {}
  <2>1. pc' = "tautological" /\ extend' = Pushed(lit) /\ UNCHANGED <<added, covered, next_covered>>
    BY <1>6 DEF Covered
  <2>2. \A sigma \in Models(Others) : sigma \cap covered = {} =>
          Satisfies(MadeTrue(sigma, {lit}), Others)
    BY <1>1, <1>3, <1>6, LiteralRepairs
  <2>3. ExtendOK' /\ extend' # <<>> /\ extend'[Len(extend')] = StackEntry({lit}, covered)
    BY <1>1, <1>3, <1>6, <2>1, <2>2, EntryPushed
  <2>4. FormulaOK'
    BY <1>1, <1>2, <2>1 DEF FormulaOK, TypeOK
  <2>5. ClauseOK'
    BY <1>1, <1>2, <1>4, <2>1 DEF ClauseOK
  <2>6. LastOK'
    <3>1. extend'[Len(extend')].clause = covered /\ extend'[Len(extend')].witness = {lit}
      BY <2>3, EntryFields
    <3>2. \A sigma \in Models(Others') : sigma \cap extend'[Len(extend')].clause = {} =>
            Satisfies(MadeTrue(sigma, extend'[Len(extend')].witness), Others')
      BY <1>4, <2>2, <3>1
    <3>3. QED
      BY <3>2 DEF LastOK, Models, Satisfies, MadeTrue
  <2>7. QED
    BY <2>3, <2>4, <2>5, <2>6 DEF CoverInv
<1>7. CASE Var(lit) \notin Frozen /\ Candidates(lit) # {} /\ Intersection(lit) # {}
  <2> DEFINE I == Intersection(lit)
  <2>1. /\ extend' = Pushed(lit) /\ added' = added \cup I /\ covered' = covered \cup I
        /\ next_covered' = covered' /\ pc' = pc
    BY <1>7 DEF Covered
  <2>2. /\ I \subseteq Lits \ {-lit} /\ I # {}
        /\ \A other \in I : \A D \in Candidates(lit) : other \in D \ False
    BY <1>7 DEF Intersection
  <2> HIDE DEF I
  <2>3. PICK D \in Candidates(lit) : TRUE
    BY <1>7
  <2>4. D \in ProperClauses /\ (D \ {-lit}) \cap True = {}
    BY <1>2, <2>3 DEF Candidates, FormulaOK, TypeOK
  <2>5. \A other \in I : other \in Lits /\ other \in D /\ other \notin False /\ other \notin True
    BY <2>2, <2>3, <2>4
  <2>6. Vars \subseteq Nat \ {0} /\ units \subseteq Lits
    BY <1>2 DEF FormulasAssumption, FormulaOK
  <2>7. ASSUME NEW other \in I
        PROVE  /\ other \notin added /\ -other \notin added
               /\ other \notin units /\ -other \notin units
    BY <1>2, <2>5, FalseFacts
  <2>8. FormulaOK'
    <3>1. added \in ProperClauses /\ added \subseteq Lits
      BY <1>2, ClauseFacts DEF FormulaOK, TypeOK
    <3>2. ASSUME NEW l \in added \cup I, -l \in added \cup I PROVE FALSE
      <4>1. CASE l \in added /\ -l \in added
        BY <3>1, <4>1, ClauseFacts
      <4>2. CASE l \in added /\ -l \in I
        <5>1. -(-l) = l
          BY <2>6, <3>1, <4>2, LitFacts
        <5>2. QED
          BY <2>7, <4>2, <5>1
      <4>3. CASE l \in I /\ -l \in added
        BY <2>7, <4>3
      <4>4. CASE l \in I /\ -l \in I
        BY <2>4, <2>5, <4>4, ClauseFacts
      <4>5. QED
        BY <3>2, <4>1, <4>2, <4>3, <4>4
    <3>3. added \cup I \in ProperClauses
      BY <2>5, <3>1, <3>2 DEF ProperClauses, Tautological
    <3>4. I \cap Neg(units) = {}
      <4>1. SUFFICES ASSUME NEW u \in units, -u \in I PROVE FALSE
        BY DEF Neg
      <4>2. -(-u) = u
        BY <2>6, LitFacts
      <4>3. QED
        BY <2>7, <4>1, <4>2
    <3>5. I \cap units = {}
      BY <2>7
    <3>6. QED
      BY <1>1, <1>2, <2>1, <3>3, <3>4, <3>5 DEF FormulaOK, TypeOK
  <2>9. ClauseOK'
    BY <1>1, <1>2, <1>4, <2>1 DEF ClauseOK
  <2>10. ASSUME NEW sigma \in Models(Others), sigma \cap covered = {}, sigma \cap covered' # {}
         PROVE  Satisfies(MadeTrue(sigma, {lit}), Others)
    <3>1. PICK other \in I : other \in sigma
      BY <2>1, <2>10
    <3>2. \A E \in Candidates(lit) : E \cap (sigma \ {-lit}) # {}
      BY <2>2, <3>1
    <3>3. QED
      BY <1>1, <1>3, <1>7, <2>10, <3>2, LiteralRepairs
  <2>11. ~(covered' \subseteq covered \cup c)
    <3>1. PICK other \in I : TRUE
      BY <2>2
    <3>2. other \notin added /\ other \notin False
      BY <2>5, <2>7
    <3>3. other \notin c
      BY <1>2, <3>2, TriedFalse
    <3>4. QED
      BY <1>3, <2>1, <3>2, <3>3
  <2>12. ExtendOK'
    BY <1>1, <1>3, <1>7, <2>1, <2>10, <2>11, EntryPushed
  <2>13. LastOK'
    BY <1>1, <2>1 DEF LastOK
  <2>14. QED
    BY <2>8, <2>9, <2>12, <2>13 DEF CoverInv
<1>8. QED
  BY <1>5, <1>6, <1>7

\* Entries that are put on a stack.
LEMMA EntriesPushed ==
  ASSUME NEW e \in Seq(Entries), NEW n \in Nat, NEW f \in [1..n -> Entries]
  PROVE  /\ e \o f \in Seq(Entries) /\ Len(e) \in Nat /\ DOMAIN (e \o f) = 1..(Len(e) + n)
         /\ \A i \in 1..n : (e \o f)[Len(e) + i] = f[i]
<1>1. f \in Seq(Entries) /\ Len(f) = n
  OBVIOUS
<1>2. /\ e \o f \in Seq(Entries) /\ Len(e \o f) = Len(e) + n /\ Len(e) \in Nat
      /\ \A i \in 1..(Len(e) + n) : (e \o f)[i] = IF i <= Len(e) THEN e[i] ELSE f[i - Len(e)]
  BY <1>1, ConcatProperties, LenProperties
<1>3. DOMAIN (e \o f) = 1..(Len(e) + n)
  BY <1>2, LenProperties
<1>4. ASSUME NEW i \in 1..n PROVE (e \o f)[Len(e) + i] = f[i]
  <2>1. /\ Len(e) + i \in 1..(Len(e) + n) /\ ~(Len(e) + i <= Len(e))
        /\ (Len(e) + i) - Len(e) = i
    BY <1>2
  <2>2. QED
    BY <1>2, <2>1
<1>5. QED
  BY <1>2, <1>3, <1>4

\* The clauses that are saved.
LEMMA SavedFacts ==
  ASSUME CoverInv, pc = "tautological", c \subseteq Lits, NEW i \in 1..Len(extend)
  PROVE  /\ Saved(i) \in Entries /\ Saved(i).witness = extend[i].witness
         /\ Saved(i).clause \in {extend[i].clause, extend[i].clause \cup c}
         /\ i < Len(extend) => Saved(i).clause = extend[i].clause \cup c
<1>1. extend[i] \in Entries
  BY DEF CoverInv, ExtendOK, Working
<1>2. CASE i < Len(extend) \/ proof
  <2>1. Saved(i) = [extend[i] EXCEPT !.clause = @ \cup c]
    BY <1>2 DEF Saved
  <2>2. QED
    BY <1>1, <2>1 DEF Entries
<1>3. CASE ~(i < Len(extend) \/ proof)
  BY <1>1, <1>3 DEF Saved
<1>4. QED
  BY <1>2, <1>3

\* Each entry is redundant in the other clauses and the entries from it on.
LEMMA SavedRedundant ==
  ASSUME FormulasAssumption, CoverInv, pc = "tautological", NEW k \in 1..Len(extend), NEW L,
         L = Others \cup {Saved(l).clause : l \in k..Len(extend)}
  PROVE  /\ RedundantWith(Saved(k).clause, Saved(k).witness, L)
         /\ \A lit \in Saved(k).witness : Var(lit) \notin Frozen
<1> DEFINE n == Len(extend)
           cl(l) == Saved(l).clause
<1>1. FormulaOK /\ ClauseOK /\ ExtendOK /\ LastOK /\ Working
  BY DEF CoverInv, Working
<1>2. n \in Nat /\ c \subseteq Lits /\ k \in Nat /\ k \in k..n
  BY <1>1, TriedFalse DEF ExtendOK
<1>3. ASSUME NEW l \in 1..n
      PROVE  /\ Saved(l).witness = extend[l].witness
             /\ cl(l) \in {extend[l].clause, extend[l].clause \cup c}
             /\ l < n => cl(l) = extend[l].clause \cup c
  BY <1>2, SavedFacts
<1>4. PICK lit \in Lits :
        /\ extend[k].witness = {lit} /\ lit \in extend[k].clause /\ Var(lit) \notin Frozen
        /\ extend[k].clause \notin Others /\ extend[k].clause \cup c \notin Others
  BY <1>1 DEF ExtendOK, EntryOK
<1> HIDE DEF cl
<1>5. cl(k) \notin Others /\ lit \in cl(k)
  BY <1>3, <1>4
<1>6. ASSUME NEW l \in k..n PROVE l \in 1..n /\ lit \in cl(l)
  <2>1. l \in 1..n /\ k <= l
    BY <1>2
  <2>2. extend[k].clause \subseteq extend[l].clause
    BY <1>1, <2>1 DEF ExtendOK
  <2>3. QED
    BY <1>3, <1>4, <2>1, <2>2
<1>7. L = Others \cup {cl(l) : l \in k..n}
  BY DEF cl
<1>8. ASSUME NEW sigma \in Models(L \ {cl(k)}), cl(k) \cap sigma = {}
      PROVE  Satisfies(MadeTrue(sigma, {lit}), L)
  <2>1. sigma \in Total /\ \A D \in L \ {cl(k)} : D \cap sigma # {}
    BY <1>8 DEF Models, Satisfies
  <2>2. sigma \in Models(Others)
    BY <1>5, <1>7, <2>1 DEF Models, Satisfies
  <2>3. sigma \cap extend[k].clause = {}
    BY <1>3, <1>8
  <2>4. Satisfies(MadeTrue(sigma, {lit}), Others)
    <3>1. CASE k < n
      <4>1. k + 1 \in 1..n /\ k + 1 \in k..n /\ Following(k) = extend[k + 1].clause
        BY <1>2, <3>1 DEF Following
      <4>2. cl(k) = extend[k].clause \cup c
        BY <1>3, <3>1
      <4>3. cl(k + 1) # cl(k)
        <5>1. ~(Following(k) \subseteq extend[k].clause \cup c)
          BY <1>1, <3>1 DEF ExtendOK
        <5>2. extend[k + 1].clause \subseteq cl(k + 1)
          BY <1>3, <4>1
        <5>3. QED
          BY <4>1, <4>2, <5>1, <5>2
      <4>4. cl(k + 1) \cap sigma # {}
        BY <1>7, <2>1, <4>1, <4>3
      <4>5. sigma \cap Following(k) # {}
        BY <1>3, <1>8, <4>1, <4>2, <4>4
      <4>6. Repairs(k)
        BY <1>1 DEF ExtendOK
      <4>7. QED
        BY <1>4, <2>2, <2>3, <4>5, <4>6 DEF Repairs
    <3>2. CASE k = n
      <4>1. extend # <<>>
        BY <1>2, <3>2
      <4>2. QED
        BY <1>1, <1>4, <2>2, <2>3, <3>2, <4>1 DEF LastOK
    <3>3. QED
      BY <1>2, <3>1, <3>2
  <2>5. lit \in MadeTrue(sigma, {lit})
    BY DEF MadeTrue
  <2>6. ASSUME NEW D \in L PROVE D \cap MadeTrue(sigma, {lit}) # {}
    <3>1. CASE D \in Others
      BY <2>4, <3>1 DEF Satisfies
    <3>2. CASE D \notin Others
      <4>1. PICK l \in k..n : D = cl(l)
        BY <1>7, <3>2
      <4>2. QED
        BY <1>6, <2>5, <4>1
    <3>3. QED
      BY <3>1, <3>2
  <2>7. QED
    BY <2>6 DEF Satisfies
<1>9. ASSUME NEW sigma \in Models(L \ {cl(k)}), cl(k) \cap sigma # {}
      PROVE  Satisfies(sigma, L)
  BY <1>9 DEF Models, Satisfies
<1>10. RedundantWith(cl(k), {lit}, L)
  <2>1. StackEntry({lit}, cl(k)).clause = cl(k) /\ StackEntry({lit}, cl(k)).witness = {lit}
    BY EntryFields
  <2>2. QED
    BY <1>8, <1>9, <2>1 DEF RedundantWith, ExtendEntry
<1>11. Saved(k).witness = {lit}
  BY <1>3, <1>4
<1>12. QED
  BY <1>4, <1>10, <1>11 DEF cl

\* The clause goes, and its entries are put on the stack.
LEMMA CoverSucceed ==
  ASSUME FormulasAssumption, CoverInv, Succeed
  PROVE  CoverInv' /\ WeakenContract
<1> DEFINE n == Len(extend)
           f == [i \in DOMAIN extend |-> Saved(i)]
           m == Len(extension)
           e1 == extension \o f
<1>1. /\ pc = "tautological" /\ pc' = "round" /\ irr' = IF extend = <<>> THEN irr ELSE irr \ {c}
      /\ extension' = e1 /\ UNCHANGED <<units, schedule>>
      /\ c' = {} /\ added' = {} /\ covered' = {} /\ extend' = <<>>
  BY DEF Succeed
<1>2. FormulaOK /\ ClauseOK /\ ExtendOK /\ Working
  BY <1>1 DEF CoverInv, Working
<1>3. c \subseteq Lits /\ c \in irr /\ n \in Nat /\ DOMAIN extend = 1..n /\ extension \in Seq(Entries)
  BY <1>2, TriedFalse DEF ClauseOK, ExtendOK, FormulaOK
<1>4. f \in [1..n -> Entries]
  BY <1>1, <1>3, SavedFacts
<1>5. /\ e1 \in Seq(Entries) /\ m \in Nat /\ DOMAIN e1 = 1..(m + n)
      /\ \A i \in 1..n : e1[m + i] = Saved(i)
  BY <1>3, <1>4, EntriesPushed
<1> HIDE DEF e1, f, m
<1>6. CoverInv'
  <2>1. {} \in ProperClauses
    BY DEF ProperClauses, Tautological
  <2>2. schedule \subseteq irr'
    BY <1>1, <1>2 DEF FormulaOK, TypeOK, ClauseOK
  <2>3. FormulaOK'
    BY <1>1, <1>2, <1>5, <2>1, <2>2 DEF FormulaOK, TypeOK
  <2>4. ClauseOK' /\ ExtendOK' /\ LastOK'
    BY <1>1 DEF ClauseOK, ExtendOK, LastOK, Working
  <2>5. QED
    BY <2>3, <2>4 DEF CoverInv
<1>7. CASE extend = <<>>
  <2>1. n = 0 /\ irr' = irr
    BY <1>1, <1>7
  <2>2. f = <<>>
    BY <1>7 DEF f
  <2>3. e1 = extension
    BY <1>3, <2>2 DEF e1
  <2>4. QED
    BY <1>1, <1>3, <1>6, <2>1, <2>3, NothingWeakened
<1>8. CASE extend # <<>>
  <2>1. n > 0 /\ irr' \cup Units(units) = Others
    BY <1>1, <1>3, <1>8 DEF Others
  <2> DEFINE new == {i \in DOMAIN e1 : i > m}
             later(i) == Others \cup {e1[j].clause : j \in {k \in new : k >= i}}
  <2>2. new = (m + 1)..(m + n)
    BY <1>3, <1>5
  <2>3. \A k \in 1..n : later(m + k) = Others \cup {Saved(l).clause : l \in k..n}
    <3>1. TAKE k \in 1..n
    <3>2. {j \in new : j >= m + k} = {m + l : l \in k..n}
      <4>1. ASSUME NEW j \in new, j >= m + k PROVE \E l \in k..n : j = m + l
        <5>1. j - m \in k..n /\ j = m + (j - m)
          BY <1>3, <1>5, <2>2, <4>1
        <5>2. QED
          BY <5>1
      <4>2. ASSUME NEW l \in k..n PROVE m + l \in new /\ m + l >= m + k
        BY <1>3, <1>5, <2>2
      <4>3. QED
        BY <4>1, <4>2
    <3>3. \A l \in k..n : e1[m + l].clause = Saved(l).clause
      <4>1. TAKE l \in k..n
      <4>2. l \in 1..n
        BY <1>3
      <4>3. QED
        BY <1>5, <4>2
    <3>4. {e1[j].clause : j \in {m + l : l \in k..n}} = {Saved(l).clause : l \in k..n}
      BY <3>3
    <3>5. QED
      BY <3>2, <3>4
  <2> HIDE DEF later, new
  <2>4. ASSUME NEW i \in new
        PROVE  /\ RedundantWith(e1[i].clause, e1[i].witness, later(i))
               /\ \A lit \in e1[i].witness : Var(lit) \notin Frozen
    <3>1. PICK k \in 1..n : i = m + k
      <4>1. i - m \in 1..n /\ i = m + (i - m)
        BY <1>3, <1>5, <2>2
      <4>2. QED
        BY <4>1
    <3>2. e1[i] = Saved(k) /\ later(i) = Others \cup {Saved(l).clause : l \in k..n}
      BY <1>5, <2>3, <3>1
    <3>3. QED
      BY <1>1, <3>2, SavedRedundant
  <2>5. ASSUME NEW D \in (irr \cup Units(units)) \ Others PROVE Implies(later(m + 1), D)
    <3>1. D = c
      BY <2>5 DEF Others
    <3>2. 1 \in 1..n /\ 0 < n
      BY <1>3, <2>1
    <3>3. extend[1].clause = c \ Neg(units)
      <4>1. Following(0) = c \ Neg(units)
        BY <1>2 DEF ExtendOK
      <4>2. Following(0) = extend[1].clause
        BY <3>2 DEF Following
      <4>3. QED
        BY <4>1, <4>2
    <3>4. Saved(1).clause \subseteq c
      BY <1>1, <1>3, <3>2, <3>3, SavedFacts
    <3>5. Saved(1).clause \in later(m + 1)
      BY <2>3, <3>2
    <3>6. QED
      BY <3>1, <3>4, <3>5 DEF Implies, Models, Satisfies
  <2>6. Weakens(irr \cup Units(units), extension, Others, e1, Frozen)
    BY <2>4, <2>5 DEF Weakens, later, new, m
  <2>7. WeakenContract
    BY <1>1, <2>1, <2>6 DEF WeakenContract
  <2>8. QED
    BY <1>6, <2>7
<1>9. QED
  BY <1>7, <1>8

\* Every step keeps the invariant and the contract.
LEMMA CoverStep ==
  ASSUME FormulasAssumption, CoverInv, [Next]_vars
  PROVE  CoverInv' /\ [WeakenContract]_vars
<1>1. extension \in Seq(Entries)
  BY DEF CoverInv, FormulaOK
<1>2. CASE Schedule
  BY <1>2, CoverSchedule
<1>3. CASE GiveUp
  <2>1. {} \in ProperClauses
    BY DEF ProperClauses, Tautological
  <2>2. /\ pc' = "round" /\ added' = {} /\ covered' = {} /\ pc = "cover"
        /\ UNCHANGED <<irr, units, extension, schedule>>
    BY <1>3 DEF GiveUp
  <2>3. FormulaOK'
    BY <2>1, <2>2 DEF CoverInv, FormulaOK, TypeOK
  <2>4. ClauseOK' /\ ExtendOK' /\ LastOK'
    BY <2>2 DEF ClauseOK, ExtendOK, LastOK, Working
  <2>5. QED
    BY <1>1, <2>2, <2>3, <2>4, NothingWeakened DEF CoverInv
<1>4. CASE Succeed
  BY <1>4, CoverSucceed
<1>5. CASE EndRound
  <2>1. /\ pc' = "idle" /\ schedule' = {}
        /\ UNCHANGED <<irr, units, extension, added, covered>>
    BY <1>5 DEF EndRound
  <2>2. FormulaOK'
    BY <2>1 DEF CoverInv, FormulaOK, TypeOK
  <2>3. ClauseOK' /\ ExtendOK' /\ LastOK'
    BY <2>1 DEF ClauseOK, ExtendOK, LastOK, Working
  <2>4. QED
    BY <1>1, <2>1, <2>2, <2>3, NothingWeakened DEF CoverInv
<1>6. ASSUME NEW C \in irr, Try(C) PROVE CoverInv' /\ WeakenContract
  <2>1. UNCHANGED <<irr, units, extension>>
    BY <1>6 DEF Try
  <2>2. QED
    BY <1>1, <1>6, <2>1, CoverTry, NothingWeakened
<1>7. ASSUME NEW C \in irr, Asymmetric(C) PROVE CoverInv' /\ WeakenContract
  <2>1. UNCHANGED <<irr, units, extension>>
    BY <1>7 DEF Asymmetric
  <2>2. QED
    BY <1>1, <1>7, <2>1, CoverAsymmetric, NothingWeakened
<1>8. ASSUME NEW lit \in Lits, Covered(lit) PROVE CoverInv' /\ WeakenContract
  <2>1. UNCHANGED <<irr, units, extension>>
    BY <1>8 DEF Covered
  <2>2. QED
    BY <1>1, <1>8, <2>1, CoverCovered, NothingWeakened
<1>9. CASE UNCHANGED vars
  <2>1. UNCHANGED <<irr, units, c, covered, extend, pc, added, schedule, extension, next_covered>>
    BY <1>9 DEF vars
  <2>2. /\ Others' = Others
        /\ \A i : Following(i)' = Following(i)
        /\ \A i : EntryOK(i) => EntryOK(i)'
        /\ \A i : Repairs(i) => Repairs(i)'
    BY <2>1, SameEntries
  <2>3. FormulaOK' /\ ClauseOK' /\ LastOK'
    BY <2>1, <2>2 DEF CoverInv, FormulaOK, TypeOK, ClauseOK, LastOK, Working
  <2>4. ExtendOK'
    BY <2>1, <2>2 DEF CoverInv, ExtendOK, Working
  <2>5. QED
    BY <1>9, <2>3, <2>4 DEF CoverInv
<1>10. QED
  BY <1>2, <1>3, <1>4, <1>5, <1>6, <1>7, <1>8, <1>9 DEF Next

\* Covered clause elimination (cover.cpp): each entry of a covered clause is redundant with
\* its literal in what is left and the entries after it, although none of these clauses was
\* part of the formula, and the clause itself follows from what goes on the stack.
THEOREM CoverContract ==
  ASSUME FormulasAssumption
  PROVE  Spec => [][WeakenContract]_vars
<1>1. Init => CoverInv
  BY CoverInitially
<1>2. CoverInv /\ [Next]_vars => CoverInv' /\ [WeakenContract]_vars
  BY CoverStep
<1>3. QED
  BY <1>1, <1>2, PTL DEF Spec

\* Covered clause elimination keeps the extended clause a clause over literals that are not
\* assigned at the root (cover.cpp).
THEOREM CoverTypeCorrect ==
  ASSUME FormulasAssumption
  PROVE  Spec => []TypeOK
<1>1. Init => CoverInv
  BY CoverInitially
<1>2. CoverInv /\ [Next]_vars => CoverInv'
  BY CoverStep
<1>3. CoverInv => TypeOK
  BY DEF CoverInv, FormulaOK
<1>4. QED
  BY <1>1, <1>2, <1>3, PTL DEF Spec
=============================================================================
