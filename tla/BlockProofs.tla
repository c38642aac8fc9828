---------------------------- MODULE BlockProofs ----------------------------
(***************************************************************************)
(* Blocked clause elimination keeps to the contract of the extension stack *)
(* and its bits miss nothing, for every formula, every set of options and  *)
(* any number of runs.                                                     *)
(***************************************************************************)
EXTENDS Block, FiniteSetTheorems, SequenceTheorems, TLAPS

-----------------------------------------------------------------------------
(* Literals, assignments and occurrences.                                  *)

\* Literals come in pairs that are different.
LEMMA LitFacts ==
  ASSUME FormulasAssumption, NEW lit \in Lits
  PROVE  /\ lit \in Int /\ -lit \in Lits /\ -(-lit) = lit /\ -lit # lit
         /\ Var(-lit) = Var(lit)
BY DEF FormulasAssumption, Lits, Var

\* A total assignment has exactly one of a literal and its negation.
LEMMA TotalFacts ==
  ASSUME FormulasAssumption, NEW sigma \in Total, NEW lit \in Lits
  PROVE  lit \in sigma <=> -lit \notin sigma
<1>1. PICK P \in SUBSET Vars : sigma = {IF v \in P THEN v ELSE -v : v \in Vars}
  BY DEF Total
<1>2. \A v \in Vars : v \in Int /\ v > 0
  BY DEF FormulasAssumption
<1>3. \A v \in Vars : (v \in sigma <=> v \in P) /\ (-v \in sigma <=> v \notin P)
  <2>1. TAKE v \in Vars
  <2>2. ASSUME NEW u \in Vars PROVE (u = v <=> -u = -v) /\ u # -v /\ -u # v
    BY <1>2
  <2>3. v \in sigma <=> \E u \in Vars : v = IF u \in P THEN u ELSE -u
    BY <1>1
  <2>4. -v \in sigma <=> \E u \in Vars : -v = IF u \in P THEN u ELSE -u
    BY <1>1
  <2>5. QED
    BY <2>2, <2>3, <2>4
<1>4. CASE lit \in Vars
  BY <1>3, <1>4
<1>5. CASE lit \notin Vars
  <2>1. PICK v \in Vars : lit = -v
    BY <1>5 DEF Lits
  <2>2. -lit = v
    BY <1>2, <2>1
  <2>3. QED
    BY <1>3, <2>1, <2>2
<1>6. QED
  BY <1>4, <1>5

\* No clause has both, and there are finitely many.
LEMMA ClauseFacts ==
  ASSUME FormulasAssumption
  PROVE  /\ \A C \in ProperClauses : C \subseteq Lits /\ \A lit \in C : -lit \notin C
         /\ IsFiniteSet(ProperClauses)
<1>1. \A C \in ProperClauses : C \subseteq Lits /\ \A lit \in C : -lit \notin C
  BY DEF ProperClauses, Tautological
<1>2. IsFiniteSet({-v : v \in Vars})
  <2>1. IsFiniteSet(Vars)
    BY DEF FormulasAssumption
  <2> DEFINE f == [v \in Vars |-> -v]
  <2>2. f \in Surjection(Vars, {-v : v \in Vars})
    BY DEF Surjection
  <2>3. QED
    BY <2>1, <2>2, FS_Surjection
<1>3. IsFiniteSet(Lits)
  BY <1>2, FS_Union DEF FormulasAssumption, Lits
<1>4. IsFiniteSet(SUBSET Lits)
  BY <1>3, FS_SUBSET
<1>5. ProperClauses \in SUBSET SUBSET Lits
  BY DEF ProperClauses
<1>6. QED
  BY <1>1, <1>4, <1>5, FS_Subset

\* Occurrence lists are finite, so that counting them decides what is in them.
LEMMA OccsFacts ==
  ASSUME FormulasAssumption, NEW F \in SUBSET ProperClauses, NEW lit \in Lits
  PROVE  /\ IsFiniteSet(occs(F, lit)) /\ Cardinality(occs(F, lit)) \in Nat
         /\ Cardinality(occs(F, lit)) = 0 <=> occs(F, lit) = {}
         /\ Cardinality(occs(F, lit)) = 1 => \E D : occs(F, lit) = {D}
<1>1. occs(F, lit) \in SUBSET ProperClauses
  BY DEF occs
<1>2. IsFiniteSet(occs(F, lit))
  BY <1>1, ClauseFacts, FS_Subset
<1>3. QED
  BY <1>2, FS_CardinalityType, FS_EmptySet, FS_Singleton

-----------------------------------------------------------------------------
(* Blocked clauses are redundant.                                          *)

\* A clause that clashes with all clauses of the negation of one of its literals is
\* repaired by that literal: what the flip makes false has another true literal.
LEMMA BlockedRedundant ==
  ASSUME FormulasAssumption, NEW F \in SUBSET ProperClauses, NEW C \in ProperClauses,
         NEW lit \in C, \A D \in occs(F, -lit) : Clashes(C, D, lit)
  PROVE  RedundantWith(C, {lit}, F)
<1> DEFINE e == StackEntry({lit}, C)
<1>1. SUFFICES ASSUME NEW sigma \in Models(F \ {C}), NEW D \in F
               PROVE  D \cap ExtendEntry(e, sigma) # {}
  BY DEF RedundantWith, Satisfies
<1>2. sigma \in Total /\ \A E \in F \ {C} : E \cap sigma # {}
  BY DEF Models, Satisfies
<1>3. lit \in Lits /\ C \subseteq Lits /\ D \subseteq Lits /\ -lit \in Lits /\ -lit \notin C
  BY ClauseFacts, LitFacts
<1>4. e.clause = C /\ e.witness = {lit}
  BY DEF StackEntry
<1>5. CASE C \cap sigma # {}
  <2>1. ExtendEntry(e, sigma) = sigma
    BY <1>4, <1>5 DEF ExtendEntry
  <2>2. QED
    BY <1>2, <1>5, <2>1
<1>6. CASE C \cap sigma = {}
  <2> DEFINE tau == (sigma \ {-lit}) \cup {lit}
  <2>1. ExtendEntry(e, sigma) = tau
    BY <1>4, <1>6 DEF ExtendEntry, MadeTrue, Neg
  <2>2. CASE lit \in D
    BY <2>1, <2>2
  <2>3. CASE lit \notin D /\ -lit \notin D
    <3>1. D \cap sigma # {}
      BY <1>2, <2>3
    <3>2. QED
      BY <2>1, <2>3, <3>1
  <2>4. CASE -lit \in D
    <3>1. PICK other \in C \ {lit} : -other \in D
      BY <2>4 DEF occs, Clashes
    <3>2. other \in Lits /\ other \notin sigma
      BY <1>3, <1>6
    <3>3. -other \in sigma
      BY <1>2, <3>2, TotalFacts
    <3>4. -other # -lit
      BY <1>3, <3>1, <3>2, LitFacts
    <3>5. QED
      BY <2>1, <3>1, <3>3, <3>4
  <2>5. QED
    BY <2>2, <2>3, <2>4
<1>7. QED
  BY <1>5, <1>6

\* No clause of F is blocked on lit, limits aside.
Spent(F, lit) ==
  \A C \in occs(F, lit) :
    \/ ~SizeOk(C) \/ Cardinality(occs(F, -lit)) > blockocclim
    \/ Large(occs(F, -lit)) # {}
    \/ \E D \in occs(F, -lit) : ~Clashes(C, D, lit)

\* It stays so as long as the negative clauses stay.
LEMMA SpentLess ==
  ASSUME FormulasAssumption, NEW F \in SUBSET ProperClauses, NEW B \in SUBSET F,
         NEW lit \in Lits, Spent(F, lit), -lit \notin UNION B
  PROVE  Spent(F \ B, lit)
<1>1. occs(F \ B, -lit) = occs(F, -lit) /\ occs(F \ B, lit) \subseteq occs(F, lit)
  BY DEF occs
<1>2. QED
  BY <1>1 DEF Spent

\* A new negative clause can only help.
LEMMA SpentMore ==
  ASSUME FormulasAssumption, OptionsAssumption, NEW F \in SUBSET ProperClauses,
         NEW C \in ProperClauses, NEW lit \in Lits, Spent(F, lit), lit \notin C
  PROVE  Spent(F \cup {C}, lit)
<1> DEFINE G == F \cup {C}
<1>1. occs(G, lit) = occs(F, lit) /\ occs(F, -lit) \in SUBSET occs(G, -lit)
  BY DEF occs
<1>2. G \in SUBSET ProperClauses /\ -lit \in Lits
  BY LitFacts
<1>3. /\ Cardinality(occs(F, -lit)) \in Nat /\ Cardinality(occs(G, -lit)) \in Nat
      /\ IsFiniteSet(occs(G, -lit))
  BY <1>2, OccsFacts
<1>4. Cardinality(occs(F, -lit)) <= Cardinality(occs(G, -lit))
  BY <1>1, <1>3, FS_Subset
<1>5. Large(occs(F, -lit)) \subseteq Large(occs(G, -lit))
  BY <1>1 DEF Large
<1>6. blockocclim \in Nat
  BY DEF OptionsAssumption
<1>7. Cardinality(occs(F, -lit)) > blockocclim => Cardinality(occs(G, -lit)) > blockocclim
  BY <1>3, <1>4, <1>6
<1>8. QED
  BY <1>1, <1>5, <1>7 DEF Spent

\* block_literal removes clauses of lit that are blocked, and all of them.
LEMMA BlockedFacts ==
  ASSUME FormulasAssumption, OptionsAssumption, irr \in SUBSET ProperClauses, NEW lit \in Lits,
         \A l \in Lits : noccs[l] = Cardinality(occs(irr, l)),
         ~(noccs[-lit] > blockocclim)
  PROVE  /\ Blocked(lit) \subseteq occs(irr, lit)
         /\ \A C \in Blocked(lit) : is_blocked_clause(C, lit)
         /\ Spent(irr \ Blocked(lit), lit)
<1> DEFINE B == Blocked(lit)
           pos == occs(irr, lit)
           neg == occs(irr, -lit)
<1>1. /\ -lit \in Lits /\ noccs[lit] = Cardinality(pos) /\ noccs[-lit] = Cardinality(neg)
      /\ Cardinality(pos) \in Nat /\ Cardinality(neg) \in Nat
      /\ Cardinality(pos) = 0 <=> pos = {}
      /\ Cardinality(neg) = 0 <=> neg = {}
      /\ Cardinality(neg) = 1 => \E D : neg = {D}
  BY LitFacts, OccsFacts
<1>2. SUFFICES /\ B \subseteq pos
               /\ \A C \in B : \A D \in neg : Clashes(C, D, lit)
               /\ \A C \in pos \ B : ~SizeOk(C) \/ Large(neg) # {} \/ \E D \in neg : ~Clashes(C, D, lit)
  <2>1. \A C \in pos : -lit \notin C
    BY ClauseFacts DEF occs
  <2>2. ASSUME B \subseteq pos
        PROVE  occs(irr \ B, -lit) = neg /\ occs(irr \ B, lit) = pos \ B
    BY <2>1, <2>2 DEF occs
  <2>3. QED
    BY <1>2, <2>2 DEF Spent, is_blocked_clause
<1>3. CASE noccs[-lit] = 0
  <2>1. B = pos /\ neg = {}
    BY <1>1, <1>3 DEF Blocked, block_pure_literal
  <2>2. QED
    BY <2>1
<1>4. CASE noccs[-lit] > 0 /\ noccs[lit] = 0
  <2>1. B = {} /\ pos = {}
    BY <1>1, <1>4 DEF Blocked
  <2>2. QED
    BY <2>1
<1>5. CASE noccs[-lit] = 1 /\ noccs[lit] > 0
  <2>1. B = block_literal_with_one_negative_occ(lit)
    BY <1>1, <1>5 DEF Blocked
  <2>2. PICK D : neg = {D}
    BY <1>1, <1>5
  <2>3. QED
    BY <2>1, <2>2 DEF block_literal_with_one_negative_occ
<1>6. CASE noccs[-lit] > 1 /\ noccs[lit] > 0
  <2> DEFINE cands == block_candidates(lit)
  <2>1. B = block_literal_with_at_least_two_negative_occs(lit)
    BY <1>1, <1>6 DEF Blocked
  <2>2. neg # {} /\ cands = {C \in pos : SizeOk(C) /\ \E D \in neg : Clashes(C, D, lit)}
    BY <1>1, <1>6 DEF block_candidates
  <2>3. ASSUME block_impossible(cands, lit), NEW C \in cands
        PROVE  \E D \in neg : ~Clashes(C, D, lit)
    <3>1. PICK D \in neg : \A E \in cands : ~\E other \in D \ {-lit} : -other \in E
      BY <2>3 DEF block_impossible
    <3>2. ASSUME Clashes(C, D, lit) PROVE FALSE
      <4>1. PICK other \in C \ {lit} : -other \in D
        BY <3>2 DEF Clashes
      <4>2. other \in Lits
        BY <2>2, ClauseFacts DEF occs
      <4>3. -(-other) = other /\ -other # -lit
        BY <4>1, <4>2, LitFacts
      <4>4. QED
        BY <3>1, <4>1, <4>3
    <3>3. QED
      BY <3>2
  <2>4. CASE Large(neg) # {} \/ (Cardinality(cands) > 1 /\ block_impossible(cands, lit))
    <3>1. B = {}
      BY <2>1, <2>4 DEF block_literal_with_at_least_two_negative_occs
    <3>2. QED
      BY <2>2, <2>3, <2>4, <3>1
  <2>5. CASE ~(Large(neg) # {} \/ (Cardinality(cands) > 1 /\ block_impossible(cands, lit)))
    <3>1. B = {C \in cands : is_blocked_clause(C, lit)}
      BY <2>1, <2>5 DEF block_literal_with_at_least_two_negative_occs
    <3>2. QED
      BY <2>2, <3>1 DEF is_blocked_clause
  <2>6. QED
    BY <2>4, <2>5
<1>7. QED
  BY <1>1, <1>3, <1>4, <1>5, <1>6

-----------------------------------------------------------------------------
(* The stack.                                                              *)

\* The loop over the blocked clauses pushes each of them.
LEMMA AllPushed ==
  ASSUME NEW B, IsFiniteSet(B)
  PROVE  /\ Cardinality(B) \in Nat
         /\ \A i \in 1..Cardinality(B) : SetToSeq(B)[i] \in B
         /\ \A C \in B : \E i \in 1..Cardinality(B) : SetToSeq(B)[i] = C
<1> DEFINE n == Cardinality(B)
           s == SetToSeq(B)
<1>1. n \in Nat /\ ExistsBijection(1..n, B)
  BY FS_CardinalityType
<1>2. \E f \in [1..n -> B] : IsInjective(f)
  BY <1>1 DEF ExistsBijection, Bijection, Injection
<1>3. s \in [1..n -> B] /\ IsInjective(s)
  BY <1>2 DEF SetToSeq
<1>4. IsFiniteSet(1..n) /\ Cardinality(1..n) = n
  BY <1>1, FS_Interval
<1>5. s \in Injection(1..n, B)
  BY <1>3 DEF Injection
<1>6. s \in Surjection(1..n, B)
  BY <1>4, <1>5, FS_Injection
<1> HIDE DEF s, n
<1>7. QED
  BY <1>1, <1>3, <1>6 DEF Surjection, s, n

Entries == [witness : SUBSET Lits, clause : SUBSET Lits]

\* Where the entries are that are pushed on a stack.
LEMMA Pushed ==
  ASSUME NEW S, NEW e \in Seq(S), NEW n \in Nat, NEW f \in [1..n -> S]
  PROVE  /\ e \o f \in Seq(S) /\ Len(e) \in Nat /\ DOMAIN (e \o f) = 1..(Len(e) + n)
         /\ \A i \in 1..n : (e \o f)[Len(e) + i] = f[i]
<1>1. f \in Seq(S) /\ Len(f) = n
  OBVIOUS
<1>2. /\ e \o f \in Seq(S) /\ Len(e \o f) = Len(e) + n /\ Len(e) \in Nat
      /\ \A i \in 1..(Len(e) + n) : (e \o f)[i] = IF i <= Len(e) THEN e[i] ELSE f[i - Len(e)]
  BY <1>1, ConcatProperties, LenProperties
<1>3. DOMAIN (e \o f) = 1..(Len(e) + n)
  BY <1>2, LenProperties
<1>4. ASSUME NEW i \in 1..n PROVE (e \o f)[Len(e) + i] = f[i]
  <2>1. /\ Len(e) + i \in 1..(Len(e) + n) /\ ~(Len(e) + i <= Len(e))
        /\ (Len(e) + i) - Len(e) = i
    BY <1>2
  <2>2. QED
    BY <1>2, <2>1
<1>5. QED
  BY <1>2, <1>3, <1>4

\* The two parts of a stack entry.
LEMMA EntryFields ==
  ASSUME NEW W, NEW C
  PROVE  StackEntry(W, C).witness = W /\ StackEntry(W, C).clause = C
BY DEF StackEntry

\* The clauses B, in the order s, are the entries from m + 1 to m + n of the stack e1.
AllOn(e, e1, m, n, s, B, lit) ==
  /\ Len(e) = m /\ DOMAIN e1 = 1..(m + n)
  /\ \A i \in 1..n : s[i] \in B /\ e1[m + i] = StackEntry({lit}, s[i])
  /\ \A C \in B : \E i \in 1..n : s[i] = C

\* Blocked clauses that are pushed in any order are each redundant in what is left and the
\* ones pushed later.
LEMMA PushedWeakens ==
  ASSUME FormulasAssumption, NEW F \in SUBSET ProperClauses, NEW lit \in Lits,
         NEW B \in SUBSET occs(F, lit), \A C \in B : \A D \in occs(F, -lit) : Clashes(C, D, lit),
         NEW fr, Var(lit) \notin fr, NEW e, NEW e1, NEW m \in Nat, NEW n \in Nat, NEW s,
         AllOn(e, e1, m, n, s, B, lit)
  PROVE  Weakens(F, e, F \ B, e1, fr)
<1> DEFINE new == {i \in DOMAIN e1 : i > m}
           later(i) == (F \ B) \cup {e1[j].clause : j \in {k \in new : k >= i}}
<1>1. B \in SUBSET ProperClauses /\ \A C \in B : lit \in C /\ C \in F
  BY DEF occs
<1>2. ASSUME NEW i \in new
      PROVE  e1[i].witness = {lit} /\ e1[i].clause \in B
  <2>1. i \in 1..(m + n) /\ i > m
    BY DEF AllOn
  <2> HIDE DEF new
  <2>2. i - m \in 1..n /\ m + (i - m) = i
    BY <2>1
  <2>3. e1[i] = StackEntry({lit}, s[i - m]) /\ s[i - m] \in B
    BY <2>2 DEF AllOn
  <2>4. QED
    BY <2>3, EntryFields
<1>3. \A i \in 1..n : m + i \in new /\ m + i >= m + 1 /\ e1[m + i].clause = s[i]
  <2>1. TAKE i \in 1..n
  <2>2. m + i \in new /\ m + i >= m + 1
    BY DEF AllOn
  <2>3. e1[m + i] = StackEntry({lit}, s[i])
    BY DEF AllOn
  <2>4. e1[m + i].clause = s[i]
    BY <2>3, EntryFields
  <2>5. QED
    BY <2>2, <2>4
<1> HIDE DEF new
<1>4. \A i : later(i) \subseteq F
  BY <1>1, <1>2
<1>5. \A C \in B : C \in later(m + 1)
  <2>1. TAKE C \in B
  <2>2. PICK i \in 1..n : s[i] = C
    BY DEF AllOn
  <2>3. m + i \in new /\ m + i >= m + 1 /\ e1[m + i].clause = C
    BY <1>3, <2>2
  <2>4. QED
    BY <2>3
<1> HIDE DEF later
<1>6. ASSUME NEW i \in new
      PROVE  /\ RedundantWith(e1[i].clause, e1[i].witness, later(i))
             /\ \A l \in e1[i].witness : Var(l) \notin fr
  <2>1. \A D \in occs(later(i), -lit) : Clashes(e1[i].clause, D, lit)
    BY <1>2, <1>4 DEF occs
  <2>2. later(i) \in SUBSET ProperClauses /\ e1[i].clause \in ProperClauses /\ lit \in e1[i].clause
    BY <1>1, <1>2, <1>4
  <2>3. RedundantWith(e1[i].clause, {lit}, later(i))
    BY <2>1, <2>2, BlockedRedundant
  <2>4. QED
    BY <1>2, <2>3
<1>7. ASSUME NEW C \in F \ (F \ B) PROVE Implies(later(m + 1), C)
  <2>1. C \in later(m + 1)
    BY <1>5, <1>7
  <2>2. QED
    BY <2>1 DEF Implies, Models, Satisfies
<1>8. QED
  BY <1>6, <1>7 DEF Weakens, new, later, AllOn

\* block_literal pushes them all.
LEMMA BlockedWeakens ==
  ASSUME FormulasAssumption, NEW F \in SUBSET ProperClauses, NEW lit \in Lits,
         NEW B \in SUBSET occs(F, lit), \A C \in B : \A D \in occs(F, -lit) : Clashes(C, D, lit),
         NEW e \in Seq(Entries), NEW fr, Var(lit) \notin fr, NEW f,
         f = [i \in 1..Cardinality(B) |-> StackEntry({lit}, SetToSeq(B)[i])]
  PROVE  Weakens(F, e, F \ B, e \o f, fr) /\ e \o f \in Seq(Entries)
<1>1. IsFiniteSet(B) /\ \A C \in B : C \subseteq Lits
  <2>1. B \in SUBSET ProperClauses
    BY DEF occs
  <2>2. QED
    BY <2>1, ClauseFacts, FS_Subset
<1>2. PICK n, s : /\ n \in Nat /\ n = Cardinality(B) /\ s = SetToSeq(B)
                  /\ \A i \in 1..n : s[i] \in B
                  /\ \A C \in B : \E i \in 1..n : s[i] = C
  BY <1>1, AllPushed
<1>3. \A i \in 1..n : StackEntry({lit}, s[i]) \in Entries
  BY <1>1, <1>2 DEF StackEntry, Entries
<1>4. f = [i \in 1..n |-> StackEntry({lit}, s[i])]
  BY <1>2
<1>5. f \in [1..n -> Entries] /\ \A i \in 1..n : f[i] = StackEntry({lit}, s[i])
  BY <1>3, <1>4
<1>6. /\ e \o f \in Seq(Entries) /\ Len(e) \in Nat /\ DOMAIN (e \o f) = 1..(Len(e) + n)
      /\ \A i \in 1..n : (e \o f)[Len(e) + i] = f[i]
  <2>1. n \in Nat /\ f \in [1..n -> Entries] /\ e \in Seq(Entries)
    BY <1>2, <1>5
  <2>2. QED
    BY ONLY <2>1, Pushed
<1>7. \A i \in 1..n : s[i] \in B /\ (e \o f)[Len(e) + i] = StackEntry({lit}, s[i])
  BY <1>2, <1>5, <1>6
<1>8. Weakens(F, e, F \ B, e \o f, fr)
  <2>1. PICK m, e1 : m \in Nat /\ m = Len(e) /\ e1 = e \o f
    BY <1>6
  <2>2. DOMAIN e1 = 1..(m + n)
    BY <1>6, <2>1
  <2>3. \A i \in 1..n : s[i] \in B /\ e1[m + i] = StackEntry({lit}, s[i])
    BY <1>7, <2>1
  <2>4. Len(e) = m /\ \A C \in B : \E i \in 1..n : s[i] = C
    BY <1>2, <2>1
  <2>5. AllOn(e, e1, m, n, s, B, lit)
    BY <1>2, <2>1, <2>2, <2>3, <2>4 DEF AllOn
  <2>6. Weakens(F, e, F \ B, e1, fr)
    BY <1>2, <2>1, <2>5, PushedWeakens
  <2>7. QED
    BY <2>1, <2>6
<1>9. QED
  BY <1>6, <1>8

\* Nothing changes.
LEMMA SameWeakens ==
  ASSUME NEW F, NEW e \in Seq(Entries), NEW fr
  PROVE  Weakens(F, e, F, e, fr)
<1>1. {i \in DOMAIN e : i > Len(e)} = {}
  OBVIOUS
<1>2. QED
  BY <1>1 DEF Weakens

-----------------------------------------------------------------------------
(***************************************************************************)
(* The invariant.  A literal that neither its bit nor the schedule         *)
(* remembers has nothing to block: that is what has to hold between runs,  *)
(* with the literals that were frozen in one run and are not in the next,  *)
(* and within a run of those that are not frozen.                          *)
(***************************************************************************)
Scheduling == schedule \subseteq Lits /\ \A lit \in schedule : Var(lit) \notin frozen

Remembered ==
  pc # "stopped" =>
    \A lit \in Lits \ skip :
      \/ Var(lit) \in pure \/ lit \in block
      \/ pc = "block" /\ lit \in schedule
      \/ Spent(irr, lit)

Tried ==
  pc \in {"block", "done"} =>
    \A lit \in Lits \ skip :
      \/ Var(lit) \in frozen \cup pure
      \/ pc = "block" /\ lit \in schedule
      \/ Spent(irr, lit)

IInv ==
  /\ TypeOK
  /\ extension \in Seq(Entries) /\ noccs \in [Lits -> Int]
  /\ Scheduling /\ Remembered /\ Tried

\* The first run tries everything.
LEMMA InitIInv ==
  ASSUME FormulasAssumption, Init
  PROVE  IInv
<1>1. irr \subseteq ProperClauses /\ red \subseteq ProperClauses
  BY DEF Init, FormulasAssumption
<1>2. TypeOK
  BY <1>1 DEF Init, TypeOK
<1>3. extension \in Seq(Entries) /\ noccs \in [Lits -> Int]
  BY DEF Init
<1>4. Scheduling /\ Remembered /\ Tried
  BY DEF Init, Scheduling, Remembered, Tried
<1>5. QED
  BY <1>2, <1>3, <1>4 DEF IInv

\* A new run: what is not scheduled although it could be has nothing to block.
LEMMA ScheduleStep ==
  ASSUME FormulasAssumption, IInv, block_schedule
  PROVE  IInv'
<1> DEFINE cands == {lit \in Lits : Active(lit) /\ Var(lit) \notin frozen' /\ lit \notin skip'}
<1>1. /\ pc = "idle" /\ pc' = "block" /\ skip' = skip \cup UNION {Neg(C) : C \in Large(irr)}
      /\ noccs' = [lit \in Lits |-> Cardinality(occs(irr, lit))]
      /\ schedule' = cands \cap block /\ block' = block \ cands
      /\ UNCHANGED <<irr, red, extension, pure, changes>>
  BY DEF block_schedule
<1>2. skip' \subseteq Lits
  <2>1. \A C \in irr : Neg(C) \subseteq Lits
    BY ClauseFacts, LitFacts DEF IInv, TypeOK, Neg
  <2>2. QED
    BY <1>1, <2>1 DEF IInv, TypeOK, Large
<1>3. \A lit \in Lits : Cardinality(occs(irr, lit)) \in Nat
  BY OccsFacts DEF IInv, TypeOK
<1>4. TypeOK' /\ extension' \in Seq(Entries) /\ noccs' \in [Lits -> Int]
  BY <1>1, <1>2, <1>3 DEF IInv, TypeOK, occs
<1>5. Scheduling'
  BY <1>1 DEF Scheduling
<1>6. \A lit \in Lits \ skip' : Var(lit) \in pure \/ lit \in block \/ Spent(irr, lit)
  BY <1>1 DEF IInv, Remembered
<1>7. \A lit : Spent(irr, lit)' = Spent(irr, lit)
  BY <1>1 DEF Spent, occs, Large, SizeOk, Clashes
<1>8. Remembered'
  BY <1>1, <1>6, <1>7 DEF Remembered
<1>9. Tried'
  BY <1>1, <1>6, <1>7 DEF Tried, Active
<1>10. QED
  BY <1>4, <1>5, <1>8, <1>9 DEF IInv

\* block_literal, when it does not return early.
Removal(lit, B) ==
  /\ B = Blocked(lit)
  /\ irr' = irr \ B
  /\ extension' = extension \o [i \in 1..Cardinality(B) |-> StackEntry({lit}, SetToSeq(B)[i])]
  /\ pure' = IF noccs[-lit] = 0 THEN pure \cup {Var(lit)} ELSE pure
  /\ block' = (block \cup Neg(UNION B)) \ {lit}
  /\ noccs' = Decremented(B)
  /\ schedule' = (schedule \ {lit}) \cup {other \in Rescheduled(B) : Var(other) \notin pure'}
  /\ UNCHANGED <<red, frozen, skip, pc, changes>>

\* What is blocked on lit goes with lit as witness; whatever this may make blocked is
\* marked, and scheduled unless it is frozen.
LEMMA RemovalStep ==
  ASSUME FormulasAssumption, OptionsAssumption, IInv, pc = "block", NEW lit \in schedule, NEW B,
         ~(noccs[-lit] > blockocclim), Removal(lit, B)
  PROVE  IInv' /\ WeakenContract
<1>1. /\ irr \in SUBSET ProperClauses /\ lit \in Lits /\ -lit \in Lits /\ Var(lit) \in Vars
      /\ \A l \in Lits : noccs[l] = Cardinality(occs(irr, l))
  BY LitFacts DEF IInv, TypeOK, Scheduling, Lits, Var, FormulasAssumption
<1>2. /\ B \subseteq occs(irr, lit) /\ \A C \in B : is_blocked_clause(C, lit)
      /\ Spent(irr \ B, lit)
  BY <1>1, BlockedFacts DEF Removal
<1>3. B \in SUBSET irr /\ UNION B \subseteq Lits /\ \A C \in B : lit \in C
  BY <1>1, <1>2, ClauseFacts DEF occs
<1>4. /\ irr' = irr \ B /\ block' = (block \cup Neg(UNION B)) \ {lit}
      /\ schedule' = (schedule \ {lit}) \cup {other \in Rescheduled(B) : Var(other) \notin pure'}
      /\ pure \subseteq pure' /\ pure' \subseteq Vars
      /\ UNCHANGED <<red, frozen, skip, pc, changes>>
  BY <1>1 DEF Removal, IInv, TypeOK
<1>5. Weakens(irr, extension, irr \ B, extension', frozen) /\ extension' \in Seq(Entries)
  <2>1. \A C \in B : \A D \in occs(irr, -lit) : Clashes(C, D, lit)
    BY <1>2 DEF is_blocked_clause
  <2>2. Var(lit) \notin frozen /\ extension \in Seq(Entries)
    BY DEF IInv, Scheduling
  <2>3. extension' = extension \o [i \in 1..Cardinality(B) |-> StackEntry({lit}, SetToSeq(B)[i])]
    BY DEF Removal
  <2>4. QED
    BY <1>1, <1>2, <2>1, <2>2, <2>3, BlockedWeakens
<1>6. \A l \in Lits : noccs'[l] = Cardinality(occs(irr \ B, l)) /\ noccs'[l] \in Int
  <2>1. TAKE l \in Lits
  <2>2. noccs'[l] = noccs[l] - Cardinality(occs(B, l))
    BY DEF Removal, Decremented
  <2>3. /\ occs(irr \ B, l) = occs(irr, l) \ occs(B, l)
        /\ occs(irr, l) \cap occs(B, l) = occs(B, l)
    BY <1>3 DEF occs
  <2>4. IsFiniteSet(occs(irr, l)) /\ Cardinality(occs(irr, l)) \in Nat
    BY <1>1, OccsFacts
  <2>5. IsFiniteSet(occs(B, l)) /\ Cardinality(occs(B, l)) \in Nat
    BY <1>1, <1>3, OccsFacts
  <2>6. Cardinality(occs(irr \ B, l)) = Cardinality(occs(irr, l)) - Cardinality(occs(B, l))
    BY <2>3, <2>4, FS_Difference
  <2>7. QED
    BY <1>1, <2>2, <2>4, <2>5, <2>6
<1>7. noccs' \in [Lits -> Int]
  <2>1. noccs' = [l \in Lits |-> noccs[l] - Cardinality(occs(B, l))]
    BY DEF Removal, Decremented
  <2>2. QED
    BY <1>6, <2>1
<1>8. Neg(UNION B) \subseteq Lits /\ \A l \in Lits : -l \in UNION B => l \in Neg(UNION B)
  BY <1>3, LitFacts DEF Neg
<1>9. TypeOK'
  <2>1. irr' \subseteq ProperClauses /\ red' \subseteq ProperClauses /\ pure' \subseteq Vars
    BY <1>1, <1>4 DEF IInv, TypeOK
  <2>2. block' \subseteq Lits /\ skip' \subseteq Lits /\ pc' = "block"
    BY <1>4, <1>8 DEF IInv, TypeOK
  <2>3. \A l \in Lits : noccs'[l] = Cardinality(occs(irr', l))
    BY <1>4, <1>6
  <2>4. QED
    BY <2>1, <2>2, <2>3 DEF TypeOK
<1>10. \A l \in Rescheduled(B) : l \in Lits /\ Var(l) \notin frozen
  BY <1>3, LitFacts DEF Rescheduled
<1>11. Scheduling'
  BY <1>4, <1>10 DEF IInv, Scheduling
<1>12. \A l \in Lits : Spent(irr, l) /\ -l \notin UNION B => Spent(irr \ B, l)
  BY <1>1, <1>3, SpentLess
<1>13. Remembered'
  <2>1. SUFFICES ASSUME NEW l \in Lits \ skip, Var(l) \notin pure'
                 PROVE  l \in block' \/ l \in schedule' \/ Spent(irr \ B, l)
    BY <1>4 DEF Remembered
  <2>2. CASE l = lit
    BY <1>2, <2>2
  <2>3. CASE l # lit /\ -l \in UNION B
    BY <1>4, <1>8, <2>3
  <2>4. CASE l # lit /\ -l \notin UNION B
    <3>1. l \in block \/ l \in schedule \/ Spent(irr, l)
      BY <1>4, <2>1 DEF IInv, Remembered
    <3>2. QED
      BY <1>4, <1>12, <2>4, <3>1
  <2>5. QED
    BY <2>2, <2>3, <2>4
<1>14. Tried'
  <2>1. SUFFICES ASSUME NEW l \in Lits \ skip, Var(l) \notin frozen \cup pure'
                 PROVE  l \in schedule' \/ Spent(irr \ B, l)
    BY <1>4 DEF Tried
  <2>2. CASE l = lit
    BY <1>2, <2>2
  <2>3. CASE l # lit /\ -l \in UNION B
    <3>1. -(-l) = l /\ Var(-l) = Var(l)
      BY LitFacts
    <3>2. Active(-l) /\ Var(-l) \notin frozen /\ -(-l) \notin skip
      BY <1>4, <2>1, <3>1 DEF Active
    <3>3. l \in Rescheduled(B)
      BY <2>3, <3>1, <3>2 DEF Rescheduled
    <3>4. QED
      BY <1>4, <2>1, <3>3
  <2>4. CASE l # lit /\ -l \notin UNION B
    <3>1. l \in schedule \/ Spent(irr, l)
      BY <1>4, <2>1 DEF IInv, Tried
    <3>2. QED
      BY <1>4, <1>12, <2>4, <3>1
  <2>5. QED
    BY <2>2, <2>3, <2>4
<1>15. QED
  BY <1>4, <1>5, <1>7, <1>9, <1>11, <1>13, <1>14 DEF IInv, WeakenContract

\* The early returns forget a literal whose negation occurs too often, and no other.
LEMMA EarlyReturnStep ==
  ASSUME FormulasAssumption, OptionsAssumption, IInv, pc = "block", NEW lit \in schedule,
         ~Active(lit) \/ Var(lit) \in frozen \/ noccs[-lit] > blockocclim,
         schedule' = schedule \ {lit},
         UNCHANGED <<irr, extension, pure, block, noccs, red, frozen, skip, pc, changes>>
  PROVE  IInv' /\ WeakenContract
<1>1. lit \in Lits /\ -lit \in Lits /\ noccs[-lit] = Cardinality(occs(irr, -lit))
  BY LitFacts DEF IInv, TypeOK, Scheduling
<1>2. Var(lit) \in pure \/ Spent(irr, lit)
  BY <1>1 DEF IInv, Scheduling, Active, Spent
<1>3. TypeOK' /\ Scheduling'
  BY DEF IInv, TypeOK, Scheduling, occs
<1>4. Remembered' /\ Tried'
  BY <1>2 DEF IInv, Remembered, Tried
<1>5. WeakenContract
  BY SameWeakens DEF IInv, WeakenContract
<1>6. QED
  BY <1>3, <1>4, <1>5 DEF IInv

\* The end of a run.
LEMMA FinishStep ==
  ASSUME IInv, Finish
  PROVE  IInv' /\ WeakenContract
<1>1. /\ pc = "block" /\ pc' = IF schedule = {} THEN "done" ELSE "stopped"
      /\ schedule' = {} /\ red' \subseteq red
      /\ UNCHANGED <<irr, extension, pure, frozen, block, skip, noccs, changes>>
  BY DEF Finish
<1>2. TypeOK' /\ Scheduling'
  BY <1>1 DEF IInv, TypeOK, Scheduling
<1>3. Remembered'
  BY <1>1 DEF IInv, Remembered
<1>4. Tried'
  BY <1>1 DEF IInv, Tried
<1>5. WeakenContract
  BY <1>1, SameWeakens DEF IInv, WeakenContract
<1>6. QED
  BY <1>1, <1>2, <1>3, <1>4, <1>5 DEF IInv

\* mark_removed and mark_added set the bits that the next run needs.
LEMMA ChangeStep ==
  ASSUME FormulasAssumption, OptionsAssumption, IInv,
         (\E C \in irr : Drop(C)) \/ (\E C \in Derived : Derive(C))
  PROVE  IInv'
<1>1. /\ pc = "done" /\ pc' = "idle" /\ irr \in SUBSET ProperClauses
      /\ UNCHANGED <<red, extension, pure, frozen, skip, noccs, schedule>>
  BY DEF IInv, TypeOK, Drop, Derive, Change
<1>2. \A l \in Lits \ skip : Var(l) \in pure \/ l \in block \/ Spent(irr, l)
  BY <1>1 DEF IInv, Remembered
<1>3. ASSUME irr' \subseteq ProperClauses, block' \subseteq Lits,
             \A l \in Lits \ skip : Var(l) \in pure \/ l \in block' \/ Spent(irr', l)
      PROVE  IInv'
  <2>1. TypeOK' /\ Scheduling' /\ Remembered' /\ Tried'
    BY <1>1, <1>3 DEF IInv, TypeOK, Scheduling, Remembered, Tried
  <2>2. QED
    BY <1>1, <2>1 DEF IInv
<1>4. ASSUME NEW C \in irr, Drop(C) PROVE IInv'
  <2>1. irr' = irr \ {C} /\ block' = block \cup Neg(C)
    BY <1>4 DEF Drop
  <2>2. C \subseteq Lits /\ Neg(C) \subseteq Lits /\ \A l \in Lits : -l \in C => l \in Neg(C)
    BY <1>1, <1>4, ClauseFacts, LitFacts DEF Neg
  <2>3. \A l \in Lits : Spent(irr, l) /\ -l \notin C => Spent(irr \ {C}, l)
    BY <1>1, <1>4, SpentLess
  <2>4. QED
    BY <1>1, <1>2, <1>3, <2>1, <2>2, <2>3 DEF IInv, TypeOK
<1>5. ASSUME NEW C \in Derived, Derive(C) PROVE IInv'
  <2>1. irr' = irr \cup {C} /\ block' = block \cup C
    BY <1>5 DEF Derive
  <2>2. C \in ProperClauses /\ C \subseteq Lits
    BY ClauseFacts DEF FormulasAssumption
  <2>3. \A l \in Lits : Spent(irr, l) /\ l \notin C => Spent(irr \cup {C}, l)
    BY <1>1, <2>2, SpentMore
  <2>4. QED
    BY <1>1, <1>2, <1>3, <2>1, <2>2, <2>3 DEF IInv, TypeOK
<1>6. QED
  BY <1>4, <1>5

\* Every step keeps the invariant and, in a run, the contract.
LEMMA StepFacts ==
  ASSUME FormulasAssumption, OptionsAssumption, IInv, Next
  PROVE  IInv' /\ WeakenContract
<1>1. CASE block_schedule
  <2>1. pc # "block"
    BY <1>1 DEF block_schedule
  <2>2. QED
    BY <1>1, <2>1, ScheduleStep DEF WeakenContract
<1>2. CASE Finish
  BY <1>2, FinishStep
<1>3. ASSUME NEW lit \in schedule, block_literal(lit)
      PROVE  IInv' /\ WeakenContract
  <2>1. CASE ~Active(lit) \/ Var(lit) \in frozen \/ noccs[-lit] > blockocclim
    BY <1>3, <2>1, EarlyReturnStep DEF block_literal
  <2>2. CASE ~(~Active(lit) \/ Var(lit) \in frozen \/ noccs[-lit] > blockocclim)
    <3>1. Removal(lit, Blocked(lit)) /\ pc = "block"
      BY <1>3, <2>2 DEF block_literal, Removal
    <3>2. QED
      BY <2>2, <3>1, RemovalStep
  <2>3. QED
    BY <2>1, <2>2
<1>4. CASE (\E C \in irr : Drop(C)) \/ (\E C \in Derived : Derive(C))
  <2>1. pc # "block"
    BY <1>4 DEF Drop, Derive, Change
  <2>2. QED
    BY <1>4, <2>1, ChangeStep DEF WeakenContract
<1>5. QED
  BY <1>1, <1>2, <1>3, <1>4 DEF Next

-----------------------------------------------------------------------------
(***************************************************************************)
(* The invariant holds through all runs of block.                          *)
(***************************************************************************)
THEOREM Invariance ==
  ASSUME FormulasAssumption, OptionsAssumption
  PROVE  Spec => []IInv
<1>1. Init => IInv
  BY InitIInv
<1>2. IInv /\ [Next]_vars => IInv'
  <2>1. ASSUME IInv, UNCHANGED vars PROVE IInv'
    BY <2>1 DEF IInv, TypeOK, Scheduling, Remembered, Tried, vars, Spent, occs, Large, SizeOk, Clashes
  <2>2. QED
    BY <2>1, StepFacts
<1>3. QED
  BY <1>1, <1>2, PTL DEF Spec

(***************************************************************************)
(* Type correctness, and "noccs gives the number of actual occurrences"    *)
(* (block.cpp) throughout a run.                                           *)
(***************************************************************************)
THEOREM TypeCorrect ==
  ASSUME FormulasAssumption, OptionsAssumption
  PROVE  Spec => []TypeOK
<1>1. IInv => TypeOK
  BY DEF IInv
<1>2. QED
  BY <1>1, Invariance, PTL

(***************************************************************************)
(* Each clause that block removes is redundant, with an unfrozen witness,  *)
(* in the clauses that are left and those pushed after it: what            *)
(* External::extend and restore_clauses rely on.                           *)
(***************************************************************************)
THEOREM ContractKept ==
  ASSUME FormulasAssumption, OptionsAssumption
  PROVE  Spec => [][WeakenContract]_vars
<1>1. IInv /\ [Next]_vars => [WeakenContract]_vars
  BY StepFacts
<1>2. QED
  BY <1>1, Invariance, PTL DEF Spec

(***************************************************************************)
(* A run that ends by itself leaves no blocked clause behind but those     *)
(* that a limit protects, although it only tries literals whose bit is     *)
(* set, whatever was frozen in the runs before.                            *)
(***************************************************************************)
THEOREM NothingBlocked ==
  ASSUME FormulasAssumption, OptionsAssumption
  PROVE  Spec => []BlockComplete
<1>1. IInv => BlockComplete
  BY DEF IInv, Tried, BlockComplete, Spent, is_blocked_clause
<1>2. QED
  BY <1>1, Invariance, PTL
=============================================================================
