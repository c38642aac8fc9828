---------------------------- MODULE ChainsProofs ----------------------------
(***************************************************************************)
(* The LRAT checker lets no clause in that does not follow from the        *)
(* original ones, whatever chains, deletions, weakenings and restorations  *)
(* it is given, for every set of variables and chains of any length.       *)
(***************************************************************************)
EXTENDS Chains, FiniteSetTheorems, WellFoundedInduction, SequenceTheorems, TLAPS

-----------------------------------------------------------------------------
(* Literals and sets.                                                      *)

\* Literals come in pairs that are different.
LEMMA LitFacts ==
  ASSUME ChainsAssumption, NEW lit \in Lits
  PROVE  lit \in Int /\ -lit \in Lits /\ -(-lit) = lit /\ -lit # lit
BY DEF ChainsAssumption, Lits

\* A total assignment has exactly one of a literal and its negation.
LEMMA TotalFacts ==
  ASSUME ChainsAssumption, NEW sigma \in Total, NEW lit \in Lits
  PROVE  lit \in sigma <=> -lit \notin sigma
<1>1. PICK P \in SUBSET Vars : sigma = {IF v \in P THEN v ELSE -v : v \in Vars}
  BY DEF Total
<1>2. \A v \in Vars : v \in Int /\ v > 0
  BY DEF ChainsAssumption
<1>3. \A v \in Vars : (v \in sigma <=> v \in P) /\ (-v \in sigma <=> v \notin P)
  <2>1. TAKE v \in Vars
  <2>2. ASSUME NEW u \in Vars PROVE (u = v <=> -u = -v) /\ u # -v /\ -u # v
    BY <1>2
  <2>3. v \in sigma <=> \E u \in Vars : v = IF u \in P THEN u ELSE -u
    BY <1>1
  <2>4. -v \in sigma <=> \E u \in Vars : -v = IF u \in P THEN u ELSE -u
    BY <1>1
  <2>5. QED
    BY <2>2, <2>3, <2>4
<1>4. CASE lit \in Vars
  BY <1>3, <1>4
<1>5. CASE lit \notin Vars
  <2>1. PICK v \in Vars : lit = -v
    BY <1>5 DEF Lits
  <2>2. -lit = v
    BY <1>2, <2>1
  <2>3. QED
    BY <1>3, <2>1, <2>2
<1>6. QED
  BY <1>4, <1>5

\* There are finitely many literals.
LEMMA LitsFinite ==
  ASSUME ChainsAssumption
  PROVE  IsFiniteSet(Lits)
<1>1. IsFiniteSet(Vars)
  BY DEF ChainsAssumption
<1> DEFINE f == [v \in Vars |-> -v]
<1>2. f \in Surjection(Vars, {-v : v \in Vars})
  BY DEF Surjection
<1>3. IsFiniteSet({-v : v \in Vars})
  BY <1>1, <1>2, FS_Surjection
<1>4. QED
  BY <1>1, <1>3, FS_Union DEF Lits

\* The only element of a set that has no two.
LEMMA OnlyOne ==
  ASSUME NEW S, IsFiniteSet(S), NEW x \in S, ~(Cardinality(S) > 1)
  PROVE  S = {x}
<1>1. Cardinality(S) \in Nat /\ IsFiniteSet(S \ {x})
  BY FS_CardinalityType, FS_RemoveElement
<1>2. Cardinality(S \ {x}) = Cardinality(S) - 1 /\ Cardinality(S \ {x}) \in Nat
  BY <1>1, FS_RemoveElement, FS_CardinalityType
<1>3. Cardinality(S \ {x}) = 0
  BY <1>1, <1>2
<1>4. S \ {x} = {}
  BY <1>1, <1>3, FS_EmptySet
<1>5. QED
  BY <1>4

\* A set of numbers that is not empty has a least element.
LEMMA LeastNumber ==
  ASSUME NEW T \in SUBSET Nat, T # {}
  PROVE  \E n \in T : \A m \in T : n <= m
<1>1. IsWellFoundedOn(OpToRel(<, Nat), Nat)
  BY NatLessThanWellFounded
<1>2. PICK n \in T : \A m \in T : ~ (<<m, n>> \in OpToRel(<, Nat))
  BY <1>1, WFMin
<1>3. \A m \in T : <<m, n>> \in Nat \X Nat /\ ~(m < n)
  BY <1>2 DEF OpToRel
<1>4. ASSUME NEW m \in T PROVE n <= m
  <2>1. m \in Nat /\ n \in Nat /\ ~(m < n)
    BY <1>3
  <2>2. QED
    BY <2>1
<1>5. QED
  BY <1>4

-----------------------------------------------------------------------------
(* The check of a chain.                                                   *)

States == [status : {"open", "failed", "conflict"}, true : SUBSET Lits, used : SUBSET Nat]

Table == UNION {[D -> Seq(Lits)] : D \in SUBSET Nat}

\* The clauses of a table follow from F.
Implied(F, t) == \A id \in DOMAIN t : Implies(F, Range(t[id]))

\* What a table has.
LEMMA TableFacts ==
  ASSUME NEW t \in Table
  PROVE  /\ DOMAIN t \subseteq Nat
         /\ \A id \in DOMAIN t : t[id] \in Seq(Lits) /\ Range(t[id]) \subseteq Lits
<1>1. PICK D \in SUBSET Nat : t \in [D -> Seq(Lits)]
  BY DEF Table
<1>2. ASSUME NEW id \in DOMAIN t PROVE t[id] \in Seq(Lits) /\ Range(t[id]) \subseteq Lits
  <2>1. t[id] \in Seq(Lits)
    BY <1>1
  <2>2. QED
    BY <2>1 DEF Range
<1>3. QED
  BY <1>1, <1>2

\* A clause that is added to a table.
LEMMA WithFacts ==
  ASSUME NEW t \in Table, NEW id \in Nat, NEW lits \in Seq(Lits)
  PROVE  /\ With(t, id, lits) \in Table
         /\ \A F : Implied(F, t) /\ Implies(F, Range(lits)) => Implied(F, With(t, id, lits))
<1>1. PICK D \in SUBSET Nat : t \in [D -> Seq(Lits)]
  BY DEF Table
<1>2. With(t, id, lits) \in [D \cup {id} -> Seq(Lits)] /\ D \cup {id} \in SUBSET Nat
  BY <1>1 DEF With
<1>3. With(t, id, lits) \in Table
  BY <1>2 DEF Table
<1>4. ASSUME NEW F, Implied(F, t), Implies(F, Range(lits)) PROVE Implied(F, With(t, id, lits))
  <2>1. ASSUME NEW x \in DOMAIN With(t, id, lits) PROVE Implies(F, Range(With(t, id, lits)[x]))
    <3>1. CASE x = id
      BY <1>4, <3>1 DEF With
    <3>2. CASE x # id
      BY <1>4, <3>2 DEF With, Implied
    <3>3. QED
      BY <3>1, <3>2
  <2>2. QED
    BY <2>1 DEF Implied
<1>5. QED
  BY <1>3, <1>4

\* A clause that is taken out.
LEMMA WithoutFacts ==
  ASSUME NEW t \in Table, NEW id
  PROVE  /\ [x \in DOMAIN t \ {id} |-> t[x]] \in Table
         /\ \A F : Implied(F, t) => Implied(F, [x \in DOMAIN t \ {id} |-> t[x]])
<1>1. PICK D \in SUBSET Nat : t \in [D -> Seq(Lits)]
  BY DEF Table
<1>2. [x \in DOMAIN t \ {id} |-> t[x]] \in [D \ {id} -> Seq(Lits)] /\ D \ {id} \in SUBSET Nat
  BY <1>1
<1>3. QED
  BY <1>2 DEF Table, Implied

\* A step of the check stays within an assignment that satisfies the clauses.
LEMMA LrupStepFacts ==
  ASSUME ChainsAssumption, NEW c, c.clauses \in Table, NEW s \in States, NEW id \in Nat
  PROVE  /\ LrupStep(c, s, id) \in States
         /\ \A sigma \in Total :
              /\ \A x \in DOMAIN c.clauses : Range(c.clauses[x]) \cap sigma # {}
              /\ s.true \subseteq sigma /\ s.status # "conflict"
              => LrupStep(c, s, id).true \subseteq sigma /\ LrupStep(c, s, id).status # "conflict"
<1> DEFINE lits == Range(c.clauses[id])
           open == {lit \in lits : -lit \notin s.true}
           t == LrupStep(c, s, id)
<1>1. CASE s.status # "open" \/ id \notin DOMAIN c.clauses \/ id \in s.used
           \/ Tautological(lits) \/ Cardinality(open) > 1
  <2>1. t = s \/ t = [status |-> "failed", true |-> s.true, used |-> s.used]
    BY <1>1 DEF LrupStep
  <2> HIDE DEF t
  <2>2. t \in States /\ t.true = s.true /\ (s.status # "conflict" => t.status # "conflict")
    BY <2>1 DEF States
  <2>3. QED
    BY <2>2 DEF t
<1>2. CASE ~(s.status # "open" \/ id \notin DOMAIN c.clauses \/ id \in s.used
             \/ Tautological(lits) \/ Cardinality(open) > 1)
  <2>1. /\ open = {} => t = [status |-> "conflict", true |-> s.true, used |-> s.used]
        /\ open # {} => t = [status |-> "open", true |-> s.true \cup open, used |-> s.used \cup {id}]
    BY <1>2 DEF LrupStep
  <2>2. lits \subseteq Lits
    BY <1>2, TableFacts
  <2> HIDE DEF lits, t
  <2>3. t \in States
    BY <2>1, <2>2 DEF States
  <2>4. ASSUME NEW sigma \in Total, lits \cap sigma # {}, s.true \subseteq sigma
        PROVE  t.true \subseteq sigma /\ t.status # "conflict"
    <3>1. PICK lit \in lits : lit \in sigma
      BY <2>4
    <3>2. lit \in open
      BY <2>2, <2>4, <3>1, TotalFacts
    <3>3. IsFiniteSet(open)
      BY <2>2, LitsFinite, FS_Subset
    <3>4. open = {lit}
      BY <1>2, <3>2, <3>3, OnlyOne
    <3> HIDE DEF open
    <3>5. t = [status |-> "open", true |-> s.true \cup open, used |-> s.used \cup {id}]
      BY <2>1, <3>4
    <3>6. t.true = s.true \cup {lit} /\ t.status = "open"
      BY <3>4, <3>5
    <3>7. QED
      BY <1>2, <2>4, <3>1, <3>6
  <2>5. QED
    BY <1>2, <2>3, <2>4 DEF lits, t
<1>3. QED
  BY <1>1, <1>2

\* The loop of check, as the recursion of Check has it.
Start(lits) == [status |-> "open", true |-> Neg(Range(lits)), used |-> {}]

IsLoop(c, lits, chain, f, n) ==
  f = [i \in 0..n |-> IF i = 0 THEN Start(lits) ELSE LrupStep(c, f[i - 1], chain[i])]

\* The recursion defines a function.
LEMMA LoopExists ==
  ASSUME NEW c, NEW lits, NEW chain, NEW len \in Nat
  PROVE  \E f : IsLoop(c, lits, chain, f, len)
<1> DEFINE bad == {n \in Nat : ~ \E f : IsLoop(c, lits, chain, f, n)}
<1>1. ASSUME bad # {} PROVE FALSE
  <2>1. PICK n \in bad : \A m \in bad : n <= m
    <3> HIDE DEF bad
    <3>1. bad \in SUBSET Nat
      BY DEF bad
    <3>2. QED
      BY <1>1, <3>1, LeastNumber
  <2>2. n \in Nat
    OBVIOUS
  <2>3. n # 0
    <3>1. SUFFICES ASSUME n = 0 PROVE \E f : IsLoop(c, lits, chain, f, n)
      BY <2>1
    <3> DEFINE g == [i \in 0..0 |-> Start(lits)]
    <3>2. IsLoop(c, lits, chain, g, n)
      BY <3>1 DEF IsLoop
    <3>3. QED
      BY <3>2
  <2>4. n - 1 \in Nat /\ n - 1 \notin bad
    <3> HIDE DEF bad
    <3>1. QED
      BY <2>1, <2>2, <2>3
  <2>5. PICK f : IsLoop(c, lits, chain, f, n - 1)
    BY <2>4
  <2> DEFINE g == [i \in 0..n |-> IF i = n THEN LrupStep(c, f[n - 1], chain[n]) ELSE f[i]]
  <2>6. \A i \in 0..n - 1 : f[i] = IF i = 0 THEN Start(lits) ELSE LrupStep(c, f[i - 1], chain[i])
    BY <2>5 DEF IsLoop
  <2>7. ASSUME NEW i \in 0..n
        PROVE  g[i] = IF i = 0 THEN Start(lits) ELSE LrupStep(c, g[i - 1], chain[i])
    <3>1. i # 0 => i - 1 \in 0..n /\ i - 1 # n /\ g[i - 1] = f[i - 1]
      BY <2>2
    <3>2. i # n => i \in 0..n - 1
      BY <2>2
    <3>3. QED
      BY <2>3, <2>6, <3>1, <3>2
  <2>8. IsLoop(c, lits, chain, g, n)
    <3>1. g = [i \in 0..n |-> g[i]]
      OBVIOUS
    <3> HIDE DEF g
    <3>2. QED
      BY <2>7, <3>1 DEF IsLoop
  <2>9. QED
    BY <2>1, <2>8
<1>2. QED
  BY <1>1

\* A total assignment satisfies the clauses of the checker and none of the literals.
Refutes(sigma, c, lits) ==
  /\ sigma \in Total /\ Range(lits) \cap sigma = {}
  /\ \A x \in DOMAIN c.clauses : Range(c.clauses[x]) \cap sigma # {}

\* Then there is no conflict.
LEMMA LoopWithin ==
  ASSUME ChainsAssumption, NEW c, c.clauses \in Table, NEW lits \in Seq(Lits), NEW len \in Nat,
         NEW chain, \A i \in 1..len : chain[i] \in Nat,
         NEW f, IsLoop(c, lits, chain, f, len), NEW sigma, Refutes(sigma, c, lits)
  PROVE  f[len].status # "conflict"
<1> USE DEF Refutes
<1> DEFINE Good(s) == s \in States /\ s.true \subseteq sigma /\ s.status # "conflict"
           bad == {n \in 0..len : ~Good(f[n])}
<1>1. /\ f[0] = Start(lits)
      /\ \A i \in 1..len : i - 1 \in 0..len /\ f[i] = LrupStep(c, f[i - 1], chain[i])
  BY DEF IsLoop
<1>2. Good(f[0])
  <2>1. Range(lits) \subseteq Lits
    BY DEF Range
  <2>2. Neg(Range(lits)) \subseteq Lits /\ Neg(Range(lits)) \subseteq sigma
    BY <2>1, LitFacts, TotalFacts DEF Neg
  <2>3. QED
    BY <1>1, <2>2 DEF Start, States
<1>3. ASSUME NEW i \in 1..len, Good(f[i - 1]) PROVE Good(f[i])
  <2>1. LrupStep(c, f[i - 1], chain[i]) \in States
    BY <1>3, LrupStepFacts
  <2>2. /\ LrupStep(c, f[i - 1], chain[i]).true \subseteq sigma
        /\ LrupStep(c, f[i - 1], chain[i]).status # "conflict"
    BY <1>3, LrupStepFacts
  <2>3. QED
    BY <1>1, <2>1, <2>2
<1> HIDE DEF Good
<1>4. ASSUME bad # {} PROVE FALSE
  <2>1. bad \in SUBSET Nat
    OBVIOUS
  <2>2. PICK n \in bad : \A m \in bad : n <= m
    <3> HIDE DEF bad
    <3>1. QED
      BY <1>4, <2>1, LeastNumber
  <2>3. n \in 1..len /\ n - 1 \in 0..len /\ ~(n <= n - 1)
    BY <1>2, <2>2
  <2>4. Good(f[n - 1])
    BY <2>2, <2>3
  <2>5. QED
    BY <1>3, <2>2, <2>3, <2>4
<1>5. QED
  BY <1>4 DEF Good

\* What check accepts follows from the clauses of the table.
LEMMA CheckSound ==
  ASSUME ChainsAssumption, NEW c, c.clauses \in Table, NEW lits \in Seq(Lits), NEW chain \in Seq(Nat),
         NEW F, Implied(F, c.clauses), Check(c, lits, chain)
  PROVE  Implies(F, Range(lits))
<1>1. SUFFICES ASSUME NEW sigma \in Models(F), Range(lits) \cap sigma = {} PROVE FALSE
  BY DEF Implies
<1>2. sigma \in Total /\ Range(lits) \subseteq Lits
  BY DEF Models, Range
<1>3. \A x \in DOMAIN c.clauses : Range(c.clauses[x]) \cap sigma # {}
  BY DEF Implied, Implies
<1>4. ~Tautological(Range(lits))
  BY <1>1, <1>2, TotalFacts DEF Tautological
<1> DEFINE len == Len(chain)
           after == CHOOSE f : IsLoop(c, lits, chain, f, len)
<1>5. len \in Nat /\ \A i \in 1..len : chain[i] \in Nat
  OBVIOUS
<1>6. IsLoop(c, lits, chain, after, len)
  BY <1>5, LoopExists, Zenon
<1>7. after[len].status = "conflict"
  BY <1>4 DEF Check, IsLoop, Start
<1> HIDE DEF after, len
<1>8. after[len].status # "conflict"
  <2>1. Refutes(sigma, c, lits)
    BY <1>1, <1>2, <1>3 DEF Refutes
  <2>2. QED
    BY <1>5, <1>6, <2>1, LoopWithin
<1>9. QED
  BY <1>7, <1>8

-----------------------------------------------------------------------------
(* The calls of the tracer.                                                *)

\* The fields that matter here: a record is not told from others by more.
Fields(c) == "clauses" \in DOMAIN c /\ "weakened" \in DOMAIN c /\ "fatal" \in DOMAIN c

\* The tables and the verdict of d are those of c.
Same(c, d) ==
  Fields(d) /\ d.clauses = c.clauses /\ d.weakened = c.weakened /\ d.fatal = c.fatal

\* The tables are there, and follow from F as long as nothing has failed.
Sound(F, c) ==
  /\ Fields(c) /\ c.clauses \in Table /\ c.weakened \in Table
  /\ c.fatal = "no" => Implied(F, c.clauses) /\ Implied(F, c.weakened)

\* A failed check leaves the tables alone.
LEMMA FailedFacts ==
  ASSUME NEW c, Fields(c), NEW what, what # "no"
  PROVE  /\ Fields(Failed(c, what)) /\ Failed(c, what).fatal # "no"
         /\ Failed(c, what).clauses = c.clauses /\ Failed(c, what).weakened = c.weakened
<1>1. PICK v : v = IF c.fatal = "no" THEN what ELSE c.fatal
  OBVIOUS
<1>2. v # "no"
  BY <1>1
<1>3. Failed(c, what) = [c EXCEPT !.fatal = v]
  BY <1>1, Zenon DEF Failed
<1>4. QED
  BY <1>2, <1>3, Zenon DEF Fields

\* Room for more variables and the last id are of no account.
LEMMA EnlargeFacts ==
  ASSUME NEW c, Fields(c), NEW lits, NEW id
  PROVE  /\ Same(c, [CheckerEnlarge(c, lits) EXCEPT !.current_id = id])
         /\ Same(c, CheckerEnlarge(c, lits))
<1>1. PICK v : CheckerEnlarge(c, lits) = [c EXCEPT !.size_vars = v]
  BY Zenon DEF CheckerEnlarge
<1>2. Same(c, CheckerEnlarge(c, lits))
  BY <1>1, Zenon DEF Same, Fields
<1>3. QED
  BY <1>2, Zenon DEF Same, Fields

\* A new clause in the hash table.
LEMMA InsertedFacts ==
  ASSUME NEW c, Fields(c), NEW id, NEW lits
  PROVE  /\ Fields(CheckerInserted(c, id, lits))
         /\ CheckerInserted(c, id, lits).clauses = With(c.clauses, id, lits)
         /\ CheckerInserted(c, id, lits).weakened = c.weakened
         /\ CheckerInserted(c, id, lits).fatal = c.fatal
<1>1. PICK v, w, t : /\ t = With(c.clauses, id, lits)
                     /\ CheckerInserted(c, id, lits) =
                          [c EXCEPT !.clauses = t, !.num_clauses = v, !.size_clauses = w]
  BY Zenon DEF CheckerInserted
<1>2. QED
  BY <1>1, Zenon DEF Fields

\* What is inserted into a sound checker has to follow, unless it has failed.
LEMMA InsertedSound ==
  ASSUME NEW F, NEW c, Sound(F, c), NEW id \in Nat, NEW lits \in Seq(Lits),
         c.fatal = "no" => Implies(F, Range(lits))
  PROVE  Sound(F, CheckerInserted(c, id, lits))
<1> DEFINE d == CheckerInserted(c, id, lits)
<1>1. /\ Fields(d) /\ d.clauses = With(c.clauses, id, lits) /\ d.weakened = c.weakened
      /\ d.fatal = c.fatal
  BY InsertedFacts DEF Sound
<1> HIDE DEF d
<1>2. With(c.clauses, id, lits) \in Table
  BY WithFacts DEF Sound
<1>3. c.fatal = "no" => Implied(F, With(c.clauses, id, lits))
  BY WithFacts DEF Sound
<1>4. QED
  BY <1>1, <1>2, <1>3 DEF Sound, d

\* A failure keeps a checker sound.
LEMMA FailedSound ==
  ASSUME NEW F, NEW c, Sound(F, c), NEW what, what # "no"
  PROVE  Sound(F, Failed(c, what)) /\ Failed(c, what).fatal # "no"
BY FailedFacts DEF Sound

\* The same of what leaves tables and verdict alone.
LEMMA SameSound ==
  ASSUME NEW F, NEW c, Sound(F, c), NEW d, Same(c, d)
  PROVE  Sound(F, d)
BY DEF Sound, Same

\* add_original_clause, for a clause that follows.
LEMMA OriginalSound ==
  ASSUME NEW F, NEW c, Sound(F, c), NEW id \in Nat, NEW lits \in Seq(Lits), Implies(F, Range(lits))
  PROVE  Sound(F, CheckerAddOriginal(c, id, lits, FALSE))
<1>1. PICK e : /\ Same(c, e)
               /\ \/ CheckerAddOriginal(c, id, lits, FALSE) = Failed(e, "present")
                  \/ CheckerAddOriginal(c, id, lits, FALSE) = CheckerInserted(e, id, lits)
  <2>1. Fields(c)
    BY DEF Sound
  <2>2. PICK i : \/ CheckerAddOriginal(c, id, lits, FALSE) =
                      Failed([CheckerEnlarge(c, lits) EXCEPT !.current_id = i], "present")
                 \/ CheckerAddOriginal(c, id, lits, FALSE) =
                      CheckerInserted([CheckerEnlarge(c, lits) EXCEPT !.current_id = i], id, lits)
    BY Zenon DEF CheckerAddOriginal
  <2>3. QED
    BY <2>1, <2>2, EnlargeFacts
<1>2. Sound(F, e)
  BY <1>1, SameSound
<1>3. QED
  BY <1>1, <1>2, FailedSound, InsertedSound

\* add_original_clause with restore: what was not weakened fails, what was weakened follows.
LEMMA RestoreSound ==
  ASSUME NEW F, NEW c, Sound(F, c), c.fatal = "no", strict_lrat, NEW id \in Nat,
         NEW lits \in Seq(Lits)
  PROVE  Sound(F, CheckerAddOriginal(c, id, lits, TRUE))
<1> DEFINE r == Restored(c, id, lits)
<1>1. Sound(F, r) /\ (r.fatal = "no" => Implies(F, Range(lits)))
  <2>1. CASE id \notin DOMAIN c.weakened
    <3>1. r = Failed(c, "restored")
      BY <2>1, Zenon DEF Restored
    <3>2. QED
      BY <3>1, FailedSound
  <2>2. CASE id \in DOMAIN c.weakened /\ ~SameClause(c.weakened[id], lits)
    <3>1. r = Failed(c, "different")
      BY <2>2, Zenon DEF Restored
    <3>2. QED
      BY <3>1, FailedSound
  <2>3. CASE id \in DOMAIN c.weakened /\ SameClause(c.weakened[id], lits)
    <3>1. PICK t : /\ t = [x \in DOMAIN c.weakened \ {id} |-> c.weakened[x]]
                   /\ r = [c EXCEPT !.weakened = t]
      BY <2>3, Zenon DEF Restored
    <3>2. Fields(r) /\ r.weakened = t /\ r.clauses = c.clauses /\ r.fatal = c.fatal
      <4>1. Fields(c)
        BY DEF Sound
      <4>2. QED
        BY <3>1, <4>1, Zenon DEF Fields
    <3> HIDE DEF r
    <3>3. t \in Table /\ Implied(F, t)
      BY <3>1, WithoutFacts DEF Sound
    <3>4. Implies(F, Range(lits))
      BY <2>3 DEF Sound, Implied, SameClause
    <3>5. QED
      BY <3>2, <3>3, <3>4 DEF Sound
  <2>4. QED
    BY <2>1, <2>2, <2>3
<1> HIDE DEF r
<1>2. PICK e : Same(r, e) /\ CheckerAddOriginal(c, id, lits, TRUE) = CheckerInserted(e, id, lits)
  <2>1. Fields(r)
    BY <1>1 DEF Sound
  <2>2. PICK i : CheckerAddOriginal(c, id, lits, TRUE) =
                   CheckerInserted([CheckerEnlarge(r, lits) EXCEPT !.current_id = i], id, lits)
    BY Zenon DEF CheckerAddOriginal, r
  <2>3. QED
    BY <2>1, <2>2, EnlargeFacts
<1>3. Sound(F, e) /\ e.fatal = r.fatal
  BY <1>1, <1>2, SameSound DEF Same
<1>4. QED
  BY <1>1, <1>2, <1>3, InsertedSound

\* add_derived_clause: the chain decides.
LEMMA DerivedSound ==
  ASSUME ChainsAssumption, NEW F, NEW c, Sound(F, c), c.fatal = "no", NEW id \in Nat,
         NEW lits \in Seq(Lits), NEW chain \in Seq(Nat)
  PROVE  Sound(F, CheckerAddDerived(c, id, lits, chain))
<1> DEFINE e == [CheckerEnlarge(c, lits) EXCEPT !.current_id = id]
           d == CheckerAddDerived(c, id, lits, chain)
<1>1. Same(c, e)
  BY EnlargeFacts DEF Sound
<1>2. \/ d = Failed(e, "present") \/ d = Failed(e, "order") \/ d = Failed(e, "chain")
      \/ d = Failed(e, "resolution")
      \/ Check(e, lits, chain) /\ d = CheckerInserted(e, id, lits)
  BY Zenon DEF CheckerAddDerived
<1> HIDE DEF e, d
<1>3. Sound(F, e) /\ e.fatal = "no"
  BY <1>1, SameSound DEF Same
<1>4. ASSUME Check(e, lits, chain) PROVE Implies(F, Range(lits))
  BY <1>3, <1>4, CheckSound DEF Sound
<1>5. QED
  BY <1>2, <1>3, <1>4, FailedSound, InsertedSound DEF d

\* delete_clause.
LEMMA DeleteSound ==
  ASSUME NEW F, NEW c, Sound(F, c), NEW id, NEW lits
  PROVE  Sound(F, CheckerDelete(c, id, lits))
<1> DEFINE d == CheckerDelete(c, id, lits)
<1>1. CASE ~Present(c, id, lits)
  <2>1. d = Failed(c, "deleted")
    BY <1>1, Zenon DEF CheckerDelete
  <2>2. QED
    BY <2>1, FailedSound
<1>2. CASE Present(c, id, lits)
  <2>1. PICK t, v, w : /\ t = [x \in DOMAIN c.clauses \ {id} |-> c.clauses[x]]
                       /\ d = [c EXCEPT !.clauses = t, !.num_clauses = v, !.num_garbage = w]
    BY <1>2, Zenon DEF CheckerDelete
  <2>2. Fields(d) /\ d.clauses = t /\ d.weakened = c.weakened /\ d.fatal = c.fatal
    <3>1. Fields(c)
      BY DEF Sound
    <3>2. QED
      BY <2>1, <3>1, Zenon DEF Fields
  <2> HIDE DEF d
  <2>3. t \in Table /\ (Implied(F, c.clauses) => Implied(F, t))
    BY <2>1, WithoutFacts DEF Sound
  <2>4. QED
    BY <2>2, <2>3 DEF Sound, d
<1>3. QED
  BY <1>1, <1>2

\* weaken_minus: what may be restored has no literal less than the clause there is.
LEMMA WeakenSound ==
  ASSUME NEW F, NEW c, Sound(F, c), NEW id \in Nat, NEW lits \in Seq(Lits)
  PROVE  Sound(F, CheckerWeaken(c, id, lits))
<1> DEFINE d == CheckerWeaken(c, id, lits)
<1>1. CASE ~Present(c, id, lits)
  <2>1. d = Failed(c, "weakened")
    BY <1>1, Zenon DEF CheckerWeaken
  <2>2. QED
    BY <2>1, FailedSound
<1>2. CASE Present(c, id, lits)
  <2>1. PICK t : t = With(c.weakened, id, lits) /\ d = [c EXCEPT !.weakened = t]
    BY <1>2, Zenon DEF CheckerWeaken
  <2>2. Fields(d) /\ d.clauses = c.clauses /\ d.weakened = t /\ d.fatal = c.fatal
    <3>1. Fields(c)
      BY DEF Sound
    <3>2. QED
      BY <2>1, <3>1, Zenon DEF Fields
  <2> HIDE DEF d
  <2>3. c.fatal = "no" => Implies(F, Range(lits))
    BY <1>2 DEF Sound, Implied, Implies, Present
  <2>4. t \in Table /\ (c.fatal = "no" => Implied(F, t))
    BY <2>1, <2>3, WithFacts DEF Sound
  <2>5. QED
    BY <2>2, <2>4 DEF Sound, d
<1>3. QED
  BY <1>1, <1>2

-----------------------------------------------------------------------------
(***************************************************************************)
(* The invariant adds what may be restored to what the property says: it   *)
(* comes back without a check.                                             *)
(***************************************************************************)
IInv == Sound(original, checker) /\ clause_id \in Nat

\* A larger set of original clauses implies what the smaller one does.
LEMMA MoreSound ==
  ASSUME NEW F, NEW C, NEW c, Sound(F, c)
  PROVE  Sound(F \cup {C}, c) /\ Implies(F \cup {C}, C)
<1>1. Models(F \cup {C}) \subseteq Models(F) /\ Implies(F \cup {C}, C)
  BY DEF Models, Satisfies, Implies
<1>2. \A t : Implied(F, t) => Implied(F \cup {C}, t)
  BY <1>1 DEF Implied, Implies
<1>3. QED
  BY <1>1, <1>2 DEF Sound

\* Every call keeps the invariant.
LEMMA StepFacts ==
  ASSUME ChainsAssumption, strict_lrat, IInv, Next
  PROVE  IInv'
<1>1. \A lits \in Pool \cup Derivable : lits \in Seq(Lits)
  BY DEF ChainsAssumption
<1>2. Sound(original, checker) /\ clause_id \in Nat /\ MaxId \in Nat
  BY DEF IInv, ChainsAssumption
<1>3. ASSUME NEW lits \in Pool, AddOriginal(lits) PROVE IInv'
  <2>1. /\ checker' = CheckerAddOriginal(checker, clause_id + 1, lits, FALSE)
        /\ clause_id' = clause_id + 1 /\ original' = original \cup {Range(lits)}
    BY <1>3 DEF AddOriginal
  <2>2. Sound(original', checker) /\ Implies(original', Range(lits))
    BY <1>2, <2>1, MoreSound
  <2>3. lits \in Seq(Lits) /\ clause_id + 1 \in Nat
    BY <1>1, <1>2
  <2>4. Sound(original', CheckerAddOriginal(checker, clause_id + 1, lits, FALSE))
    BY <2>2, <2>3, OriginalSound
  <2>5. QED
    BY <2>1, <2>3, <2>4 DEF IInv
<1>4. ASSUME NEW lits \in Derivable, NEW chain \in BoundedSeq(1..MaxId, MaxChain),
             AddDerived(lits, chain)
      PROVE  IInv'
  <2>1. /\ checker.fatal = "no" /\ checker' = CheckerAddDerived(checker, clause_id + 1, lits, chain)
        /\ clause_id' = clause_id + 1 /\ original' = original
    BY <1>4 DEF AddDerived, Running
  <2>2. chain \in Seq(Nat)
    <3>1. PICK m \in 0..MaxChain : chain \in [1..m -> 1..MaxId]
      BY DEF BoundedSeq, SeqOf
    <3>2. m \in Nat /\ chain \in [1..m -> Nat]
      BY <1>2, <3>1 DEF ChainsAssumption
    <3>3. QED
      BY <3>2
  <2>3. Sound(original', checker')
    BY <1>1, <1>2, <2>1, <2>2, DerivedSound
  <2>4. QED
    BY <1>2, <2>1, <2>3 DEF IInv
<1>5. ASSUME NEW id \in 1..clause_id, NEW lits \in Pool \cup Derivable,
             Delete(id, lits) \/ Weaken(id, lits) \/ Restore(id, lits)
      PROVE  IInv'
  <2>1. id \in Nat /\ lits \in Seq(Lits)
    BY <1>1, <1>2
  <2>2. UNCHANGED <<clause_id, original>>
    BY <1>5 DEF Delete, Weaken, Restore
  <2>3. CASE Delete(id, lits)
    BY <1>2, <2>1, <2>2, <2>3, DeleteSound DEF Delete, IInv
  <2>4. CASE Weaken(id, lits)
    BY <1>2, <2>1, <2>2, <2>4, WeakenSound DEF Weaken, IInv
  <2>5. CASE Restore(id, lits)
    <3>1. checker.fatal = "no" /\ checker' = CheckerAddOriginal(checker, id, lits, TRUE)
      BY <2>5 DEF Restore, Running
    <3>2. QED
      BY <1>2, <2>1, <2>2, <3>1, RestoreSound DEF IInv
  <2>6. QED
    BY <1>5, <2>3, <2>4, <2>5
<1>6. QED
  BY <1>3, <1>4, <1>5 DEF Next

(***************************************************************************)
(* Whatever chains it is given and whatever is deleted, weakened and       *)
(* restored, the LRAT checker has only clauses that follow from the        *)
(* original ones, as long as it has not stopped the program and demands    *)
(* that what is restored was weakened.                                     *)
(***************************************************************************)
THEOREM CheckerIsSound ==
  ASSUME ChainsAssumption, strict_lrat
  PROVE  Spec => []CheckerSound
<1>1. Init => IInv
  <2>1. SUFFICES ASSUME Init PROVE IInv
    OBVIOUS
  <2>2. checker = CheckerConstructed /\ clause_id = 0
    BY <2>1 DEF Init
  <2>3. CheckerConstructed.clauses = <<>> /\ CheckerConstructed.weakened = <<>>
    BY DEF CheckerConstructed
  <2>4. Fields(CheckerConstructed)
    BY Zenon DEF CheckerConstructed, Fields
  <2>5. <<>> \in Table /\ DOMAIN <<>> = {}
    <3>1. <<>> \in [{} -> Seq(Lits)]
      OBVIOUS
    <3>2. QED
      BY <3>1 DEF Table
  <2>6. QED
    BY <2>2, <2>3, <2>4, <2>5 DEF IInv, Sound, Implied
<1>2. IInv /\ [Next]_vars => IInv'
  <2>1. IInv /\ UNCHANGED vars => IInv'
    BY DEF IInv, vars
  <2>2. QED
    BY <2>1, StepFacts
<1>3. IInv => CheckerSound
  BY DEF IInv, Sound, Implied, CheckerSound
<1>4. QED
  BY <1>1, <1>2, <1>3, PTL DEF Spec
=============================================================================
