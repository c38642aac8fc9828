------------------------------ MODULE Analyze ------------------------------
(***************************************************************************)
(* Conflict analysis (analyze.cpp, minimize.cpp, shrink.cpp) in the search *)
(* loop: resolution to the first unique implication point, strengthening   *)
(* of reasons on the fly, minimization and shrinking of what is learned.   *)
(*                                                                         *)
(* Propagation finds unit and false clauses in any order (module Watches   *)
(* has the watch lists); one step is one resolution.                       *)
(***************************************************************************)
EXTENDS Clauses, SequencesExt

CONSTANTS
  Formulas,            \* sequences of clauses [lits, red]
  Options,             \* records [chrono, otfs, minimize : BOOLEAN, shrink : 0..3]
  Decidable,           \* bound: the literals that may be decided
  MaxLearned           \* bound on the number of learned clauses

OptionsAssumption ==
  /\ Options \subseteq [chrono : BOOLEAN, otfs : BOOLEAN, minimize : BOOLEAN, shrink : 0..3]
  /\ Decidable \subseteq Lits /\ MaxLearned \in Nat

VARIABLES
  formula,             \* ghost: the irredundant clauses at the beginning
  opts,
  clauses,             \* sequence of [lits, red, garbage]
  trail,               \* sequence of [lit, level, reason]; reason 0 if there is none
  control,             \* length of the trail at the begin of each level
  unsat,
  pc,
  conflict, conflict_size, resolved,
  at,                  \* trail position of the last literal resolved
  seen,                \* the false literals that were analyzed
  levels               \* level -> number and smallest trail position of literals seen

vars == <<formula, opts, clauses, trail, control, unsat, pc, conflict, conflict_size, resolved, at, seen, levels>>

Level == Len(control)

NewClause(C, red) == [lits |-> C, red |-> red, garbage |-> FALSE]

Assigned(t) == {t[i].lit : i \in DOMAIN t}

\* Position on the trail of the variable of a literal, and its level.
Pos(t, lit) == CHOOSE i \in DOMAIN t : t[i].lit \in {lit, -lit}
LevelOf(t, lit) == t[Pos(t, lit)].level
Reason(t, lit) == t[Pos(t, lit)].reason

NoLevels == [l \in 1..Cardinality(Vars) |-> [count |-> 0, trail |-> Cardinality(Vars) + 1]]

Init ==
  /\ \E F \in Formulas :
       /\ clauses = [k \in DOMAIN F |-> NewClause(F[k].lits, F[k].red)]
       /\ formula = {F[k].lits : k \in {j \in DOMAIN F : ~F[j].red}}
  /\ opts \in Options
  /\ trail = <<>> /\ control = <<>> /\ unsat = FALSE /\ pc = "search"
  /\ conflict = 0 /\ conflict_size = 0 /\ resolved = 0 /\ at = 0 /\ seen = {} /\ levels = NoLevels

analysis == <<conflict, conflict_size, resolved, at, seen, levels>>

-----------------------------------------------------------------------------
(* The trail.                                                              *)

Forcing(k, lit) ==
  LET C == clauses[k].lits
  IN  ~clauses[k].garbage /\ lit \in C /\ C \ {lit} \subseteq Neg(Assigned(trail))
      /\ {lit, -lit} \cap Assigned(trail) = {}

FalseClauses == {k \in DOMAIN clauses : ~clauses[k].garbage /\ clauses[k].lits \subseteq Neg(Assigned(trail))}

AssignmentLevel(t, C, lit) == Max({0} \cup {LevelOf(t, other) : other \in C \ {lit}})

\* search_assign with clause k, now C, as reason on level l.
SearchAssign(t, lit, k, C, l) ==
  LET lev == IF opts.chrono THEN AssignmentLevel(t, C, lit) ELSE l
  IN  Append(t, [lit |-> lit, level |-> lev, reason |-> IF lev = 0 THEN 0 ELSE k])

\* Mutant: a unit without a clause is forgotten.
AssignUnit_none(t, lit) == t

AssignUnit(t, lit) == Append(t, [lit |-> lit, level |-> 0, reason |-> 0])

Propagate(k, lit) ==
  /\ pc = "search" /\ FalseClauses = {} /\ Forcing(k, lit)
  /\ trail' = SearchAssign(trail, lit, k, clauses[k].lits, Level)
  /\ UNCHANGED <<formula, opts, clauses, control, unsat, pc, analysis>>

Propagated == FalseClauses = {} /\ \A k \in DOMAIN clauses, lit \in Lits : ~Forcing(k, lit)

Decide(lit) ==
  /\ pc = "search" /\ Propagated /\ lit \in Decidable /\ {lit, -lit} \cap Assigned(trail) = {}
  /\ control' = Append(control, Len(trail))
  /\ trail' = Append(trail, [lit |-> lit, level |-> Level + 1, reason |-> 0])
  /\ UNCHANGED <<formula, opts, clauses, unsat, pc, analysis>>

BacktrackTo(t, l) ==
  IF l = Level THEN t
  ELSE SubSeq(t, 1, control[l + 1]) \o
       SelectSeq(SubSeq(t, control[l + 1] + 1, Len(t)), LAMBDA e : e.level <= l)

-----------------------------------------------------------------------------
(* analyze: the conflict level.                                            *)

ConflictLevel(C) == IF opts.chrono THEN Max({LevelOf(trail, lit) : lit \in C}) ELSE Level

OnLevel(t, C, l) == {lit \in C : LevelOf(t, lit) = l}

Above(t, C) == {lit \in C : LevelOf(t, lit) > 0}

\* analyze_literal for the literals of C.
Visited(t, C) ==
  LET new == Above(t, C)
  IN  [l \in DOMAIN levels |->
        [count |-> levels[l].count + Cardinality(OnLevel(t, new, l) \ seen),
         trail |-> Min({levels[l].trail} \cup {Pos(t, lit) : lit \in OnLevel(t, new, l)})]]

EndAnalysis ==
  /\ pc' = "search" /\ conflict' = 0 /\ conflict_size' = 0 /\ resolved' = 0 /\ at' = 0
  /\ seen' = {} /\ levels' = NoLevels

Conflict(k) ==
  /\ pc = "search" /\ k \in FalseClauses /\ ~unsat
  /\ LET C == clauses[k].lits
         l == ConflictLevel(C)
     IN  \/ \* a conflict of root level literals
            /\ l = 0 /\ unsat' = TRUE
            /\ trail' = BacktrackTo(trail, 0) /\ control' = <<>>
            /\ UNCHANGED <<clauses, pc, analysis>>
         \/ \* a single literal of the level is forced on a lower one
            /\ l > 0 /\ opts.chrono /\ Cardinality(OnLevel(trail, C, l)) = 1
            /\ LET forced == CHOOSE lit \in OnLevel(trail, C, l) : TRUE
               IN  trail' = SearchAssign(BacktrackTo(trail, l - 1), forced, k, C, l - 1)
            /\ control' = SubSeq(control, 1, l - 1)
            /\ UNCHANGED <<clauses, unsat, pc, analysis>>
         \/ /\ l > 0 /\ (opts.chrono => Cardinality(OnLevel(trail, C, l)) > 1)
            /\ trail' = BacktrackTo(trail, l) /\ control' = SubSeq(control, 1, l)
            /\ pc' = "analyze" /\ conflict' = k /\ resolved' = 0 /\ at' = Len(trail') + 1
            /\ seen' = Above(trail, C) /\ levels' = Visited(trail', C)
            /\ conflict_size' = Cardinality(seen')
            /\ UNCHANGED <<clauses, unsat>>
  /\ UNCHANGED <<formula, opts>>

-----------------------------------------------------------------------------
(* Resolution.                                                             *)

\* Literals of the conflict level that are still to be resolved.
Open(S, i) == {lit \in OnLevel(trail, S, Level) : Pos(trail, lit) < i}

\* The last one on the trail, as the true literal.
Uip == -(CHOOSE lit \in Open(seen, at) : \A other \in Open(seen, at) : Pos(trail, lit) >= Pos(trail, other))

\* What has been derived when the literals from position i on are resolved.
Resolved(S, i) == {lit \in S : LevelOf(trail, lit) < Level \/ Pos(trail, lit) < i}

\* on_the_fly_strengthen removes the literal and those false on the root level.
Strengthened(C, uip) == Above(trail, C) \ {uip}

\* otfs_subsume_clause: the subsuming clause takes over being irredundant.
OtfsSubsume(cs, subsuming, subsumed) ==
  [cs EXCEPT ![subsumed].garbage = TRUE,
             ![subsuming].red = @ /\ cs[subsumed].red]

\* The levels of the new conflict are marked again without clearing them.
Again(D) ==
  [l \in DOMAIN levels |-> [levels[l] EXCEPT !.count = @ + Cardinality(OnLevel(trail, D, l))]]

\* determine_actual_backtrack_level: with chrono any level from the jump level on.
BacktrackLevels(jump) == IF opts.chrono THEN jump..(Level - 1) ELSE {jump}

JumpLevel(C, uip) == Max({0} \cup {LevelOf(trail, lit) : lit \in C \ {uip}})

Resolve ==
  /\ pc = "analyze" /\ Cardinality(Open(seen, at)) > 1
  /\ LET uip == Uip
         k == Reason(trail, uip)
         i == Pos(trail, uip)
         C == clauses[k].lits
         S == seen \cup Above(trail, C \ {uip})
         res == Resolved(S, i)
         D == Strengthened(C, uip)
         strong == [clauses EXCEPT ![k].lits = D]
         cs == IF resolved = 0 /\ Cardinality(res) < conflict_size
               THEN OtfsSubsume(strong, k, conflict) ELSE strong
         otfs == opts.otfs /\ Cardinality(Above(trail, C)) > 2
                 /\ Cardinality(res) < Cardinality(Above(trail, C))
     IN  \/ \* the resolvent is longer than the reason
            /\ ~otfs
            /\ seen' = S /\ levels' = Visited(trail, C \ {uip}) /\ at' = i /\ resolved' = resolved + 1
            /\ UNCHANGED <<clauses, trail, control, pc, conflict, conflict_size>>
         \/ \* the reason is strengthened and a driving clause
            /\ otfs /\ Cardinality(Open(S, i)) = 1
            /\ clauses' = cs
            /\ LET forced == CHOOSE lit \in Open(S, i) : TRUE
               IN  \E l \in BacktrackLevels(JumpLevel(D, forced)) :
                     /\ trail' = SearchAssign(BacktrackTo(trail, l), forced, k, D, l)
                     /\ control' = SubSeq(control, 1, l)
            /\ EndAnalysis
         \/ \* the reason is strengthened and the new conflict
            /\ otfs /\ Cardinality(Open(S, i)) > 1
            /\ clauses' = cs
            /\ conflict' = k /\ resolved' = 0 /\ at' = i /\ seen' = D /\ conflict_size' = Cardinality(D)
            /\ levels' = Again(D)
            /\ UNCHANGED <<trail, control, pc>>
  /\ UNCHANGED <<formula, opts, unsat>>

-----------------------------------------------------------------------------
(* Minimization: the literals keep are in the clause, gone are implied.    *)

RECURSIVE MinimizeLiteral(_, _, _, _)
MinimizeLiteral(lit, keep, gone, depth) ==
  LET l == LevelOf(trail, lit)
      k == Reason(trail, lit)
  IN  \/ l = 0 \/ lit \in gone \/ lit \in keep
      \/ /\ k # 0 /\ l < Level
         /\ depth = 0 => levels[l].count > 1
         /\ Pos(trail, lit) > levels[l].trail
         /\ \A other \in clauses[k].lits \ {-lit} : MinimizeLiteral(other, keep, gone, 1)

Ascending(C) == SetToSortSeq(C, LAMBDA a, b : Pos(trail, a) < Pos(trail, b))

MinimizeBlock(s, C) ==
  LET step(r, lit) ==
        IF opts.minimize /\ MinimizeLiteral(lit, r.keep, r.gone, 0)
        THEN [r EXCEPT !.gone = @ \cup {lit}] ELSE [r EXCEPT !.keep = @ \cup {lit}]
  IN  FoldLeft(step, s, Ascending(C))

\* Mutant: a literal of a lower level stops nothing.
Shrinkable_lower(lit, s) == opts.shrink > 2 \/ Cardinality(clauses[Reason(trail, lit)].lits) = 2

\* shrink_along_reason: can the reason of lit be resolved into the block?
Shrinkable(lit, s) ==
  LET C == clauses[Reason(trail, lit)].lits \ {-lit}
  IN  /\ opts.shrink > 2 \/ Cardinality(C) = 1
      /\ \A other \in Above(trail, C) : LevelOf(trail, other) < LevelOf(trail, lit) =>
           other \in s.gone \/ (opts.shrink > 2 /\ MinimizeLiteral(other, s.keep, s.gone, 1))

\* The implication point of the open literals of a block and all literals on the
\* way to it; uip = 0 if there is none.
RECURSIVE BlockUip(_, _, _)
BlockUip(open, all, s) ==
  LET lit == CHOOSE x \in open : \A y \in open : Pos(trail, x) >= Pos(trail, y)
      new == OnLevel(trail, clauses[Reason(trail, lit)].lits \ {-lit}, LevelOf(trail, lit))
  IN  IF Cardinality(open) = 1 THEN [uip |-> lit, all |-> all]
      ELSE IF ~Shrinkable(lit, s) THEN [uip |-> 0, all |-> {}]
      ELSE BlockUip((open \ {lit}) \cup (new \ all), all \cup new, s)

ShrinkBlock(s, C) ==
  LET b == BlockUip(C, C, s)
  IN  IF Cardinality(C) < 2 THEN [s EXCEPT !.keep = @ \cup C]
      ELSE IF b.uip = 0 THEN MinimizeBlock(s, C)
      ELSE [keep |-> s.keep \cup {b.uip}, gone |-> s.gone \cup b.all]

\* shrink_and_minimize_clause or minimize_clause, on the literals below the uip.
Minimized(C) ==
  LET empty == [keep |-> {}, gone |-> {}]
      step(s, l) == ShrinkBlock(s, OnLevel(trail, C, l))
  IN  IF opts.shrink > 0 THEN FoldLeft(step, empty, [l \in 1..(Level - 1) |-> l]).keep
      ELSE IF opts.minimize THEN MinimizeBlock(empty, C).keep
      ELSE C

\* The clause of the first unique implication point.
Derived == OnLevel(trail, {-Uip}, Level) \cup {lit \in seen : LevelOf(trail, lit) < Level}

EagerlySubsumed(C) ==
  [k \in DOMAIN clauses |->
     [clauses[k] EXCEPT !.garbage = @ \/ (clauses[k].red /\ C \subseteq clauses[k].lits)]]

Learned == {k \in DOMAIN clauses : clauses[k].red}

LearnClause ==
  /\ pc = "analyze" /\ Cardinality(Open(seen, at)) = 1
  /\ Cardinality(Learned) < MaxLearned
  /\ LET lit == -Uip
         C == {lit} \cup (IF Cardinality(Derived) > 1 THEN Minimized(Derived \ {lit}) ELSE {})
         k == Len(clauses) + 1
     IN  \E l \in BacktrackLevels(JumpLevel(C, lit)) :
           /\ IF C = {lit}
              THEN /\ trail' = AssignUnit(BacktrackTo(trail, l), lit)
                   /\ UNCHANGED clauses
              ELSE /\ trail' = SearchAssign(BacktrackTo(trail, l), lit, k, C, l)
                   /\ clauses' = Append(EagerlySubsumed(C), NewClause(C, TRUE))
           /\ control' = SubSeq(control, 1, l)
  /\ EndAnalysis
  /\ UNCHANGED <<formula, opts, unsat>>

Next ==
  \/ Resolve \/ LearnClause
  \/ \E lit \in Lits : Decide(lit)
  \/ \E k \in DOMAIN clauses : Conflict(k) \/ \E lit \in Lits : Propagate(k, lit)

\* The search loop does one of its steps as long as there is one.
Spec == Init /\ [][Next]_vars /\ WF_vars(Next)

-----------------------------------------------------------------------------
\* Type invariant.
TypeOK ==
  /\ Consistent(Assigned(trail)) /\ \A i \in DOMAIN trail : trail[i].level \in 0..Level
  /\ \A l \in DOMAIN control : control[l] < Len(trail) /\ trail[control[l] + 1].level = l
  /\ pc = "analyze" => seen \subseteq Neg(Assigned(trail)) /\ conflict \in DOMAIN clauses

\* Whatever is learned or strengthened follows from the formula.
DatabaseImplied ==
  /\ \A k \in DOMAIN clauses : Implies(formula, clauses[k].lits)
  /\ unsat => Models(formula) = {}

\* Irredundant clauses are only dropped for irredundant ones that imply them.
NothingLost ==
  \A C \in formula :
    Implies({clauses[k].lits : k \in {j \in DOMAIN clauses : ~clauses[j].garbage /\ ~clauses[j].red}}
            \cup {{trail[i].lit} : i \in {j \in DOMAIN trail : trail[j].level = 0}}, C)

\* A reason forces its literal, by literals that were assigned before and of no
\* higher level: strengthened, shrunken and subsumed clauses included.  Literals
\* that are resolved already are not asked again.
ReasonsValid ==
  \A i \in DOMAIN trail : LET e == trail[i] IN
    e.reason # 0 /\ (pc = "search" \/ e.level < Level \/ i < at) =>
    /\ e.lit \in clauses[e.reason].lits
    /\ \A lit \in clauses[e.reason].lits \ {e.lit} :
         /\ \E j \in 1..(i - 1) : trail[j].lit = -lit
         /\ LevelOf(trail, lit) <= e.level

\* "not needed because marking the exact same again": the levels kept for the
\* glue are those of the clause, also after strengthening on the fly.
GlueExact ==
  pc = "analyze" => {l \in DOMAIN levels : levels[l].count > 0} = {LevelOf(trail, lit) : lit \in seen}

\* The search comes to an end.
Ended == unsat \/ \A v \in Vars : {v, -v} \cap Assigned(trail) # {}
=============================================================================
