------------------------------ MODULE Watches ------------------------------
(***************************************************************************)
(* The trail and the watch lists of CaDiCaL (propagate.cpp, watch.hpp,     *)
(* backtrack.cpp, flip.cpp, the parts of analyze.cpp that change them):    *)
(* two watched literals for each clause, each with a blocking literal, on  *)
(* a trail that with chronological backtracking is not sorted by levels.   *)
(*                                                                         *)
(* Which clause is learned is left open: any that follows from the formula *)
(* and has one literal of the conflict level (module Analyze has the rest).*)
(***************************************************************************)
EXTENDS Clauses, SequencesExt

CONSTANTS
  Formulas,            \* sequences of clauses, each a sequence of literals
  Options,             \* values of the option chrono: subset of 0..2
  Decidable,           \* bound: the literals that may be decided
  MaxLearned,          \* bound on the number of learned clauses
  MaxCalls             \* bound on restarts and calls of flip and flippable

OptionsAssumption == Decidable \subseteq Lits /\ Options \subseteq 0..2 /\ MaxLearned \in Nat /\ MaxCalls \in Nat

VARIABLES
  formula,             \* ghost: the original clauses
  chrono,              \* option
  clauses,             \* sequence of [lits, pos, red, garbage]; the first two are watched
  watches,             \* literal -> sequence of [clause, blit]
  trail,
  level,               \* variable -> level, if assigned
  control,             \* number of assigned literals at the begin of each level
  propagated, propergated,
  conflict,            \* index of a clause or 0
  unsat, sat, calls

vars == <<formula, chrono, clauses, watches, trail, level, control,
          propagated, propergated, conflict, unsat, sat, calls>>

Pos(s, x) == CHOOSE i \in DOMAIN s : s[i] = x

-----------------------------------------------------------------------------
(* A record s with the fields clauses, watches, trail, level, conflict is  *)
(* passed through the loop over a watch list.                              *)

State == [clauses |-> clauses, watches |-> watches, trail |-> trail, level |-> level,
          conflict |-> conflict, depth |-> Len(control), kept |-> <<>>, stop |-> FALSE]

True(s, lit) == Contains(s.trail, lit)
False(s, lit) == Contains(s.trail, -lit)
Free(s, lit) == ~True(s, lit) /\ ~False(s, lit)

NewClause(lits, red) == [lits |-> lits, pos |-> 3, red |-> red, garbage |-> FALSE]

Watch(k, blit) == [clause |-> k, blit |-> blit]

WatchLiteral(s, lit, blit, k) == [s EXCEPT !.watches[lit] = Append(@, Watch(k, blit))]

WatchClause(s, k) ==
  LET lits == s.clauses[k].lits
  IN  WatchLiteral(WatchLiteral(s, lits[1], lits[2], k), lits[2], lits[1], k)

RemoveWatch(s, lit, k) == [s EXCEPT !.watches[lit] = SelectSeq(@, LAMBDA w : w.clause # k)]

AssignmentLevel(s, lit, C) == Max({0} \cup {s.level[Var(other)] : other \in ToSet(C) \ {lit}})

\* search_assign with a clause as reason.
SearchAssign(s, lit, C) ==
  [s EXCEPT !.trail = Append(@, lit),
            !.level[Var(lit)] = IF chrono > 0 THEN AssignmentLevel(s, lit, C) ELSE s.depth]

Keep(s, w) == [s EXCEPT !.kept = Append(@, w)]

\* Positions in the order of the search for a replacement, from the saved one on.
SearchOrder(c) == [i \in 1..(Len(c.lits) - 2) |-> 3 + ((c.pos - 3 + i - 1) % (Len(c.lits) - 2))]

\* Mutant: the search for a replacement ends at the end of the clause.
Replacement_end(s, k) ==
  LET c == s.clauses[k]
      P == {p \in c.pos..Len(c.lits) : ~False(s, c.lits[p])}
  IN  IF P = {} THEN 0 ELSE Min(P)

\* The first position with a literal that is not false, or 0.
Replacement(s, k) ==
  LET c == s.clauses[k]
      i == SelectInSeq(SearchOrder(c), LAMBDA p : ~False(s, c.lits[p]))
  IN  IF i = 0 THEN 0 ELSE SearchOrder(c)[i]

\* lits[0] = other, lits[1] = r, *k = lit.
Replace(s, k, lit, other, p) ==
  LET lits == s.clauses[k].lits
  IN  WatchLiteral([s EXCEPT !.clauses[k].lits = [lits EXCEPT ![1] = other, ![2] = lits[p], ![p] = lit],
                             !.clauses[k].pos = p],
                   lits[p], lit, k)

Other(s, k, lit) == LET lits == s.clauses[k].lits IN IF lits[1] = lit THEN lits[2] ELSE lits[1]

\* With chrono > 1 a literal of the level of the forced one is watched.
RepairLevel(s, k, lit, other, w) ==
  LET lits == s.clauses[k].lits
      lvl == s.level[Var(other)]
      P == {p \in 3..Len(lits) : s.level[Var(lits[p])] = lvl}
  IN  IF chrono > 1 /\ lvl > s.level[Var(lit)]
      THEN WatchLiteral([s EXCEPT !.clauses[k].lits =
                           [lits EXCEPT ![Min(P)] = lit, ![1] = other, ![2] = lits[Min(P)]]],
                        lits[Min(P)], other, k)
      ELSE Keep(s, w)

VisitLong(s, lit, w) ==
  LET k == w.clause
      other == Other(s, k, lit)
      p == Replacement(s, k)
      r == s.clauses[k].lits[p]
  IN  IF True(s, other) THEN Keep(s, Watch(k, other))
      ELSE IF p # 0 /\ True(s, r) THEN Keep([s EXCEPT !.clauses[k].pos = p], Watch(k, r))
      ELSE IF p # 0 THEN Replace(s, k, lit, other, p)
      ELSE IF Free(s, other)
           THEN RepairLevel(SearchAssign(s, other, s.clauses[k].lits), k, lit, other, w)
      ELSE Keep([s EXCEPT !.conflict = k, !.stop = TRUE], w)

VisitBinary(s, w) ==
  IF False(s, w.blit) THEN [s EXCEPT !.conflict = w.clause]
  ELSE SearchAssign(s, w.blit, s.clauses[w.clause].lits)

Visit(s, lit, w) ==
  LET k == w.clause
      binary == Len(s.clauses[k].lits) = 2
  IN  IF s.stop \/ True(s, w.blit) THEN Keep(s, w)
      ELSE IF binary THEN Keep(VisitBinary(s, w), w)
      ELSE IF s.conflict # 0 THEN Keep([s EXCEPT !.stop = TRUE], w)
      ELSE IF s.clauses[k].garbage THEN s
      ELSE VisitLong(s, lit, w)

\* The loop over the watches of lit; those it keeps come before the new ones.
VisitAll(s, lit, visit(_, _, _)) ==
  LET step(t, w) == visit(t, lit, w)
      t == FoldLeft(step, [s EXCEPT !.watches[lit] = <<>>], s.watches[lit])
  IN  [t EXCEPT !.watches[lit] = t.kept, !.kept = <<>>]

Adopt(s) ==
  /\ clauses' = s.clauses /\ watches' = s.watches /\ trail' = s.trail
  /\ level' = s.level /\ conflict' = s.conflict

-----------------------------------------------------------------------------
Init ==
  /\ \E F \in Formulas :
       LET s0 == [clauses |-> [k \in DOMAIN F |-> NewClause(F[k], FALSE)],
                  watches |-> [lit \in Lits |-> <<>>]]
           s == FoldLeft(WatchClause, s0, [k \in DOMAIN F |-> k])
       IN  /\ clauses = s.clauses /\ watches = s.watches
           /\ formula = {ToSet(F[k]) : k \in DOMAIN F}
  /\ chrono \in Options
  /\ trail = <<>> /\ level = [v \in Vars |-> 0] /\ control = <<>>
  /\ propagated = 0 /\ propergated = 0 /\ conflict = 0
  /\ unsat = FALSE /\ sat = FALSE /\ calls = 0

Searching == ~unsat /\ ~sat

\* One literal of propagate.
Propagate ==
  /\ Searching /\ conflict = 0 /\ propagated < Len(trail)
  /\ Adopt(VisitAll(State, -trail[propagated + 1], Visit))
  /\ propagated' = propagated + 1
  /\ UNCHANGED <<formula, chrono, control, propergated, unsat, sat, calls>>

Propagated == Searching /\ conflict = 0 /\ propagated = Len(trail)

Decide(lit) ==
  /\ Propagated /\ lit \in Decidable /\ Free(State, lit)
  /\ control' = Append(control, Len(trail))
  /\ trail' = Append(trail, lit) /\ level' = [level EXCEPT ![Var(lit)] = Len(control) + 1]
  /\ UNCHANGED <<formula, chrono, clauses, watches, propagated, propergated, conflict, unsat, sat, calls>>

Satisfied ==
  /\ Propagated /\ Len(trail) = Cardinality(Vars)
  /\ sat' = TRUE
  /\ UNCHANGED <<formula, chrono, clauses, watches, trail, level, control,
                 propagated, propergated, conflict, unsat, calls>>

-----------------------------------------------------------------------------
(* Backtracking keeps what was assigned out of order on lower levels.      *)

KeptTrail(s, l) ==
  LET a == control[l + 1]
  IN  SubSeq(s.trail, 1, a) \o
      SelectSeq(SubSeq(s.trail, a + 1, Len(s.trail)), LAMBDA lit : s.level[Var(lit)] <= l)

\* Variables that are not assigned have no level.
BacktrackTo(s, l) ==
  IF l = Len(control) THEN s
  ELSE LET t == KeptTrail(s, l)
       IN  [s EXCEPT !.trail = t, !.depth = l,
                     !.level = [v \in Vars |-> IF {v, -v} \cap ToSet(t) = {} THEN 0 ELSE @[v]]]

\* Propagation starts again with what was reassigned.
Rewind(l) == control[l + 1]

\* The counters of backtrack.
Unwind(l) ==
  /\ control' = SubSeq(control, 1, l)
  /\ IF l = Len(control) THEN UNCHANGED <<propagated, propergated>>
     ELSE propagated' = Min({propagated, Rewind(l)}) /\ propergated' = 0

\* Restarts may keep any number of levels.
Restart(l) ==
  /\ Propagated /\ l < Len(control) /\ calls < MaxCalls
  /\ Adopt(BacktrackTo(State, l)) /\ Unwind(l)
  /\ calls' = calls + 1
  /\ UNCHANGED <<formula, chrono, unsat, sat>>

-----------------------------------------------------------------------------
(* Conflicts.                                                              *)

ConflictLevels == [i \in DOMAIN clauses[conflict].lits |-> level[Var(clauses[conflict].lits[i])]]

ConflictLevel == IF chrono = 0 THEN Len(control) ELSE Max(Range(ConflictLevels))

\* Mutant: the first literal only is moved to a watch.
Swapped_first(s, i) == IF i = 2 THEN s ELSE
  LET lits == s.clauses[conflict].lits
      highest == Max({s.level[Var(lits[j])] : j \in i..Len(lits)})
      p == Min({j \in i..Len(lits) : s.level[Var(lits[j])] = highest})
  IN  IF p = i THEN s ELSE [s EXCEPT !.clauses[conflict].lits = [lits EXCEPT ![p] = lits[i], ![i] = lits[p]]]

\* find_conflict_level moves a literal of the highest level to position i.
Swapped(s, i) ==
  LET lits == s.clauses[conflict].lits
      highest == Max({s.level[Var(lits[j])] : j \in i..Len(lits)})
      p == Min({j \in i..Len(lits) : s.level[Var(lits[j])] = highest})
      t == [s EXCEPT !.clauses[conflict].lits = [lits EXCEPT ![p] = lits[i], ![i] = lits[p]]]
  IN  IF p = i THEN s
      ELSE IF p = 2 THEN t
      ELSE WatchLiteral(RemoveWatch(t, lits[i], conflict), lits[p], lits[3 - i], conflict)

FindConflictLevel == IF chrono = 0 THEN State ELSE Swapped(Swapped(State, 1), 2)

OnConflictLevel == {i \in DOMAIN ConflictLevels : ConflictLevels[i] = ConflictLevel}

ConflictDone(s) == [s EXCEPT !.conflict = 0]

\* A single literal of the conflict is on its level: undo and flip that one.
Forced ==
  /\ ~unsat /\ conflict # 0 /\ chrono > 0 /\ ConflictLevel > 0 /\ Cardinality(OnConflictLevel) = 1
  /\ LET s == BacktrackTo(FindConflictLevel, ConflictLevel - 1)
         lits == s.clauses[conflict].lits
     IN  Adopt(ConflictDone(SearchAssign(s, lits[1], lits)))
  /\ Unwind(ConflictLevel - 1)
  /\ UNCHANGED <<formula, chrono, unsat, sat, calls>>

LearnEmptyClause ==
  /\ ~unsat /\ conflict # 0 /\ ConflictLevel = 0
  /\ unsat' = TRUE
  /\ Adopt(BacktrackTo(FindConflictLevel, 0)) /\ Unwind(0)
  /\ UNCHANGED <<formula, chrono, sat, calls>>

\* A clause that analysis may learn: false, with one literal of the level.
Asserting(C) ==
  /\ C \subseteq Neg(ToSet(trail)) /\ Implies(formula, C)
  /\ \A lit \in C : level[Var(lit)] \in 1..ConflictLevel
  /\ Cardinality({lit \in C : level[Var(lit)] = ConflictLevel}) = 1

\* new_driving_clause sorts by level and trail position, the highest first.
Later(s, a, b) ==
  \/ s.level[Var(a)] > s.level[Var(b)]
  \/ s.level[Var(a)] = s.level[Var(b)] /\ Pos(s.trail, -a) > Pos(s.trail, -b)

Sorted(s, C) == SetToSortSeq(C, LAMBDA a, b : Later(s, a, b))

\* eagerly_subsume_recently_learned_clauses.
EagerlySubsumed(s, C) ==
  [s EXCEPT !.clauses = [k \in DOMAIN @ |->
     [@[k] EXCEPT !.garbage = @ \/ (s.clauses[k].red /\ C \subseteq ToSet(s.clauses[k].lits))]]]

Jump(C) == Max({0} \cup ({level[Var(lit)] : lit \in C} \ {ConflictLevel}))

Driving(s, C) ==
  LET t == [EagerlySubsumed(s, C) EXCEPT !.clauses =
              Append(@, NewClause(Sorted(s, C), TRUE))]
  IN  WatchClause(t, Len(t.clauses))

\* determine_actual_backtrack_level: with chrono any level from the jump level on.
Learn(C, l) ==
  /\ ~unsat /\ conflict # 0 /\ ConflictLevel > 0
  /\ chrono > 0 => Cardinality(OnConflictLevel) > 1
  /\ Cardinality({k \in DOMAIN clauses : clauses[k].red}) < MaxLearned
  /\ C # {} /\ Asserting(C)
  /\ l \in Jump(C)..(ConflictLevel - 1) /\ (chrono = 0 => l = Jump(C))
  /\ LET s == FindConflictLevel
         lits == Sorted(s, C)
         t == BacktrackTo(IF Len(lits) = 1 THEN s ELSE Driving(s, C), l)
     IN  Adopt(ConflictDone(IF Len(lits) = 1
                            THEN [t EXCEPT !.trail = Append(@, lits[1]), !.level[Var(lits[1])] = 0]
                            ELSE SearchAssign(t, lits[1], lits)))
  /\ Unwind(l)
  /\ UNCHANGED <<formula, chrono, unsat, sat, calls>>

-----------------------------------------------------------------------------
(* flip and flippable in a satisfying assignment.                          *)

\* propergate: a true literal is watched in every clause.
Propergated(s, lit, w) ==
  LET k == w.clause
      other == Other(s, k, lit)
  IN  IF Len(s.clauses[k].lits) = 2 THEN Keep(s, w)
      ELSE IF s.clauses[k].garbage THEN s
      ELSE IF True(s, other) THEN Keep(s, w)
      ELSE Replace(s, k, lit, other, Replacement(s, k))

Propergate ==
  LET step(s, lit) == VisitAll(s, -lit, Propergated)
  IN  FoldLeft(step, State, SubSeq(trail, propergated + 1, Len(trail)))

\* Mutant: binary clauses are forgotten.
BinaryTrue_not(s, lit) == TRUE

BinaryTrue(s, lit) ==
  \A i \in DOMAIN s.watches[lit] : LET w == s.watches[lit][i] IN
    Len(s.clauses[w.clause].lits) = 2 => True(s, w.blit)

\* The loop of flip over longer clauses; stop is its failure.
Flipped(s, lit, w) ==
  LET k == w.clause
      other == Other(s, k, lit)
  IN  IF s.stop \/ Len(s.clauses[k].lits) = 2 THEN Keep(s, w)
      ELSE IF s.clauses[k].garbage THEN s
      ELSE IF True(s, other) THEN Keep(s, w)
      ELSE IF Replacement(s, k) = 0 THEN Keep([s EXCEPT !.stop = TRUE], w)
      ELSE Replace(s, k, lit, other, Replacement(s, k))

Fixed(lit) == level[Var(lit)] = 0

Flip(lit) ==
  /\ sat /\ True(State, lit) /\ ~Fixed(lit) /\ calls < MaxCalls
  /\ LET s == Propergate
         t == IF BinaryTrue(s, lit) THEN VisitAll(s, lit, Flipped) ELSE [s EXCEPT !.stop = TRUE]
     IN  Adopt(IF t.stop THEN t ELSE [t EXCEPT !.trail[Pos(t.trail, lit)] = -lit])
  /\ propergated' = Len(trail) /\ calls' = calls + 1
  /\ UNCHANGED <<formula, chrono, control, propagated, unsat, sat>>

\* flippable only changes blocking literals and saved positions.
CheckFlip(s, lit, w) ==
  LET k == w.clause
      other == Other(s, k, lit)
      p == Replacement(s, k)
  IN  IF s.stop \/ True(s, w.blit) THEN Keep(s, w)
      ELSE IF Len(s.clauses[k].lits) = 2 THEN Keep([s EXCEPT !.stop = TRUE], w)
      ELSE IF s.clauses[k].garbage THEN Keep(s, w)
      ELSE IF True(s, other) THEN Keep(s, Watch(k, other))
      ELSE IF p = 0 THEN Keep([s EXCEPT !.stop = TRUE], w)
      ELSE Keep([s EXCEPT !.clauses[k].pos = p], Watch(k, s.clauses[k].lits[p]))

Flippable(lit) ==
  /\ sat /\ True(State, lit) /\ ~Fixed(lit) /\ calls < MaxCalls
  /\ Adopt(VisitAll(Propergate, lit, CheckFlip))
  /\ propergated' = Len(trail) /\ calls' = calls + 1
  /\ UNCHANGED <<formula, chrono, control, propagated, unsat, sat>>

\* The next call of solve starts on the root level; there is one.
Resume ==
  /\ sat /\ calls = MaxCalls
  /\ Adopt(BacktrackTo(State, 0)) /\ Unwind(0)
  /\ sat' = FALSE /\ calls' = calls + 1
  /\ UNCHANGED <<formula, chrono, unsat>>

Next ==
  \/ Propagate \/ Satisfied \/ Forced \/ LearnEmptyClause \/ Resume
  \/ \E lit \in Lits : Decide(lit) \/ Flip(lit) \/ Flippable(lit)
  \/ \E l \in 0..Cardinality(Vars) : Restart(l) \/ \E C \in SUBSET Neg(ToSet(trail)) : Learn(C, l)

Spec == Init /\ [][Next]_vars

-----------------------------------------------------------------------------
Indices == DOMAIN clauses

\* Type invariant: a trail without clashes, levels that begin on the trail.
TypeOK ==
  /\ Consistent(ToSet(trail)) /\ IsInjective(trail)
  /\ \A l \in DOMAIN control : control[l] <= Len(trail)
  /\ \A v \in Vars : level[v] \in 0..Len(control)
  /\ propagated \in 0..Len(trail) /\ propergated \in 0..Len(trail) /\ conflict \in {0} \cup Indices

\* A clause is in the watch lists of its first two literals, once, and in no
\* other; the blocking literal is another literal of the clause.
WatchesExact ==
  \A k \in Indices, lit \in Lits :
    LET ws == SelectSeq(watches[lit], LAMBDA w : w.clause = k)
    IN  /\ ~clauses[k].garbage => Len(ws) = IF lit \in {clauses[k].lits[1], clauses[k].lits[2]} THEN 1 ELSE 0
        /\ \A i \in DOMAIN ws : ws[i].blit \in ToSet(clauses[k].lits) \ {lit}

\* What propagation is for: without a conflict no clause is unit or false.
PropagationComplete ==
  Propagated => \A k \in Indices :
    \/ clauses[k].garbage
    \/ \E lit \in ToSet(clauses[k].lits) : True(State, lit)
    \/ Cardinality({lit \in ToSet(clauses[k].lits) : Free(State, lit)}) > 1

\* Why it stays complete without visiting watches on backtracking: a clause
\* with a false watch that was propagated has a true literal, and whenever that
\* one is unassigned the watch is as well, or it is propagated again.
WatchesStable ==
  (conflict = 0 /\ Searching) => \A k \in Indices : \A i \in 1..2 :
    LET lit == clauses[k].lits[i]
    IN  (~clauses[k].garbage /\ False(State, lit) /\ Pos(trail, -lit) <= propagated) =>
          \E other \in ToSet(clauses[k].lits) :
            /\ True(State, other)
            /\ LET l == level[Var(other)]
               IN  l <= level[Var(lit)] \/ control[l] < Pos(trail, -lit)

\* After any number of flips the assignment satisfies the formula.
FlipsKeepModel == sat => Satisfies(ToSet(trail), formula)

\* A literal follows from the decisions up to its level, also if it was assigned
\* out of order; so a conflict on the root level refutes the formula.
Decisions(l) == {trail[control[i] + 1] : i \in 1..l}
LevelsSound ==
  /\ ~sat => \A lit \in ToSet(trail) : Implies(formula \cup Units(Decisions(level[Var(lit)])), {lit})
  /\ unsat => Models(formula) = {}
=============================================================================
