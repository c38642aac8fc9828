------------------------------- MODULE Assume -------------------------------
(***************************************************************************)
(* Solving under assumptions and a constraint (assume.cpp, constrain.cpp,  *)
(* decide.cpp, restart.cpp): decisions on the assumptions first, each on a *)
(* level of its own, the trail of the previous call reused where it agrees *)
(* with them, the core of failed assumptions, and what the proof concludes.*)
(*                                                                         *)
(* Options are the default ones: ilb, ilbassumptions and chrono are on.    *)
(* What a conflict teaches is any implied clause with one literal on the   *)
(* conflict level (module Analyze has the analysis); it lives as a reason  *)
(* on the trail only, the rest may be reduced away at any time.            *)
(***************************************************************************)
EXTENDS Clauses, SequencesExt

CONSTANTS
  Formulas,            \* sets of clauses
  Addable,             \* clauses the user may add later
  Constraints,         \* sequences of literals
  Assumable, Decidable,    \* bound: literals that may be assumed, decided
  MaxAssumptions, MaxSolves, MaxAdded,    \* bounds on the calls
  Resetting            \* whether the user calls reset_assumptions

BoundsAssumption ==
  /\ Assumable \subseteq Lits /\ Decidable \subseteq Lits
  /\ {MaxAssumptions, MaxSolves, MaxAdded} \subseteq Nat /\ Resetting \in BOOLEAN

VARIABLES
  formula,             \* the clauses added
  lrat,                \* whether proof chains are built
  trail,               \* sequence of [lit, level, reason]; reason {} if there is none
  control,             \* level -> [decision, trail]; decision 0 on a pseudo level
  assumptions, eassumptions,     \* internal, sorted; external, in the order of the calls
  constraint, econstraint,
  unsat, unsat_constraint, marked_failed,
  failed,              \* literals flagged as failed
  conclusion,          \* clauses the proof ends with
  state,               \* steady, sorted, search, sat, unsat
  solves, added

vars == <<formula, lrat, trail, control, assumptions, eassumptions, constraint, econstraint, unsat,
          unsat_constraint, marked_failed, failed, conclusion, state, solves, added>>

Level == Len(control)
True == {trail[i].lit : i \in DOMAIN trail}
False == Neg(True)
Pos(lit) == CHOOSE i \in DOMAIN trail : trail[i].lit \in {lit, -lit}
LevelOf(lit) == trail[Pos(lit)].level
Reason(lit) == trail[Pos(lit)].reason
Fixed(lit) == lit \in True /\ LevelOf(lit) = 0

Init ==
  /\ formula \in Formulas /\ lrat \in BOOLEAN
  /\ trail = <<>> /\ control = <<>> /\ assumptions = <<>> /\ eassumptions = <<>>
  /\ constraint = <<>> /\ econstraint = {} /\ unsat = FALSE /\ unsat_constraint = FALSE
  /\ marked_failed = TRUE /\ failed = {} /\ conclusion = {} /\ state = "steady"
  /\ solves = 0 /\ added = 0

-----------------------------------------------------------------------------
(* The trail.                                                              *)

KeptTrail(l) ==
  IF l >= Level THEN trail
  ELSE SubSeq(trail, 1, control[l + 1].trail) \o
       SelectSeq(SubSeq(trail, control[l + 1].trail + 1, Len(trail)), LAMBDA e : e.level <= l)

KeptControl(l) == SubSeq(control, 1, l)

Backtrack(l) == trail' = KeptTrail(l) /\ control' = KeptControl(l)

\* assignment_level: the highest level of the other literals.
AssignmentLevel(t, C, lit) ==
  Max({0} \cup {t[i].level : i \in {j \in DOMAIN t : -t[j].lit \in C \ {lit}}})

SearchAssign(t, lit, C) ==
  LET l == AssignmentLevel(t, C, lit)
  IN  Append(t, [lit |-> lit, level |-> l, reason |-> IF l = 0 THEN {} ELSE C])

NewTrailLevel(lit) == Append(control, [decision |-> lit, trail |-> Len(trail)])

PseudoLevel == control' = NewTrailLevel(0) /\ UNCHANGED trail

SearchAssumeDecision(lit) ==
  /\ control' = NewTrailLevel(lit)
  /\ trail' = Append(trail, [lit |-> lit, level |-> Level + 1, reason |-> {}])

LearnEmptyClause == unsat' = TRUE /\ marked_failed' = TRUE /\ conclusion' = {{}}

-----------------------------------------------------------------------------
(* Calls of the user.                                                      *)

AssumeLevel(lit) == IF lit \in False THEN Max({0, LevelOf(lit) - 1}) ELSE Level

Assume(lit) ==
  /\ state = "steady" /\ Len(eassumptions) < MaxAssumptions
  /\ Backtrack(AssumeLevel(lit))
  /\ eassumptions' = Append(eassumptions, lit)
  /\ assumptions' = IF lit \in Range(assumptions) THEN assumptions ELSE Append(assumptions, lit)
  /\ UNCHANGED <<formula, lrat, constraint, econstraint, unsat, unsat_constraint, marked_failed,
                 failed, conclusion, state, solves, added>>

RootFalse == {-trail[i].lit : i \in {j \in DOMAIN trail : trail[j].level = 0}}

\* The literals of the constraint without duplicates and false ones.
Simplified(c) ==
  SelectSeq([i \in DOMAIN c |-> IF \E j \in 1..(i - 1) : c[j] = c[i] THEN 0 ELSE c[i]],
            LAMBDA lit : lit # 0 /\ lit \notin RootFalse)

EmptyConstraint(satisfied, s) == ~satisfied /\ s = <<>>

\* External::constrain for the literals of c and the final zero: a previous
\* constraint is replaced.
Constrain(c) ==
  LET s == Simplified(c)
      satisfied == Tautological(Range(c)) \/ \E i \in DOMAIN c : Fixed(c[i])
  IN  /\ state = "steady"
      /\ Backtrack(0)
      /\ econstraint' = Range(c)
      /\ constraint' = IF satisfied THEN <<>> ELSE s
      /\ unsat_constraint' = EmptyConstraint(satisfied, s)
      /\ marked_failed' = (EmptyConstraint(satisfied, s) => unsat)
      /\ UNCHANGED <<formula, lrat, assumptions, eassumptions, unsat, failed, conclusion, state, solves, added>>

\* move_literal_to_watch: a true literal or an unassigned one before a false one,
\* the false one of the highest level.
WatchedFalse(C) == {lit \in C : lit \in False /\ \A other \in C : other \in False /\ LevelOf(other) <= LevelOf(lit)}

\* add_new_original_clause during incremental use: the trail is kept if possible. A
\* unit is propagated by the next call.
Add(C) ==
  LET D == C \ RootFalse
      open == D \ False
  IN  /\ state = "steady" /\ added < MaxAdded
      /\ formula' = formula \cup {C} /\ added' = added + 1
      /\ \/ /\ unsat \/ Tautological(C) \/ \E lit \in C : Fixed(lit)
            /\ UNCHANGED <<trail, control, unsat, marked_failed, conclusion>>
         \/ /\ ~unsat /\ ~Tautological(C) /\ ~\E lit \in C : Fixed(lit)
            /\ \/ /\ D = {} /\ LearnEmptyClause
                  /\ UNCHANGED <<trail, control>>
               \/ /\ Cardinality(D) = 1
                  /\ control' = <<>>
                  /\ trail' = Append(KeptTrail(0), [lit |-> CHOOSE lit \in D : TRUE, level |-> 0, reason |-> {}])
                  /\ UNCHANGED <<unsat, marked_failed, conclusion>>
               \/ \* all literals false: back to before the second highest level
                  /\ Cardinality(D) > 1 /\ open = {}
                  /\ \E lit \in WatchedFalse(D) :
                       Backtrack(Max({LevelOf(other) : other \in D \ {lit}}) - 1)
                  /\ UNCHANGED <<unsat, marked_failed, conclusion>>
               \/ \* unit: assigned out of order
                  /\ Cardinality(D) > 1 /\ Cardinality(open) = 1 /\ open \cap True = {}
                  /\ trail' = SearchAssign(trail, CHOOSE lit \in open : TRUE, D)
                  /\ UNCHANGED <<control, unsat, marked_failed, conclusion>>
               \/ /\ Cardinality(D) > 1 /\ open # {} /\ (Cardinality(open) > 1 \/ open \cap True # {})
                  /\ UNCHANGED <<trail, control, unsat, marked_failed, conclusion>>
      /\ UNCHANGED <<lrat, assumptions, eassumptions, constraint, econstraint, unsat_constraint, failed,
                     state, solves>>

\* reset_assumptions clears the flags of the assumptions.
Forgotten == failed \ Range(assumptions)

ResetAssumptions ==
  /\ Resetting /\ state = "steady"
  /\ assumptions' = <<>> /\ eassumptions' = <<>> /\ failed' = Forgotten /\ marked_failed' = TRUE
  /\ UNCHANGED <<formula, lrat, trail, control, constraint, econstraint, unsat, unsat_constraint,
                 conclusion, state, solves, added>>

\* transition_to_steady_state, and the end of a call without a result.
Reset ==
  /\ state' = "steady"
  /\ assumptions' = <<>> /\ eassumptions' = <<>> /\ failed' = Forgotten /\ marked_failed' = TRUE
  /\ constraint' = <<>> /\ econstraint' = {} /\ unsat_constraint' = FALSE
  /\ conclusion' = IF unsat THEN conclusion ELSE {}
  /\ UNCHANGED <<formula, lrat, trail, control, unsat, solves, added>>

Leave == state \in {"sat", "unsat"} /\ Reset

Interrupt == state = "search" /\ Reset

-----------------------------------------------------------------------------
(* The start of a call: sort_and_reuse_assumptions and already_solved.     *)

\* The rank is returned as an int, which drops its upper half with the level: the
\* position on the trail, of an unassigned literal the variable.
Rank(lit) == IF {lit, -lit} \cap True # {} THEN Pos(lit) - 1 ELSE Var(lit)

Sorted(s) ==
  {t \in SetToSeqs(Range(s)) : \A i, j \in DOMAIN t : i < j => Rank(t[i]) <= Rank(t[j])}

StartSolve ==
  /\ state = "steady" /\ solves < MaxSolves
  /\ assumptions' \in Sorted(assumptions)
  /\ state' = "sorted" /\ solves' = solves + 1
  /\ UNCHANGED <<formula, lrat, trail, control, eassumptions, constraint, econstraint, unsat,
                 unsat_constraint, marked_failed, failed, conclusion, added>>

\* The level of the last assumption before the first unassigned one.
MaxLevel(s) ==
  LET n == Max({i \in 0..Len(s) : \A j \in 1..i : {s[j], -s[j]} \cap True # {}})
  IN  IF n = 0 THEN 0 ELSE LevelOf(s[n])

SameDecision(i, lit) == control[i].decision = lit /\ lit \in True /\ LevelOf(lit) = i

\* The loop: level i against assumption j; the level to backtrack to.
RECURSIVE Reused(_, _, _)
Reused(i, j, size) ==
  IF i >= size THEN Max({0, i - 2})
  ELSE LET lit == assumptions[j]
       IN  IF {lit, -lit} \cap True # {} /\ LevelOf(lit) < i THEN Reused(i, j + 1, size)
           ELSE IF SameDecision(i, lit) THEN Reused(i + 1, j + 1, size)
           ELSE i - 1

Reuse ==
  /\ state = "sorted"
  /\ IF assumptions = <<>> THEN UNCHANGED <<trail, control>>
     ELSE Backtrack(Reused(1, 1, Min({Level + 1, MaxLevel(assumptions) + 1})))
  /\ state' = IF unsat \/ unsat_constraint THEN "unsat" ELSE "search"
  /\ UNCHANGED <<formula, lrat, assumptions, eassumptions, constraint, econstraint, unsat,
                 unsat_constraint, marked_failed, failed, conclusion, solves, added>>

-----------------------------------------------------------------------------
(* The search.                                                             *)

query == <<formula, lrat, assumptions, eassumptions, econstraint, solves, added>>

FalseClauses == {C \in formula : C \subseteq False}

Forcing(C, lit) == lit \in C /\ C \ {lit} \subseteq False /\ {lit, -lit} \cap True = {}

Propagated == FalseClauses = {} /\ ~\E C \in formula : \E lit \in C : Forcing(C, lit)

Propagate(C, lit) ==
  /\ state = "search" /\ FalseClauses = {} /\ Forcing(C, lit)
  /\ trail' = SearchAssign(trail, lit, C)
  /\ UNCHANGED <<query, control, constraint, unsat, unsat_constraint, marked_failed, failed, conclusion, state>>

OnLevel(C, l) == {lit \in C : LevelOf(lit) = l}

Learnable(l) ==
  {C \in SUBSET {lit \in False : LevelOf(lit) \in 1..l} :
     Cardinality(OnLevel(C, l)) = 1 /\ Implies(formula, C)}

Conflict(C) ==
  /\ state = "search" /\ C \in FalseClauses
  /\ LET l == Max({0} \cup {LevelOf(lit) : lit \in C})
     IN  \/ /\ l = 0 /\ LearnEmptyClause /\ state' = "unsat"
            /\ UNCHANGED <<trail, control>>
         \/ \* analyze: a single literal of the conflict level is forced, or a clause learned
            /\ l > 0
            /\ \E D \in IF Cardinality(OnLevel(C, l)) = 1 THEN {C} ELSE Learnable(l) :
                 LET uip == CHOOSE lit \in OnLevel(D, l) : TRUE
                     jump == Max({0} \cup {LevelOf(lit) : lit \in D \ {uip}})
                 IN  \E to \in IF D = C THEN {l - 1} ELSE jump..(l - 1) :
                       trail' = SearchAssign(KeptTrail(to), uip, D) /\ control' = KeptControl(to)
            /\ UNCHANGED <<unsat, marked_failed, conclusion, state>>
  /\ UNCHANGED <<query, constraint, unsat_constraint, failed>>

Extras == IF constraint = <<>> THEN 0 ELSE 1

Satisfied == {Var(lit) : lit \in True} = Vars /\ Level >= Len(assumptions) + Extras

Answer ==
  /\ state = "search" /\ Propagated /\ Satisfied
  /\ state' = "sat"
  /\ UNCHANGED <<query, trail, control, constraint, unsat, unsat_constraint, marked_failed, failed, conclusion>>

\* The levels of the assumptions and a pseudo level of the constraint are kept.
Trivial == Len(assumptions) + (IF control[Len(assumptions) + 1].decision = 0 THEN 1 ELSE 0)

\* restart and reuse_trail: the first decision worse than the next one.
Restart ==
  /\ state = "search" /\ Propagated /\ ~Satisfied /\ Level >= Len(assumptions) + 2
  /\ \E l \in Trivial..Level : (\A i \in (Trivial + 1)..l : control[i].decision # 0) /\ Backtrack(l)
  /\ UNCHANGED <<query, constraint, unsat, unsat_constraint, marked_failed, failed, conclusion, state>>

\* Rephasing and all inprocessing begin on the root level.
Rephase ==
  /\ state = "search" /\ Propagated /\ ~Satisfied /\ Level > 0
  /\ Backtrack(0)
  /\ UNCHANGED <<query, constraint, unsat, unsat_constraint, marked_failed, failed, conclusion, state>>

DecideAssumption ==
  /\ state = "search" /\ Propagated /\ ~Satisfied /\ Level < Len(assumptions)
  /\ LET lit == assumptions[Level + 1]
     IN  \/ /\ lit \in False /\ state' = "unsat" /\ marked_failed' = FALSE
            /\ UNCHANGED <<trail, control>>
         \/ /\ lit \in True /\ PseudoLevel
            /\ UNCHANGED <<marked_failed, state>>
         \/ /\ {lit, -lit} \cap True = {} /\ SearchAssumeDecision(lit)
            /\ UNCHANGED <<marked_failed, state>>
  /\ UNCHANGED <<query, constraint, unsat, unsat_constraint, failed, conclusion>>

\* The literals before the true one move up by one.
MovedToFront(s, p) == <<s[p]>> \o SubSeq(s, 1, p - 1) \o SubSeq(s, p + 1, Len(s))

DecideConstraint ==
  /\ state = "search" /\ Propagated /\ ~Satisfied /\ Level = Len(assumptions) /\ constraint # <<>>
  /\ LET satisfied == {i \in DOMAIN constraint : constraint[i] \in True}
         unassigned == Range(constraint) \ (True \cup False)
     IN  \/ /\ satisfied # {} /\ PseudoLevel
            /\ constraint' = MovedToFront(constraint, Min(satisfied))
            /\ UNCHANGED <<unsat_constraint, marked_failed, state>>
         \/ /\ satisfied = {} /\ \E lit \in unassigned : SearchAssumeDecision(lit)
            /\ UNCHANGED <<constraint, unsat_constraint, marked_failed, state>>
         \/ /\ satisfied = {} /\ unassigned = {}
            /\ unsat_constraint' = TRUE /\ marked_failed' = FALSE /\ state' = "unsat"
            /\ UNCHANGED <<trail, control, constraint>>
  /\ UNCHANGED <<query, unsat, failed, conclusion>>

Decide(lit) ==
  /\ state = "search" /\ Propagated /\ ~Satisfied /\ Level >= Len(assumptions) + Extras
  /\ {lit, -lit} \cap True = {} /\ SearchAssumeDecision(lit)
  /\ UNCHANGED <<query, constraint, unsat, unsat_constraint, marked_failed, failed, conclusion, state>>

-----------------------------------------------------------------------------
(* failing: the core of failed assumptions.                                *)

\* The true literals reached from S through the reasons.
RECURSIVE Analyzed(_)
Analyzed(S) ==
  LET T == S \cup UNION {Neg(Reason(lit)) \cap True : lit \in {l \in S : LevelOf(l) > 0}}
  IN  IF T = S THEN S ELSE Analyzed(T)

\* The decisions, which are assumptions.
Core(S) == {lit \in Analyzed(S) : LevelOf(lit) > 0 /\ Reason(lit) = {}}

FalseAssumptions == {i \in DOMAIN eassumptions : eassumptions[i] \in False}

IsUnit == {i \in FalseAssumptions : LevelOf(eassumptions[i]) = 0}
Clashing == {i \in FalseAssumptions : LevelOf(eassumptions[i]) > 0 /\ Reason(eassumptions[i]) = {}}
Propagating == {i \in FalseAssumptions : Reason(eassumptions[i]) # {}}

\* Of the propagated ones the first on the lowest level.
FirstFailed ==
  LET F == Propagating
      l == Min({LevelOf(eassumptions[i]) : i \in F})
  IN  eassumptions[Min({i \in F : LevelOf(eassumptions[i]) = l})]

\* One clause for every literal of the constraint; with LRAT each has a core of its own.
ConstraintClauses ==
  {IF lrat THEN Neg(Core({-lit})) \cup {-lit} ELSE Neg(Core(Neg(Range(constraint)))) \cup {-lit} :
     lit \in Range(constraint)}
  \cup {{-lit} : lit \in econstraint \ Range(constraint)}

Failing ==
  IF unsat_constraint
  THEN [failed |-> Core(Neg(Range(constraint))), clauses |-> ConstraintClauses]
  ELSE IF IsUnit # {}
  THEN LET lit == eassumptions[Min(IsUnit)]
       IN  [failed |-> {lit}, clauses |-> {{-lit}}]
  ELSE IF Clashing # {}
  THEN LET lit == eassumptions[Min(Clashing)]
       IN  [failed |-> {lit, -lit}, clauses |-> {{lit, -lit}}]
  ELSE LET core == {FirstFailed} \cup Core({-FirstFailed})
       IN  [failed |-> core, clauses |-> {Neg(core)}]

\* failed and conclude_unsat.
Failed ==
  /\ state = "unsat" /\ ~marked_failed
  /\ marked_failed' = TRUE
  /\ failed' = failed \cup Failing.failed
  /\ conclusion' = conclusion \cup Failing.clauses
  /\ UNCHANGED <<query, trail, control, constraint, unsat, unsat_constraint, state>>

-----------------------------------------------------------------------------
Next ==
  \/ \E lit \in Assumable : Assume(lit)
  \/ \E c \in Constraints : Constrain(c)
  \/ \E C \in Addable : Add(C)
  \/ ResetAssumptions \/ Leave \/ Interrupt
  \/ StartSolve \/ Reuse
  \/ \E C \in formula : \E lit \in C : Propagate(C, lit)
  \/ \E C \in formula : Conflict(C)
  \/ Answer \/ Restart \/ Rephase \/ DecideAssumption \/ DecideConstraint
  \/ \E lit \in Decidable : Decide(lit)
  \/ Failed

Spec == Init /\ [][Next]_vars

-----------------------------------------------------------------------------
(* Properties.                                                             *)

TypeOK ==
  /\ formula \subseteq SUBSET Lits /\ lrat \in BOOLEAN
  /\ \A i \in DOMAIN trail : trail[i].lit \in Lits /\ trail[i].level \in 0..Level
  /\ \A i \in DOMAIN control : control[i].decision \in Lits \cup {0} /\ control[i].trail \in 0..Len(trail)
  /\ Range(assumptions) = Range(eassumptions)
  /\ {unsat, unsat_constraint, marked_failed} \subseteq BOOLEAN
  /\ state \in {"steady", "sorted", "search", "sat", "unsat"}

\* What the call asks for: the assumptions and, where C, the constraint.
Query(A, C) == formula \cup Units(A) \cup (IF C /\ econstraint # {} THEN {econstraint} ELSE {})

\* decide (decide.cpp) looks at assumption number level only, so all before it must
\* be true on the levels below, after reusing a trail of an earlier call, after
\* restarts and after conflicts that take back some of them.
AssumptionsHeld ==
  state = "search" => \A i \in 1..Min({Level, Len(assumptions)}) :
                        assumptions[i] \in True /\ LevelOf(assumptions[i]) <= i

\* A satisfying answer satisfies the clauses, every assumption and the constraint as
\* the user gave it, although decide moves its literals and the trail is reused.
SatisfiesQuery == state = "sat" => Satisfies(True, Query(Range(eassumptions), TRUE))

\* Moving literals inside the constraint loses none of them: what it does not have is
\* false for good. decide.cpp checks only the sum of the literals.
ConstraintKept ==
  constraint # <<>> =>
    Range(constraint) \subseteq econstraint /\ econstraint \ Range(constraint) \subseteq RootFalse

\* An unsatisfiable answer is right: failed assumptions found by decide, a constraint
\* without literals to decide or one that was false already.
QueryUnsatisfiable == state = "unsat" => Models(Query(Range(eassumptions), TRUE)) = {}

\* failed (assume.cpp) names assumptions only, and they suffice: together with the
\* constraint if it failed, without it otherwise. Flags of earlier calls are gone.
CoreSufficient ==
  /\ failed \subseteq Range(assumptions)
  /\ state = "unsat" /\ marked_failed =>
       Models(Query(failed, unsat_constraint)) = {}

\* The clauses the proof concludes with follow from the formula and consist of negated
\* assumptions and literals of the constraint, which is what
\* LratChecker::add_assumption_clause accepts.
ConclusionImplied ==
  \A C \in conclusion :
    Implies(formula, C) /\ Neg(C) \subseteq Range(eassumptions) \cup econstraint

\* LratChecker::conclude_unsat accepts the end of the proof: one clause if assumptions
\* failed, one for every literal of the constraint if it failed.
ConclusionComplete ==
  state = "unsat" /\ marked_failed =>
    IF unsat THEN conclusion = {{}}
    ELSE IF unsat_constraint THEN Cardinality(conclusion) = Cardinality(econstraint)
    ELSE Cardinality(conclusion) = 1
=============================================================================
