------------------------------- MODULE Block -------------------------------
(***************************************************************************)
(* Blocked clause elimination (block.cpp), run after run: which literals   *)
(* are scheduled depends on bits that clauses set when they come and go.   *)
(*                                                                         *)
(* block starts with all units propagated and their literals taken out of  *)
(* the clauses, so there are none here.  The order of the schedule and of  *)
(* the occurrence lists is left open.                                      *)
(***************************************************************************)
EXTENDS Clauses, SequencesExt

CONSTANTS
  Formulas,          \* the irredundant clauses to start from
  Derived,           \* clauses that may be derived
  FrozenSets,        \* the variables that may be frozen in a run
  blockminclslim, blockmaxclslim, blockocclim,    \* options
  MaxChanges         \* bound on the clauses added or removed between runs

OptionsAssumption ==
  {blockminclslim, blockmaxclslim, blockocclim, MaxChanges} \subseteq Nat

FormulasAssumption ==
  /\ IsFiniteSet(Vars) /\ Vars \subseteq Nat \ {0}
  /\ \A F \in Formulas : F \subseteq ProperClauses
  /\ Derived \subseteq ProperClauses

VARIABLES
  irr, red, extension,
  pure,              \* variables that are no longer active
  frozen,
  block, skip,       \* the literal flags
  noccs, schedule,
  pc, changes

vars == <<irr, red, extension, pure, frozen, block, skip, noccs, schedule, pc, changes>>

occs(F, lit) == {C \in F : lit \in C}

Active(lit) == Var(lit) \notin pure

Large(F) == {C \in F : Cardinality(C) > blockmaxclslim}

Init ==
  /\ irr \in Formulas
  /\ red \in {{}} \cup {{C} : C \in {D \in Derived : D \notin irr /\ Implies(irr, D)}}
  /\ extension = <<>> /\ pure = {} /\ frozen = {}
  /\ block = Lits /\ skip = {}
  /\ noccs = [lit \in Lits |-> 0] /\ schedule = {}
  /\ pc = "idle" /\ changes = 0

\* block_schedule: the skip flags, which nothing resets, the numbers of
\* occurrences, and the schedule.
block_schedule ==
  /\ pc = "idle" /\ irr # {}
  /\ frozen' \in FrozenSets
  /\ skip' = skip \cup UNION {Neg(C) : C \in Large(irr)}
  /\ noccs' = [lit \in Lits |-> Cardinality(occs(irr, lit))]
  /\ LET cands == {lit \in Lits : Active(lit) /\ Var(lit) \notin frozen' /\ lit \notin skip'}
     IN  schedule' = cands \cap block /\ block' = block \ cands
  /\ pc' = "block"
  /\ UNCHANGED <<irr, red, extension, pure, changes>>

Clashes(C, D, lit) == \E other \in C \ {lit} : -other \in D

SizeOk(C) == Cardinality(C) \in blockminclslim..blockmaxclslim

\* All resolvents on lit are tautological.
is_blocked_clause(C, lit) == \A D \in occs(irr, -lit) : Clashes(C, D, lit)

\* block_candidates: clauses that clash with some negative clause.
block_candidates(lit) ==
  {C \in occs(irr, lit) : SizeOk(C) /\ \E D \in occs(irr, -lit) : Clashes(C, D, lit)}

\* block_impossible: a negative clause that clashes with no candidate.
block_impossible(cands, lit) ==
  \E D \in occs(irr, -lit) : \A C \in cands : ~\E other \in D \ {-lit} : -other \in C

\* The three cases of block_literal, each the set of clauses that go.
block_pure_literal(lit) == occs(irr, lit)

block_literal_with_one_negative_occ(lit) ==
  LET neg == occs(irr, -lit)
  IN  IF Large(neg) # {} THEN {}
      ELSE {C \in occs(irr, lit) : SizeOk(C) /\ \E D \in neg : Clashes(C, D, lit)}

block_literal_with_at_least_two_negative_occs(lit) ==
  LET cands == block_candidates(lit)
  IN  IF \/ Large(occs(irr, -lit)) # {}
         \/ Cardinality(cands) > 1 /\ block_impossible(cands, lit)
      THEN {} ELSE {C \in cands : is_blocked_clause(C, lit)}

Blocked(lit) ==
  CASE noccs[-lit] = 0 -> block_pure_literal(lit)
    [] noccs[-lit] > 0 /\ noccs[lit] = 0 -> {}
    [] noccs[-lit] = 1 /\ noccs[lit] > 0 -> block_literal_with_one_negative_occ(lit)
    [] noccs[-lit] > 1 /\ noccs[lit] > 0 -> block_literal_with_at_least_two_negative_occs(lit)

\* block_reschedule: negations of the literals of blocked clauses.
Rescheduled(B) ==
  {-other : other \in {o \in UNION B : Active(o) /\ Var(o) \notin frozen /\ -o \notin skip}}

Decremented(B) == [other \in Lits |-> noccs[other] - Cardinality(occs(B, other))]

\* block_literal and block_reschedule; the early returns leave the bit set.
block_literal(lit) ==
  /\ pc = "block" /\ lit \in schedule
  /\ IF ~Active(lit) \/ Var(lit) \in frozen \/ noccs[-lit] > blockocclim
     THEN /\ schedule' = schedule \ {lit}
          /\ UNCHANGED <<irr, extension, pure, block, noccs>>
     ELSE LET B == Blocked(lit)
          IN  /\ irr' = irr \ B
              /\ extension' = extension \o [i \in 1..Cardinality(B) |-> StackEntry({lit}, SetToSeq(B)[i])]
              /\ pure' = IF noccs[-lit] = 0 THEN pure \cup {Var(lit)} ELSE pure
              /\ block' = (block \cup Neg(UNION B)) \ {lit}
              /\ noccs' = Decremented(B)
              /\ schedule' = (schedule \ {lit}) \cup
                             {other \in Rescheduled(B) : Var(other) \notin pure'}
  /\ UNCHANGED <<red, frozen, skip, pc, changes>>

\* The end of block; it may be told to stop before the schedule is empty.
Finish ==
  /\ pc = "block"
  /\ pc' = IF schedule = {} THEN "done" ELSE "stopped"
  /\ schedule' = {}
  /\ red' = {C \in red : \A lit \in C : Active(lit)}
  /\ UNCHANGED <<irr, extension, pure, frozen, block, skip, noccs, changes>>

Change ==
  /\ pc = "done" /\ changes < MaxChanges
  /\ pc' = "idle" /\ changes' = changes + 1
  /\ UNCHANGED <<red, extension, pure, frozen, skip, noccs, schedule>>

\* mark_removed: other procedures drop a clause that the rest implies.
Drop(C) ==
  /\ Change /\ Implies(irr \ {C}, C)
  /\ irr' = irr \ {C}
  /\ block' = block \cup Neg(C)

\* mark_added: other procedures derive a clause.
Derive(C) ==
  /\ Change /\ C \notin irr /\ Implies(irr, C) /\ \A lit \in C : Active(lit)
  /\ irr' = irr \cup {C}
  /\ block' = block \cup C

Next ==
  \/ block_schedule \/ Finish
  \/ \E lit \in schedule : block_literal(lit)
  \/ \E C \in irr : Drop(C)
  \/ \E C \in Derived : Derive(C)

Spec == Init /\ [][Next]_vars

-----------------------------------------------------------------------------
\* Type invariant with the one the code states: "noccs gives the number of
\* actual occurrences of lit in non-garbage clauses".
TypeOK ==
  /\ irr \subseteq ProperClauses /\ red \subseteq ProperClauses
  /\ pure \subseteq Vars /\ block \subseteq Lits /\ skip \subseteq Lits
  /\ pc \in {"idle", "block", "done", "stopped"}
  /\ pc = "block" => \A lit \in Lits : noccs[lit] = Cardinality(occs(irr, lit))

\* What External::extend and restore_clauses rely on (Incremental!Weaken): each
\* clause that goes is redundant in what is left, with its witness not frozen,
\* in this run and all the later ones.
WeakenContract == pc = "block" => Weakens(irr, extension, irr', extension', frozen)

\* The bits are good enough: a run that ends by itself leaves no blocked
\* clause behind but those that a size, occurrence or skip limit protects,
\* although it only looks at literals of clauses that changed since they were
\* last tried, frozen in between or not.
BlockComplete ==
  pc = "done" =>
    \A lit \in Lits \ skip : \A C \in occs(irr, lit) :
      \/ Var(lit) \in frozen \cup pure
      \/ ~SizeOk(C) \/ Cardinality(occs(irr, -lit)) > blockocclim
      \/ Large(occs(irr, -lit)) # {}
      \/ ~is_blocked_clause(C, lit)
=============================================================================
