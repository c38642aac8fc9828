------------------------------ MODULE Subsume ------------------------------
(***************************************************************************)
(* Forward subsumption and strengthening (subsume.cpp).  The clauses are   *)
(* taken by size; each is tried against the smaller ones that were         *)
(* connected before it and is then connected with one of its literals.     *)
(* Variables carry a bit that says a clause with them was added, clauses   *)
(* a flag that says an unfinished round has not tried them.  Clauses that  *)
(* are too large, or redundant and not likely to survive the next          *)
(* reduction, are passed over.                                             *)
(*                                                                         *)
(* The order of the literals in a clause is left open, and so are glue and *)
(* the limits of the last reduction.                                       *)
(***************************************************************************)
EXTENDS Clauses, SequencesExt

CONSTANTS
  Databases,           \* sets of clauses [lits, red]
  Learnable,           \* clauses that search may add, if they are implied
  MaxRounds,           \* bound on the number of rounds
  MayAbort,            \* the effort limit may end a round
  subsumeclslim,       \* option, the size of the largest clauses that are tried
  subsumeocclim        \* option, also for subsumebinlim

OptionsAssumption ==
  MaxRounds \in Nat /\ MayAbort \in BOOLEAN /\ subsumeclslim \in Nat /\ subsumeocclim \in Nat

VARIABLES
  original,            \* ghost: the irredundant clauses at the beginning
  clauses,             \* from identifiers to clauses
  bits,                \* variables with the flag 'subsume'
  fixed,               \* root level assigned literals
  pc, rounds,
  schedule,            \* identifiers of clauses still to be tried
  occs,                \* pairs of a literal and a clause connected to it
  shrunken,
  limited,             \* ghost: some round was aborted or some clause not connected
  passed               \* ghost: clauses once passed over by a round, or added unmarked

vars == <<original, clauses, bits, fixed, pc, rounds, schedule, occs, shrunken, limited, passed>>

VarsOf(C) == {Var(lit) : lit \in C}

Kept == {k \in DOMAIN clauses : ~clauses[k].garbage}

Irredundant == {clauses[k].lits : k \in {j \in Kept : ~clauses[j].red}}

NewClause(C, red) == [lits |-> C, red |-> red, subsume |-> FALSE, garbage |-> FALSE]

Large(k) == Cardinality(clauses[k].lits) > 2

\* likely_to_be_kept_clause fails for redundant clauses only, and not for
\* binary ones, which have low glue.  For the others it depends on their glue,
\* which improves, and on limits that every reduction sets anew.
PerhapsNotKept == {k \in Kept : clauses[k].red /\ Large(k)}

Init ==
  /\ \E D \in Databases :
       /\ clauses = [k \in DOMAIN D |-> NewClause(D[k].lits, D[k].red)]
       /\ original = {D[k].lits : k \in {j \in DOMAIN D : ~D[j].red}}
       /\ passed \in SUBSET PerhapsNotKept
       /\ bits = UNION {VarsOf(D[k].lits) : k \in DOMAIN D \ passed}
  /\ fixed = {} /\ pc = "idle" /\ rounds = 0
  /\ schedule = {} /\ occs = {} /\ shrunken = {} /\ limited = FALSE

\* new_clause, with mark_added if the clause is likely to be kept.
Add(C, red) ==
  /\ pc = "idle" /\ rounds \in 1..(MaxRounds - 1) /\ C \cap (fixed \cup Neg(fixed)) = {}
  /\ Implies(original, C) /\ \A k \in Kept : clauses[k].lits # C
  /\ clauses' = Append(clauses, NewClause(C, red))
  /\ \/ bits' = bits \cup VarsOf(C) /\ UNCHANGED passed
     \/ Len(clauses') \in PerhapsNotKept' /\ passed' = passed \cup {Len(clauses')} /\ UNCHANGED bits
  /\ UNCHANGED <<original, fixed, pc, rounds, schedule, occs, shrunken, limited>>

\* Search fixes a literal.
Fix(lit) ==
  /\ pc = "idle" /\ rounds \in 1..(MaxRounds - 1) /\ fixed = {} /\ Implies(original, {lit})
  /\ fixed' = {lit}
  /\ UNCHANGED <<original, clauses, bits, pc, rounds, schedule, occs, shrunken, limited, passed>>

Unfixed(C) == \A lit \in C : {lit, -lit} \cap fixed = {}

\* Clauses of limited size which are likely to be kept, without values and
\* with at least two variables that were added.
Scheduled(k, unlikely) ==
  /\ Cardinality(clauses[k].lits) <= subsumeclslim /\ k \notin unlikely
  /\ Unfixed(clauses[k].lits)
  /\ Cardinality(VarsOf(clauses[k].lits) \cap bits) >= 2

\* The start of subsume_round.  If the last round left no clause over, all are
\* to be tried.
Round ==
  /\ pc = "idle" /\ rounds < MaxRounds
  /\ \E unlikely \in SUBSET PerhapsNotKept :
       LET S == {k \in Kept : Scheduled(k, unlikely)}
           left == \E k \in S : clauses[k].subsume
       IN
         /\ schedule' = S
         /\ passed' = passed \cup unlikely \cup {k \in Kept : Cardinality(clauses[k].lits) > subsumeclslim}
         /\ clauses' = [k \in DOMAIN clauses |->
                          IF ~left /\ k \in S /\ Large(k) THEN [clauses[k] EXCEPT !.subsume = TRUE]
                          ELSE clauses[k]]
  /\ pc' = "try" /\ rounds' = rounds + 1 /\ occs' = {} /\ shrunken' = {}
  /\ UNCHANGED <<original, bits, fixed, limited>>

\* The sort by size is stable.
Smallest(k) ==
  /\ k \in schedule
  /\ \A j \in schedule \ {k} : \/ Cardinality(clauses[k].lits) < Cardinality(clauses[j].lits)
                               \/ Cardinality(clauses[k].lits) = Cardinality(clauses[j].lits) /\ k < j

Connected == {o[2] : o \in occs}

Flipped(d, c) == d.lits \cap Neg(c.lits)

\* subsume_check: all literals are marked, at most one in the opposite phase.
SubsumeCheck(d, c) ==
  /\ \A lit \in d.lits : Var(lit) \in VarsOf(c.lits)
  /\ Cardinality(Flipped(d, c)) <= 1

\* subsume_clause: a redundant clause takes the place of an irredundant one.
Takes(d, c) == [d EXCEPT !.red = @ /\ c.red]

Fewest(C) ==
  {lit \in C : \A other \in C : Cardinality({o \in occs : o[1] = lit}) <= Cardinality({o \in occs : o[1] = other})}

\* Only clauses of added variables can be new subsuming ones.
Connects(C) == VarsOf(C) \subseteq bits'

\* Connect the clause that was tried with a literal of fewest occurrences.
Connect(k, C) ==
  \E lit \in Fewest(C) :
    LET many == Cardinality({o \in occs : o[1] = lit}) > subsumeocclim
    IN  /\ occs' = IF Connects(C) /\ ~many THEN occs \cup {<<lit, k>>} ELSE occs
        /\ limited' = (limited \/ (Connects(C) /\ many))

Tried(k) == Large(k) /\ clauses[k].subsume

Trying(k) ==
  /\ pc = "try" /\ Smallest(k)
  /\ schedule' = schedule \ {k}
  /\ UNCHANGED <<original, fixed, pc, rounds, passed>>

\* try_to_subsume_clause removes the clause.
Subsumed(k, j) ==
  /\ Trying(k) /\ Tried(k) /\ j \in Connected
  /\ SubsumeCheck(clauses[j], clauses[k]) /\ Flipped(clauses[j], clauses[k]) = {}
  /\ clauses' = [clauses EXCEPT ![k].garbage = TRUE, ![k].subsume = FALSE,
                                ![j] = Takes(clauses[j], clauses[k])]
  /\ UNCHANGED <<bits, occs, shrunken, limited>>

\* try_to_subsume_clause and strengthen_clause remove a literal, shrink_clause
\* marks the variables as added, and the clause is connected without it.
Strengthened(k, j) ==
  /\ Trying(k) /\ Tried(k) /\ j \in Connected
  /\ SubsumeCheck(clauses[j], clauses[k]) /\ Flipped(clauses[j], clauses[k]) # {}
  /\ LET C == clauses[k].lits \ Neg(clauses[j].lits)
     IN  /\ clauses' = [clauses EXCEPT ![k].lits = C, ![k].subsume = FALSE]
         /\ bits' = bits \cup VarsOf(C)
         /\ Connect(k, C)
  /\ shrunken' = shrunken \cup {k}

\* Nothing happens to the clause, or it is not tried; it is connected.
Survives(k) ==
  /\ Trying(k)
  /\ ~Tried(k) \/ \A j \in Connected : ~SubsumeCheck(clauses[j], clauses[k])
  /\ clauses' = [clauses EXCEPT ![k].subsume = IF Large(k) THEN FALSE ELSE @]
  /\ UNCHANGED <<bits, shrunken>>
  /\ Connect(k, clauses[k].lits)

\* Mutant: strengthened clauses are marked only before the bits are reset.
Shrunken_none == {}

Shrunken == UNION {VarsOf(clauses[k].lits) : k \in shrunken}

\* The end of the round.  The bits are reset only if it is complete.
Finish ==
  /\ pc = "try" /\ (schedule = {} \/ MayAbort)
  /\ bits' = (IF schedule = {} THEN {} ELSE bits) \cup Shrunken
  /\ pc' = "idle" /\ schedule' = {} /\ occs' = {} /\ shrunken' = {}
  /\ limited' = (limited \/ schedule # {})
  /\ UNCHANGED <<original, clauses, fixed, rounds, passed>>

Next ==
  \/ Round \/ Finish
  \/ \E C \in Learnable, red \in BOOLEAN : Add(C, red)
  \/ \E lit \in Lits : Fix(lit)
  \/ \E k \in schedule : Survives(k) \/ \E j \in Connected : Subsumed(k, j) \/ Strengthened(k, j)

Spec == Init /\ [][Next]_vars

-----------------------------------------------------------------------------
\* Type invariant: connected clauses are kept, with the literal they hang on,
\* and no larger than what is still to be tried.
TypeOK ==
  /\ \A o \in occs : o[2] \in Kept /\ o[1] \in clauses[o[2]].lits
  /\ \A k \in schedule : k \in Kept /\ Unfixed(clauses[k].lits)
  /\ \A o \in occs, k \in schedule : Cardinality(clauses[o[2]].lits) <= Cardinality(clauses[k].lits)
  /\ bits \subseteq Vars /\ rounds \in 0..MaxRounds /\ pc \in {"idle", "try"}

\* All clauses follow from the formula.
DatabaseImplied == \A k \in Kept : Implies(original, clauses[k].lits)

\* The irredundant clauses still say what the formula said, so that redundant
\* ones may be dropped.
NothingLost == \A C \in original : Implies(Irredundant, C)

Pairs(k, j) ==
  k # j /\ Large(k) /\ Unfixed(clauses[k].lits) /\ SubsumeCheck(clauses[j], clauses[k])

\* Of the clauses never passed over nothing is missed: between rounds, one can
\* only be subsumed or strengthened by one whose variables all count as added,
\* so that the next round meets both; unless a round was cut short.  A clause
\* that was passed over, for its size or its glue, may be missed for good: the
\* round forgets which variables were added although it did not try it.
Complete ==
  (pc = "idle" /\ ~limited) =>
    \A k, j \in Kept \ passed : Pairs(k, j) => VarsOf(clauses[j].lits) \subseteq bits
=============================================================================
