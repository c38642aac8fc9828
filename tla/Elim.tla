------------------------------- MODULE Elim -------------------------------
(***************************************************************************)
(* One phase of bounded variable elimination (elim.cpp) with gate          *)
(* detection (gates.cpp), backward subsumption of the resolvents           *)
(* (backward.cpp) and variable instantiation (instantiate.cpp).            *)
(*                                                                         *)
(* Marking a clause garbage is removing it from irr.  Occurrence lists are *)
(* the clauses of irr with the literal; the order in which a list or the   *)
(* schedule is walked is left open.                                        *)
(***************************************************************************)
EXTENDS Clauses, SequencesExt

CONSTANTS
  Formulas,         \* the irredundant clauses to start from
  Learned,          \* clauses of which one may have been learned
  Frozen,           \* variables
  elimocclim, elimboundmax, elimsubst, elimbackward, instantiate   \* options

OptionsAssumption ==
  /\ Frozen \subseteq Vars
  /\ elimocclim \in Nat /\ elimboundmax \in Nat
  /\ {elimsubst, elimbackward, instantiate} \subseteq BOOLEAN

VARIABLES
  original,         \* ghost: the formula at the start
  irr, red,         \* clauses; they keep root-level falsified literals
  units,            \* root-level assignment
  extension, eliminated,
  schedule,         \* variables still to be tried
  elimbound,
  pc, pivot,        \* where try_to_eliminate_variable is
  gates,            \* gate clauses of the pivot
  pairs,            \* pairs of clauses still to be resolved
  budget,           \* resolvents still allowed
  backward,         \* queue of clauses for backward subsumption
  cur               \* the loop of elim_backward_clause

vars == <<original, irr, red, units, extension, eliminated, schedule, elimbound,
          pc, pivot, gates, pairs, budget, backward, cur>>

NoLoop == [clause |-> {}, rest |-> {}, satisfied |-> FALSE, off |-> FALSE]

Formula == irr \cup Units(units)

unsat == {} \in irr

Active(U) == (Vars \ eliminated) \ {Var(lit) : lit \in U}

occs(F, lit) == {C \in F : lit \in C}

Live(C, U) == C \ Neg(U)

Init ==
  /\ original \in Formulas
  /\ units = {lit \in Lits : {lit} \in original}
  /\ irr = {C \in original : C \cap units = {}}
  /\ red \in {{}} \cup {{C} : C \in {D \in Learned : D \notin irr /\ Implies(original, D)}}
  /\ extension = <<>> /\ eliminated = {}
  /\ schedule = Active(units) \ Frozen
  /\ elimbound = 0
  /\ pc = "pop" /\ pivot = 0
  /\ gates = {} /\ pairs = {} /\ budget = 0 /\ backward = <<>> /\ cur = NoLoop

\* elim_update_removed_clause: the unfrozen variables of clauses that go are
\* tried again, the pivot excepted.
Rescheduled(F, U) ==
  schedule \cup
    {v \in Active(U) \ (Frozen \cup {Var(pivot)}) : \E C \in irr \ F : {v, -v} \cap C # {}}

-----------------------------------------------------------------------------
\* elim_propagate: propagation of the new units through the irredundant
\* clauses, removing those that are satisfied.
RECURSIVE elim_propagate(_, _, _)
elim_propagate(F, U, work) ==
  IF work = {} THEN [irr |-> F, units |-> U]
  ELSE LET lit == CHOOSE l \in work : TRUE
           ns  == occs(F, -lit)
           sat == {C \in ns : C \cap U # {}}
           new == UNION {Live(C, U) : C \in {D \in ns \ sat : Cardinality(Live(D, U)) = 1}}
       IN  IF Tautological(U \cup new) \/ \E C \in ns : C \subseteq Neg(U)
           THEN [irr |-> F \cup {{}}, units |-> U]
           ELSE elim_propagate(F \ (sat \cup occs(F, lit)), U \cup new, (work \ {lit}) \cup new)

Unchanged(F) == [irr |-> F, units |-> units, new |-> {}]

\* A unit resolvent is assigned, and propagated at once if eagerly.
Assigned(r, eagerly) ==
  LET p == elim_propagate(irr, units \cup r, r)
  IN  IF eagerly THEN [irr |-> p.irr, units |-> p.units, new |-> {}]
                 ELSE [irr |-> irr, units |-> units \cup r, new |-> {}]

\* Self-subsumption: the antecedents that contain their resolvent.
Subsumed(C, D, r) ==
  {E \in {C, D} : Cardinality(Live(E, units)) > Cardinality(r)}

\* resolve_clauses: what resolving C and D on the pivot leaves, and the
\* resolvent if it is not redundant.
resolve_clauses(C, D, eagerly) ==
  LET first == IF Cardinality(C) > Cardinality(D) THEN D ELSE C
      sat == {E \in {C, D} : E \cap units # {}}
      r == Live(Resolvent(C, D, pivot), units)
  IN  IF ~({C, D} \subseteq irr) THEN Unchanged(irr)
      ELSE IF first \in sat THEN Unchanged(irr \ {first})
      ELSE IF sat # {} THEN Unchanged(irr \ sat)
      ELSE IF Tautological(r) THEN Unchanged(irr)
      ELSE IF r = {} THEN Unchanged(irr \cup {{}})
      ELSE IF Cardinality(r) = 1 THEN Assigned(r, eagerly)
      ELSE IF Subsumed(C, D, r) # {} THEN Unchanged((irr \ Subsumed(C, D, r)) \cup {r})
      ELSE [Unchanged(irr) EXCEPT !.new = {r}]

-----------------------------------------------------------------------------
\* Mutant: further literals of the clause are overlooked.
Binary_long(C, lit, other) == C \cap units = {} /\ {lit, other} \subseteq C /\ other # lit

\* second_literal_in_binary_clause: C is {lit, other} but for false literals.
Binary(C, lit, other) ==
  lit \in C /\ other # lit /\ C \cap units = {} /\ Live(C, units) = {lit, other}

Seconds(lit) == {other \in Lits : \E C \in irr : Binary(C, lit, other)}

Unassigned(C) == C \ (units \cup Neg(units))

\* find_equivalence: pivot = -other.
Equivalences ==
  {{C, D} : <<C, D>> \in {P \in irr \X irr : \E other \in Lits :
                           Binary(P[1], pivot, other) /\ Binary(P[2], -pivot, -other)}}

\* find_and_gate: the long clause with -p, and a binary clause with p for the
\* negation of each of its other literals.
AndGates(p) ==
  {{C} \cup {D \in irr : \E lit \in Live(C, units) \ {-p} : Binary(D, p, -lit)} :
     C \in {E \in occs(irr, -p) : /\ Cardinality(E) >= 3 /\ E \cap units = {}
                                  /\ Neg(Live(E, units) \ {-p}) \subseteq Seconds(p)}}

\* find_if_then_else: ternary clauses are found without a look at the sign of
\* the assigned literals.
IfThenElses ==
  LET T(p) == {C \in occs(irr, p) : Cardinality(Unassigned(C)) = 3}
      Match(C, lit, D) ==
        \E c \in Lits : Unassigned(C) = {pivot, lit, c} /\ Unassigned(D) = {-pivot, lit, -c}
  IN  {{Q[1], Q[2], Q[3], Q[4]} :
         Q \in {R \in T(pivot) \X T(pivot) \X T(-pivot) \X T(-pivot) : \E b \in R[1] :
                 /\ {Var(lit) : lit \in Unassigned(R[1])} # {Var(lit) : lit \in Unassigned(R[2])}
                 /\ Match(R[1], b, R[3]) /\ Match(R[2], -b, R[4])}}

\* find_xor_gate: all clauses over the same variables with an even number of
\* changed signs.
Xors ==
  LET Signs(C) == {D \in irr : /\ {Var(lit) : lit \in Unassigned(D)} = {Var(lit) : lit \in Unassigned(C)}
                               /\ Cardinality(Unassigned(D) \ Unassigned(C)) % 2 = 0}
      PowerOf2(n) == Cardinality(SUBSET (1..n))
  IN  {Signs(C) : C \in {E \in occs(irr, pivot) :
         LET n == Cardinality(Unassigned(E))
         IN  n >= 3 /\ Cardinality({Unassigned(D) : D \in Signs(E)}) = PowerOf2(n - 1)}}

\* The first kind of gate there is, in the order of find_gate_clauses.
Gates ==
  LET kinds == <<Equivalences, AndGates(pivot), AndGates(-pivot), IfThenElses, Xors>>
      found == {k \in DOMAIN kinds : kinds[k] # {}}
  IN  IF ~elimsubst \/ found = {} THEN {{}} ELSE kinds[Min(found)]

\* The occurrence lists are sorted by size.
Smallest(P) ==
  \A Q \in pairs :
    \/ Cardinality(P[1]) < Cardinality(Q[1])
    \/ Cardinality(P[1]) = Cardinality(Q[1]) /\ Cardinality(P[2]) <= Cardinality(Q[2])

\* The pairs of the two resolution loops.
Pairs(G) ==
  {P \in occs(irr, pivot) \X occs(irr, -pivot) :
     G = {} \/ (P[1] \in G) # (P[2] \in G)}

-----------------------------------------------------------------------------
\* elim_round takes the next variable and try_to_eliminate_variable looks at
\* how often it occurs.
Pop(v) ==
  /\ pc = "pop" /\ ~unsat /\ v \in schedule
  /\ schedule' = schedule \ {v}
  /\ LET pos == Cardinality(occs(irr, v))
         neg == Cardinality(occs(irr, -v))
         p == IF pos > neg THEN -v ELSE v
     IN  IF v \notin Active(units) \/ (pos > 0 /\ neg > 0 /\ Max({pos, neg}) > elimocclim)
         THEN UNCHANGED <<pc, pivot, budget>>
         ELSE /\ pivot' = p
              /\ budget' = pos + neg + elimbound
              /\ pc' = IF pos > 0 /\ neg > 0 THEN "gates" ELSE "mark"
  /\ UNCHANGED <<original, irr, red, units, extension, eliminated, elimbound,
                 gates, pairs, backward, cur>>

\* assign_unit and elim_propagate.
Propagate(lit) ==
  LET p == elim_propagate(irr, units \cup {lit}, {lit})
  IN  /\ irr' = p.irr /\ units' = p.units
      /\ schedule' = Rescheduled(irr', units')
      /\ pc' = IF {} \in irr' \/ {pivot, -pivot} \cap units' # {} THEN "backward" ELSE "gates"

\* mark_binary_literals and find_equivalence: hyper unary resolution.
HyperUnary ==
  /\ pc = "gates" /\ elimsubst
  /\ \/ \E lit \in Seconds(pivot) : -lit \in Seconds(pivot) /\ Propagate(pivot)
     \/ \E lit \in Seconds(pivot) \cap Seconds(-pivot) : Propagate(lit)
     \/ /\ Equivalences \cup AndGates(pivot) = {}
        /\ \E lit \in Seconds(-pivot) : -lit \in Seconds(-pivot) /\ Propagate(-pivot)
  /\ UNCHANGED <<original, red, extension, eliminated, elimbound,
                 pivot, gates, pairs, budget, backward, cur>>

\* find_gate_clauses, once there are no units left to find.
FindGate ==
  /\ pc = "gates"
  /\ elimsubst =>
       /\ \A lit \in Seconds(pivot) : -lit \notin Seconds(pivot)
       /\ Equivalences = {} => Seconds(pivot) \cap Seconds(-pivot) = {}
       /\ Gates \notin {Equivalences, AndGates(pivot)} =>
            \A lit \in Seconds(-pivot) : -lit \notin Seconds(-pivot)
  /\ gates' \in Gates
  /\ pc' = "bound" /\ pairs' = Pairs(gates')
  /\ UNCHANGED <<original, irr, red, units, extension, eliminated, schedule,
                 elimbound, pivot, budget, backward, cur>>

\* elim_resolvents_are_bounded, one pair; units are propagated eagerly.
Bound(P) ==
  LET r == resolve_clauses(P[1], P[2], TRUE)
  IN  /\ pc = "bound" /\ Smallest(P) /\ pairs' = pairs \ {P}
      /\ irr' = r.irr /\ units' = r.units
      /\ schedule' = Rescheduled(irr', units')
      /\ budget' = budget - Cardinality(r.new)
      /\ pc' = IF budget' < 0 \/ {} \in irr' \/ {pivot, -pivot} \cap units' # {}
               THEN "backward" ELSE "bound"
      /\ UNCHANGED <<original, red, extension, eliminated, elimbound, pivot, gates,
                     backward, cur>>

Bounded ==
  /\ pc = "bound" /\ pairs = {}
  /\ pc' = "add" /\ pairs' = Pairs(gates)
  /\ UNCHANGED <<original, irr, red, units, extension, eliminated, schedule,
                 elimbound, pivot, gates, budget, backward, cur>>

\* elim_add_resolvents, one pair; the propagation of units is delayed.
AddResolvent(P) ==
  LET r == resolve_clauses(P[1], P[2], FALSE)
  IN  /\ pc = "add" /\ ~unsat /\ Smallest(P) /\ pairs' = pairs \ {P}
      /\ irr' = r.irr \cup r.new /\ units' = r.units
      /\ schedule' = Rescheduled(irr', units')
      /\ backward' = IF elimbackward THEN backward \o SetToSeq(r.new \ irr) ELSE backward
      /\ UNCHANGED <<original, red, extension, eliminated, elimbound, pc, pivot, gates,
                     budget, cur>>

Added ==
  /\ pc = "add" /\ (pairs = {} \/ unsat)
  /\ pc' = IF unsat THEN "backward" ELSE "mark"
  /\ UNCHANGED <<original, irr, red, units, extension, eliminated, schedule,
                 elimbound, pivot, gates, pairs, budget, backward, cur>>

\* Mutant: with a gate only the clauses of one phase are saved.
Pushed_half(lit) ==
  LET S == {C \in occs(irr, lit) : gates = {} \/ (C \in gates /\ lit = pivot)}
  IN  [i \in 1..Cardinality(S) |-> StackEntry({lit}, SetToSeq(S)[i])]

\* The clauses with lit go on the extension stack, gate clauses only if there
\* is a gate.
Pushed(lit) ==
  LET S == {C \in occs(irr, lit) : gates = {} \/ C \in gates}
  IN  [i \in 1..Cardinality(S) |-> StackEntry({lit}, SetToSeq(S)[i])]

\* mark_eliminated_clauses_as_garbage and mark_eliminated.
MarkEliminated ==
  /\ pc = "mark" /\ pc' = "backward"
  /\ extension' = extension \o Pushed(pivot) \o Pushed(-pivot)
  /\ irr' = irr \ (occs(irr, pivot) \cup occs(irr, -pivot))
  /\ eliminated' = eliminated \cup ({Var(pivot)} \cap Active(units))
  /\ schedule' = Rescheduled(irr', units)
  /\ UNCHANGED <<original, red, units, elimbound, pivot, gates, pairs, budget, backward, cur>>

-----------------------------------------------------------------------------
\* elim_backward_clause takes the next clause of the queue and the literal of
\* it with the fewest occurrences.
Dequeue ==
  /\ pc = "backward" /\ cur.rest = {} /\ backward # <<>> /\ ~unsat
  /\ backward' = Tail(backward)
  /\ LET C == Head(backward)
         n(lit) == Cardinality(occs(irr, lit))
     IN  IF C \in irr /\ C \cap units = {}
         THEN \E best \in Live(C, units) :
                /\ \A lit \in Live(C, units) : n(best) <= n(lit)
                /\ cur' = [NoLoop EXCEPT !.clause = C,
                             !.rest = IF n(best) > elimocclim THEN {} ELSE occs(irr, best) \ {C}]
                /\ UNCHANGED <<irr, schedule>>
         ELSE /\ irr' = irr \ {C} /\ cur' = NoLoop
              /\ schedule' = Rescheduled(irr', units)
  /\ UNCHANGED <<original, red, units, extension, eliminated, elimbound, pc, pivot,
                 gates, pairs, budget>>

\* One clause D of the list.  satisfied and off (size = UINT_MAX) are set for
\* one clause and still set for the next.
Backward(D) ==
  LET C == Live(cur.clause, units)
      negated == Neg(C) \cap D
      satisfied == cur.satisfied \/ D \cap units # {}
      skip == D \notin irr \/ cur.off \/ Cardinality(D) < Cardinality(C)
      found == Cardinality(C \cap D) + Cardinality(negated) = Cardinality(C)
      unit == Live(D, units) \ negated
      p == elim_propagate(irr, units \cup unit, unit)
      loop == [cur EXCEPT !.rest = @ \ {D}]
      Go(F, U, l, q) == irr' = F /\ units' = U /\ cur' = l /\ backward' = q
  IN  /\ pc = "backward" /\ D \in cur.rest /\ ~unsat
      /\ IF skip THEN Go(irr, units, loop, backward)
         ELSE IF satisfied THEN Go(irr \ {D}, units, [loop EXCEPT !.satisfied = TRUE], backward)
         ELSE IF Cardinality(negated) > 1 THEN Go(irr, units, [loop EXCEPT !.off = TRUE], backward)
         ELSE IF ~found THEN Go(irr, units, loop, backward)
         ELSE IF negated = {} THEN Go(irr \ {D}, units, loop, backward)
         ELSE IF Cardinality(unit) = 1 THEN Go(p.irr, p.units, NoLoop, backward)
         ELSE IF \E lit \in negated : Cardinality(occs(irr, lit)) > elimocclim
              THEN Go(irr, units, loop, backward)
              ELSE Go((irr \ {D}) \cup {D \ negated}, units, loop, Append(backward, D \ negated))
      /\ schedule' = Rescheduled(irr', units')
      /\ UNCHANGED <<original, red, extension, eliminated, elimbound, pc, pivot,
                     gates, pairs, budget>>

\* unmark_gate_clauses comes before the queue, with no effect on it.
Tried ==
  /\ pc = "backward" /\ (unsat \/ (cur.rest = {} /\ backward = <<>>))
  /\ pc' = "pop" /\ pivot' = 0 /\ gates' = {} /\ pairs' = {} /\ budget' = 0
  /\ backward' = <<>> /\ cur' = NoLoop
  /\ UNCHANGED <<original, irr, red, units, extension, eliminated, schedule, elimbound>>

-----------------------------------------------------------------------------
\* increase_elimination_bound doubles the bound up to its maximum.
Increased(bound) == Min({IF bound = 0 THEN 1 ELSE 2 * bound, elimboundmax})

\* The round ends: redundant clauses with eliminated variables are garbage.
\* A complete phase raises the bound and schedules every active variable.
EndRound ==
  /\ pc = "pop" /\ (unsat \/ schedule = {})
  /\ red' = IF unsat THEN red
            ELSE {C \in red : \A lit \in C : Var(lit) \notin eliminated}
  /\ IF ~unsat /\ elimbound < elimboundmax
     THEN /\ elimbound' = Increased(elimbound)
          /\ schedule' = Active(units) \ Frozen
          /\ pc' = "pop"
     ELSE pc' = "end" /\ UNCHANGED <<elimbound, schedule>>
  /\ UNCHANGED <<original, irr, units, extension, eliminated, pivot, gates, pairs,
                 budget, backward, cur>>

\* The resolution limit is hit or the solver is told to stop.
Abandon ==
  /\ pc = "pop" /\ ~unsat /\ schedule # {}
  /\ red' = {C \in red : \A lit \in C : Var(lit) \notin eliminated}
  /\ pc' = "end" /\ schedule' = {}
  /\ UNCHANGED <<original, irr, units, extension, eliminated, elimbound, pivot, gates,
                 pairs, budget, backward, cur>>

\* instantiate_candidate: lit is removed from C if assuming it, and the rest of
\* C to be false, propagates to a conflict.
Instantiate(C, lit) ==
  /\ instantiate /\ pc = "end" /\ ~unsat
  /\ Var(lit) \in Active(units) \ Frozen /\ Cardinality(occs(irr, lit)) = 1
  /\ C \in irr /\ lit \in C /\ C \cap units = {} /\ Cardinality(Live(C, units)) >= 3
  /\ Conflicting(Formula \cup red, {lit} \cup Neg(C \ {lit}))
  /\ irr' = (irr \ {C}) \cup {C \ {lit}}
  /\ UNCHANGED <<original, red, units, extension, eliminated, schedule, elimbound,
                 pc, pivot, gates, pairs, budget, backward, cur>>

Next ==
  \/ \E v \in Vars : Pop(v)
  \/ HyperUnary \/ FindGate \/ Bounded \/ Added \/ MarkEliminated
  \/ \E P \in pairs : Bound(P) \/ AddResolvent(P)
  \/ Dequeue \/ Tried \/ EndRound \/ Abandon
  \/ \E D \in cur.rest : Backward(D)
  \/ \E C \in irr : \E lit \in C : Instantiate(C, lit)

Spec == Init /\ [][Next]_vars /\ WF_vars(Next)

-----------------------------------------------------------------------------
\* Type invariant: eliminated variables are gone from the irredundant clauses
\* and were not frozen, the root-level assignment is consistent.
TypeOK ==
  /\ irr \subseteq ProperClauses /\ Consistent(units)
  /\ eliminated \subseteq Vars \ Frozen
  /\ \A C \in Formula : \A lit \in C : Var(lit) \notin eliminated
  /\ schedule \subseteq Vars \ Frozen
  /\ pc \in {"pop", "gates", "bound", "add", "mark", "backward", "end"}

\* Every model of what is left extends to a model of the formula, at each step
\* of the elimination: no clause is dropped that neither the rest implies nor
\* the extension stack repairs.
ModelsExtend ==
  \A sigma \in Models(Formula) : Satisfies(Extend(extension, sigma), original)

\* Everything in the database follows from the formula: an empty clause means
\* that it is unsatisfiable.
DatabaseImplied == \A C \in Formula \cup red : Implies(original, C)

\* What restore_clauses relies on (Incremental!Weaken): each entry is pushed
\* with a clause that is redundant, with an unfrozen witness, in the formula
\* that still has the clauses pushed after it; and a clause that is dropped
\* without an entry follows from those that remain or go on the stack.
WeakenContract == Weakens(Formula, extension, Formula', extension', Frozen)
=============================================================================
