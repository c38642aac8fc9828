---------------------------- MODULE LratChecker ----------------------------
(***************************************************************************)
(* lratchecker.cpp: checks the chains of derived clauses, the clauses that *)
(* are weakened and restored, the end of a proof and its conclusion.       *)
(*                                                                         *)
(* Like the builder it is a record c with an operator for each function:   *)
(*   clauses      id -> literals, the hash table                           *)
(*   num_clauses, num_garbage, size_clauses, size_vars, num_finalized      *)
(*   current_id                                                            *)
(*   weakened     clauses_to_reconstruct: id -> literals                   *)
(*   assumptions, constraint, assumption_clauses   sets                    *)
(*   concluded                                                             *)
(*   fatal        "no", or the check that failed                           *)
(***************************************************************************)
EXTENDS Clauses, SequencesExt

CONSTANT strict_lrat         \* the solver makes the chains itself

CheckerConstructed ==
  [clauses |-> <<>>, num_clauses |-> 0, num_garbage |-> 0, size_clauses |-> 0, size_vars |-> 0,
   num_finalized |-> 0, current_id |-> 0, weakened |-> <<>>, assumptions |-> {}, constraint |-> {},
   assumption_clauses |-> {}, concluded |-> FALSE, fatal |-> "no"]

Failed(c, what) == [c EXCEPT !.fatal = IF @ = "no" THEN what ELSE @]

\* enlarge_vars.
CheckerEnlarge(c, lits) ==
  LET m == Max({0} \cup {Var(lits[i]) : i \in DOMAIN lits})
  IN  [c EXCEPT !.size_vars = IF m = 0 \/ m < @ THEN @ ELSE Min({n \in {2, 4, 8} : n > m})]

With(f, id, lits) == [x \in DOMAIN f \cup {id} |-> IF x = id THEN lits ELSE f[x]]

CheckerInserted(c, id, lits) ==
  [c EXCEPT !.clauses = With(@, id, lits), !.num_clauses = @ + 1,
            !.size_clauses = CASE c.num_clauses # @ -> @
                               [] OTHER -> IF @ = 0 THEN 1 ELSE 2 * @]

-----------------------------------------------------------------------------
(* Checks of a chain.                                                      *)

\* Mutant: of a clause that is not unit all literals are assigned.
LrupStep_lenient(c, s, id) ==
  LET open == {lit \in Range(c.clauses[id]) : -lit \notin s.true}
      ended(status) == [status |-> status, true |-> s.true, used |-> s.used]
  IN  IF s.status # "open" THEN s
      ELSE IF id \notin DOMAIN c.clauses THEN ended("failed")
      ELSE IF open = {} THEN ended("conflict")
      ELSE [status |-> "open", true |-> s.true \cup open, used |-> s.used \cup {id}]

\* One id of the chain: it must be found, not tautological, not used before, and have at
\* most one literal that is not false.
LrupStep(c, s, id) ==
  LET lits == Range(c.clauses[id])
      open == {lit \in lits : -lit \notin s.true}
      ended(status) == [status |-> status, true |-> s.true, used |-> s.used]
  IN  IF s.status # "open" THEN s
      ELSE IF id \notin DOMAIN c.clauses \/ id \in s.used THEN ended("failed")
      ELSE IF Tautological(lits) \/ Cardinality(open) > 1 THEN ended("failed")
      ELSE IF open = {} THEN ended("conflict")
      ELSE [status |-> "open", true |-> s.true \cup open, used |-> s.used \cup {id}]

\* check: the negated clause and the units of the chain in its order give a conflict.
Check(c, lits, chain) ==
  LET after[i \in 0..Len(chain)] ==
        IF i = 0 THEN [status |-> "open", true |-> Neg(Range(lits)), used |-> {}]
        ELSE LrupStep(c, after[i - 1], chain[i])
  IN  Tautological(Range(lits)) \/ after[Len(chain)].status = "conflict"

\* check_resolution: the chain is resolved from its end; the clause must be the resolvent
\* or a superset of it, with each literal once.
CheckResolution(c, lits, chain) ==
  LET resolve(R, lit) == IF -lit \in R THEN R \ {-lit} ELSE R \cup {lit}
      step(R, id) == FoldLeft(resolve, R, c.clauses[id])
      resolvent == FoldLeft(step, Range(c.clauses[Last(chain)]), Reverse(Front(chain)))
      clashing == \E lit \in Range(lits) : -lit \in resolvent
  IN  chain = <<>> \/ strict_lrat \/ (~clashing /\ IsInjective(lits) /\ resolvent \subseteq Range(lits))

-----------------------------------------------------------------------------
(* Calls of the tracer.                                                    *)

Times(lits, lit) == Cardinality({i \in DOMAIN lits : lits[i] = lit})

SameClause(c, d) == Range(c) = Range(d) /\ \A lit \in Range(c) : Times(c, lit) = Times(d, lit)

\* restore_clause: only a clause that has been weakened, with the same literals,
\* each as often.
Restored(c, id, lits) ==
  LET known == id \in DOMAIN c.weakened
  IN  CASE ~known -> IF strict_lrat THEN Failed(c, "restored") ELSE c
        [] known  ->
             IF ~SameClause(c.weakened[id], lits) THEN Failed(c, "different")
             ELSE [c EXCEPT !.weakened = [x \in DOMAIN @ \ {id} |-> @[x]]]

CheckerAddOriginal(c, id, lits, restore) ==
  LET r == IF restore THEN Restored(c, id, lits) ELSE c
      e == [CheckerEnlarge(r, lits) EXCEPT !.current_id = IF ~restore /\ id = 1 + @ THEN id ELSE @]
  IN  IF ~restore /\ id \in DOMAIN c.clauses THEN Failed(e, "present") ELSE CheckerInserted(e, id, lits)

CheckerAddDerived(c, id, lits, chain) ==
  LET e == [CheckerEnlarge(c, lits) EXCEPT !.current_id = id]
  IN  IF id \in DOMAIN c.clauses THEN Failed(e, "present")
      ELSE IF id # c.current_id + 1 THEN Failed(e, "order")
      ELSE IF ~Check(e, lits, chain) THEN Failed(e, "chain")
      ELSE IF ~CheckResolution(e, lits, chain) THEN Failed(e, "resolution")
      ELSE CheckerInserted(e, id, lits)

\* The clause of this id, with no other literals.
Present(c, id, lits) == id \in DOMAIN c.clauses /\ Range(c.clauses[id]) \subseteq Range(lits)

CheckerDelete(c, id, lits) ==
  LET garbage == c.num_garbage + 1
      enough == 2 * garbage > Max({c.size_clauses, c.size_vars})
  IN  IF ~Present(c, id, lits) THEN Failed(c, "deleted")
      ELSE [c EXCEPT !.clauses = [x \in DOMAIN @ \ {id} |-> @[x]], !.num_clauses = @ - 1,
                     !.num_garbage = IF enough THEN 0 ELSE garbage]

\* weaken_minus: the clause stays, but may be restored after its deletion.
CheckerWeaken(c, id, lits) ==
  IF ~Present(c, id, lits) THEN Failed(c, "weakened") ELSE [c EXCEPT !.weakened = With(@, id, lits)]

FinalizeClause(c, id, lits) ==
  LET counted == [c EXCEPT !.num_finalized = @ + 1]
  IN  IF ~Present(c, id, lits) THEN Failed(counted, "finalized") ELSE counted

ReportStatus(c) ==
  IF c.num_finalized = c.num_clauses THEN [c EXCEPT !.num_finalized = 0] ELSE Failed(c, "status")

CheckerAddAssumption(c, lit) == [c EXCEPT !.assumptions = @ \cup {lit}]

CheckerAddConstraint(c, lits) == [c EXCEPT !.constraint = Range(lits)]

\* add_assumption_clause: checked and deleted at once.
CheckerAssumptionClause(c, id, lits, chain) ==
  LET foreign == \E lit \in Range(lits) : -lit \notin c.assumptions \cup c.constraint
      added == CheckerAddDerived(IF foreign THEN Failed(c, "foreign") ELSE c, id, lits, chain)
  IN  [CheckerDelete(added, id, lits) EXCEPT !.assumption_clauses = @ \cup {id}]

\* reset_assumptions: the constraint stays.
CheckerReset(c) == [c EXCEPT !.assumption_clauses = {}, !.assumptions = {}, !.concluded = FALSE]

\* conclude_unsat.
ConcludeUnsat(c, conclusion, ids) ==
  LET ok == CASE conclusion = "conflict"    -> Last(ids) \in DOMAIN c.clauses /\ c.clauses[Last(ids)] = <<>>
              [] conclusion = "assumptions" -> Len(ids) = 1 /\ c.assumption_clauses = {ids[1]}
              [] conclusion = "constraint"  ->
                   Cardinality(c.constraint) = Len(ids) /\ Range(ids) \subseteq c.assumption_clauses
  IN  CASE c.concluded -> Failed(c, "concluded")
        [] ~c.concluded -> IF ok THEN [c EXCEPT !.concluded = TRUE] ELSE Failed([c EXCEPT !.concluded = TRUE], "conclusion")
=============================================================================
