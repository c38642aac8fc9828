----------------------------- MODULE SolverAPI -----------------------------
(***************************************************************************)
(* The API of CaDiCaL as a state machine (lib/cadical-1.9.5/src/solver.cpp *)
(* with the parts of external.cpp and limit.cpp that remember what the     *)
(* user has said): clauses and the constraint literal by literal,          *)
(* assumptions, limits, termination from another thread, and the answers.  *)
(* solve computes any correct answer here; how it does is the subject of   *)
(* the modules Incremental and Assume.  terminate comes from another       *)
(* thread between any two steps of a solve.                                *)
(*                                                                         *)
(* A call that violates a REQUIRE ends the process: state "ABORTED".       *)
(***************************************************************************)
EXTENDS Clauses

CONSTANTS
  MaxClauses,       \* bound on the number of clauses of the formula
  MaxSize,          \* bound on the literals of a clause or constraint
  MaxAssumptions,   \* bound on the number of assumptions of a solve
  Disciplined       \* the client does what the comments of cadical.hpp say

BoundsAssumption ==
  /\ Vars \subseteq Nat \ {0} /\ Vars # {}
  /\ MaxClauses \in Nat /\ MaxSize \in Nat /\ MaxAssumptions \in Nat
  /\ Disciplined \in BOOLEAN

READY == {"CONFIGURING", "STEADY", "SATISFIED", "UNSATISFIED"}

VALID == READY \cup {"ADDING"}

VARIABLES
  state,
  adding,              \* which of "clause" and "constraint" lacks its zero
  clause, formula,     \* the literals of the open clause, the finished clauses
  query,               \* what holds for one solve: assumptions, constraint
  limited,             \* a conflict or decision limit is set
  termination_forced,
  phase,               \* of a solve: search, finalized, reset (reset_solving is done)
  result,              \* the state that a solve with a result will end in
  answer,              \* the model, or the failed part of the query
  asked,               \* ghost: the query as entered since the last solve returned
  requests             \* ghost: requests to stop since the last solve had its result

vars == <<state, adding, clause, formula, query, limited, termination_forced, phase, result,
          answer, asked, requests>>

\* closed: the constraint has had its zero.
NoQuery == [assumptions |-> {}, constraint |-> {}, closed |-> FALSE]

\* asked, flipped: ghosts, the query as the user entered it and the literals of
\* the variables flipped since.
NoAnswer == [vals |-> {}, failed |-> {}, constraint |-> FALSE, asked |-> NoQuery, flipped |-> {}]

\* Type invariant of the API object: there is a model exactly when the result
\* is one, only assumptions can have failed, and only a solve has phases.
TypeOK ==
  /\ state \in VALID \cup {"SOLVING", "DELETING", "ABORTED"}
  /\ adding \subseteq {"clause", "constraint"}
  /\ clause \subseteq Lits /\ formula \subseteq SUBSET Lits
  /\ {query, asked} \subseteq
       [assumptions : SUBSET Lits, constraint : SUBSET Lits, closed : BOOLEAN]
  /\ {limited, termination_forced} \subseteq BOOLEAN
  /\ phase \in {"idle", "search", "finalized", "reset"}
  /\ result \in {"none", "SATISFIED", "UNSATISFIED", "STEADY"}
  /\ state = "SOLVING" <=> phase # "idle"
  /\ result = "none" <=> phase \in {"idle", "search"}
  /\ answer.vals \in Total \cup {{}}
  /\ "SATISFIED" \in {state, result} <=> answer.vals # {}
  /\ answer.failed \subseteq query.assumptions
  /\ requests \subseteq {"limit", "terminate"}

\* INITIALIZING only exists inside the constructor.
Init ==
  /\ state = "CONFIGURING" /\ adding = {}
  /\ clause = {} /\ formula = {}
  /\ query = NoQuery /\ asked = NoQuery
  /\ limited = FALSE /\ termination_forced = FALSE
  /\ phase = "idle" /\ result = "none"
  /\ answer = NoAnswer /\ requests = {}

\* Mutant: only a satisfiable call drops its assumptions and constraint.
KeptQuery_unsat == IF state = "SATISFIED" THEN NoQuery ELSE query

\* transition_to_steady_state: leaving an answer drops the query.
KeptQuery == IF state \in {"SATISFIED", "UNSATISFIED"} THEN NoQuery ELSE query

\* A call that changes what is to be solved, and the state it ends in.
Change(s) ==
  /\ state \in VALID
  /\ state' = s
  /\ phase' = IF s = "SOLVING" THEN "search" ELSE "idle"
  /\ answer' = NoAnswer
  /\ UNCHANGED <<limited, termination_forced, result, requests>>

\* A disciplined client has added its zeros where a comment requires READY.
MayInterrupt == Disciplined => adding = {}

AddLit(lit) ==
  /\ Cardinality(clause \cup {lit}) <= MaxSize /\ Cardinality(formula) < MaxClauses
  /\ Change("ADDING")
  /\ clause' = clause \cup {lit} /\ adding' = adding \cup {"clause"}
  /\ query' = KeptQuery
  /\ UNCHANGED <<formula, asked>>

\* add(0).  The transition to STEADY has happened before, so an open
\* constraint does not keep the solver in ADDING; the same below for a clause.
AddZero ==
  /\ Cardinality(formula) < MaxClauses
  /\ Change("STEADY")
  /\ formula' = formula \cup {clause} /\ clause' = {}
  /\ adding' = adding \ {"clause"}
  /\ query' = KeptQuery
  /\ UNCHANGED asked

\* A literal after the zero replaces the previous constraint.
Constrain(q, lits, zero) ==
  [q EXCEPT !.constraint = IF q.closed THEN lits ELSE @ \cup lits, !.closed = zero]

ConstrainLit(lit) ==
  /\ Change("ADDING")
  /\ adding' = adding \cup {"constraint"}
  /\ query' = Constrain(KeptQuery, {lit}, FALSE)
  /\ asked' = Constrain(asked, {lit}, FALSE)
  /\ Cardinality(query'.constraint) <= MaxSize
  /\ UNCHANGED <<clause, formula>>

ConstrainZero ==
  /\ Change("STEADY")
  /\ adding' = adding \ {"constraint"}
  /\ query' = Constrain(KeptQuery, {}, TRUE)
  /\ asked' = Constrain(asked, {}, TRUE)
  /\ UNCHANGED <<clause, formula>>

Assume(lit) ==
  /\ MayInterrupt
  /\ Change("STEADY")
  /\ query' = [KeptQuery EXCEPT !.assumptions = @ \cup {lit}]
  /\ asked' = [asked EXCEPT !.assumptions = @ \cup {lit}]
  /\ Cardinality(query'.assumptions) <= MaxAssumptions
  /\ UNCHANGED <<adding, clause, formula>>

ResetAssumptions ==
  /\ MayInterrupt
  /\ Change("STEADY")
  /\ query' = [KeptQuery EXCEPT !.assumptions = {}]
  /\ asked' = [asked EXCEPT !.assumptions = {}]
  /\ UNCHANGED <<adding, clause, formula>>

ResetConstraint ==
  /\ MayInterrupt
  /\ Change("STEADY")
  /\ query' = [KeptQuery EXCEPT !.constraint = {}, !.closed = FALSE]
  /\ asked' = [asked EXCEPT !.constraint = {}, !.closed = FALSE]
  /\ UNCHANGED <<adding, clause, formula>>

Reserve ==
  /\ MayInterrupt
  /\ Change("STEADY")
  /\ query' = KeptQuery
  /\ UNCHANGED <<adding, clause, formula, asked>>

\* limit("conflicts", n), n >= 0 setting one and n < 0 taking it back.
Limit(on) ==
  /\ state \in VALID
  /\ limited' = on
  /\ requests' = IF on THEN requests \cup {"limit"} ELSE requests \ {"limit"}
  /\ UNCHANGED <<state, adding, clause, formula, query, termination_forced, phase, result,
                 answer, asked>>

\* solve and simplify: REQUIRE_READY_STATE looks at nothing but the state.
StartSolve ==
  /\ MayInterrupt
  /\ state \in READY /\ Change("SOLVING")
  /\ query' = KeptQuery
  /\ UNCHANGED <<adding, clause, formula, asked>>

\* terminate may come at any time from another thread or a signal handler.
Terminate ==
  /\ state \in VALID \cup {"SOLVING"}
  /\ termination_forced' = TRUE
  /\ requests' = requests \cup {"terminate"}
  /\ UNCHANGED <<state, adding, clause, formula, query, limited, phase, result, answer, asked>>

\* An open constraint has not reached the search.
Restriction(q, constrained) ==
  Units(q.assumptions) \cup (IF constrained /\ q.closed THEN {q.constraint} ELSE {})

\* The search is over; what happens until the user sees the result s, a
\* terminate can still come between.
Finalize(s) ==
  /\ phase = "search" /\ phase' = "finalized" /\ result' = s
  /\ requests' = {}
  /\ UNCHANGED <<state, adding, clause, formula, query, limited, termination_forced, asked>>

ModelAnswer(sigma) == [NoAnswer EXCEPT !.vals = sigma, !.asked = asked]

CoreAnswer(failed, c) == [NoAnswer EXCEPT !.failed = failed, !.constraint = c, !.asked = asked]

SolveSatisfiable ==
  /\ Finalize("SATISFIED")
  /\ \E sigma \in Models(formula \cup Restriction(query, TRUE)) : answer' = ModelAnswer(sigma)

\* The failed assumptions need not be minimal.
SolveUnsatisfiable ==
  /\ Finalize("UNSATISFIED")
  /\ \E failed \in SUBSET query.assumptions, c \in {FALSE, query.closed} :
       /\ Models(formula \cup Restriction([query EXCEPT !.assumptions = failed], c)) = {}
       /\ answer' = CoreAnswer(failed, c)

\* A limit was reached or the search was told to stop.
SolveUnknown ==
  /\ limited \/ termination_forced
  /\ Finalize("STEADY")
  /\ UNCHANGED answer

\* Mutant: only a solve that was stopped takes the request back.
reset_solving_stopped ==
  /\ phase = "finalized" /\ phase' = "reset"
  /\ termination_forced' = (termination_forced /\ result # "STEADY")
  /\ UNCHANGED <<state, adding, clause, formula, query, limited, result, answer, asked, requests>>

\* Internal::reset_solving.  A terminate before it is lost, one after it stops
\* the next solve.
reset_solving ==
  /\ phase = "finalized" /\ phase' = "reset"
  /\ termination_forced' = FALSE
  /\ UNCHANGED <<state, adding, clause, formula, query, limited, result, answer, asked, requests>>

\* reset_limits, the new state, and without an answer the end of the query: the
\* other thread touches none of these.
Return ==
  /\ phase = "reset" /\ phase' = "idle"
  /\ state' = result /\ result' = "none"
  /\ limited' = FALSE
  /\ query' = IF result = "STEADY" THEN NoQuery ELSE query
  /\ asked' = NoQuery
  /\ UNCHANGED <<adding, clause, formula, termination_forced, answer, requests>>

Flipped(sigma, lit) == (sigma \ {lit, -lit}) \cup ({lit, -lit} \ sigma)

\* Mutant: only clauses with a second literal are looked at.
Flippable_large(lit) ==
  \A C \in formula : Cardinality(C) > 1 => C \cap Flipped(answer.vals, lit) # {}

\* flip changes one value if all clauses stay satisfied.  Assumptions and the
\* constraint are no clauses, so nothing keeps them true.  External refuses
\* witness literals as well.
Flippable(lit) == Satisfies(Flipped(answer.vals, lit), formula)

FlippedAnswer(lit) ==
  [answer EXCEPT !.vals = Flipped(@, lit), !.flipped = @ \cup {lit, -lit}]

Flip(lit) ==
  /\ state = "SATISFIED" /\ Flippable(lit)
  /\ answer' = FlippedAnswer(lit)
  /\ UNCHANGED <<state, adding, clause, formula, query, limited, termination_forced, phase,
                 result, asked, requests>>

\* What each group of functions requires of the state.
Required ==
  {READY,                             \* solve, simplify, copy
   {"CONFIGURING"},                   \* set, configure, trace_proof, read_dimacs
   {"SATISFIED"},                     \* val, flip, flippable
   {"UNSATISFIED"},                   \* failed, constraint_failed
   {"SATISFIED", "UNSATISFIED"}}      \* conclude

ContractViolation ==
  /\ state \in VALID
  /\ \E S \in Required : state \notin S
  /\ state' = "ABORTED" /\ answer' = NoAnswer
  /\ UNCHANGED <<adding, clause, formula, query, limited, termination_forced, phase, result,
                 asked, requests>>

\* The code also accepts SOLVING; no client deletes the solver while it runs.
Delete ==
  /\ state \in VALID
  /\ state' = "DELETING" /\ answer' = NoAnswer
  /\ UNCHANGED <<adding, clause, formula, query, limited, termination_forced, phase, result,
                 asked, requests>>

Next ==
  \/ \E lit \in Lits : AddLit(lit) \/ ConstrainLit(lit) \/ Assume(lit) \/ Flip(lit)
  \/ AddZero \/ ConstrainZero \/ ResetAssumptions \/ ResetConstraint \/ Reserve
  \/ \E on \in BOOLEAN : Limit(on)
  \/ StartSolve \/ Terminate \/ SolveSatisfiable \/ SolveUnsatisfiable \/ SolveUnknown
  \/ reset_solving \/ Return
  \/ ContractViolation \/ Delete

Spec == Init /\ [][Next]_vars

-----------------------------------------------------------------------------
\* An answer is about what the user has said: no call changes clauses and
\* leaves a model or a core behind, an answer is for the assumptions and the
\* constraint that were entered for it, and a model that flip has changed any
\* number of times still satisfies every clause, and the query but for what was
\* flipped (Solver::flip).
AnswerCurrent ==
  /\ state = "SATISFIED" =>
       /\ Satisfies(answer.vals, formula)
       /\ Satisfies(answer.vals \cup answer.flipped, Restriction(answer.asked, TRUE))
  /\ state = "UNSATISFIED" =>
       /\ answer.failed \subseteq answer.asked.assumptions
       /\ answer.constraint => answer.asked.closed
       /\ Models(formula \cup Restriction([answer.asked EXCEPT !.assumptions = answer.failed],
                                          answer.constraint)) = {}

\* A solve is restricted by exactly the assumptions and the constraint given
\* since the previous solve returned, whatever that one answered.
QueryFresh == state = "SOLVING" => query = asked

\* "These limits are only valid for the next 'solve'" (cadical.hpp): a solve
\* gives up only because of a limit or a terminate that came after the previous
\* one had its result, although the other thread may call terminate before,
\* between and after the steps that take limits and requests back.
StoppedOnRequest ==
  [][phase = "search" /\ result' = "STEADY" =>
       \/ limited /\ "limit" \in requests
       \/ termination_forced /\ "terminate" \in requests]_vars
=============================================================================
