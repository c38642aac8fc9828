-------------------------- MODULE InterfaceProofs --------------------------
(***************************************************************************)
(* What a user of CaDiCaL relies on.                                       *)
(*                                                                         *)
(* The API is right for every set of variables and every sequence of       *)
(* calls, clients that ignore the comments of cadical.hpp included.        *)
(*                                                                         *)
(* Incremental solving with inprocessing is right over any number of       *)
(* calls: what restore_clauses leaves on the extension stack repairs every *)
(* model of the formula, and the formula never has more than the user's    *)
(* clauses imply.  For every set of variables, finite or not, clauses of   *)
(* any kind and stacks of any length.                                      *)
(***************************************************************************)
EXTENDS SolverAPI, Incremental, WellFoundedInduction, SequenceTheorems, TLAPS

-----------------------------------------------------------------------------
(* The API.                                                                *)

Query == [assumptions : SUBSET Lits, constraint : SUBSET Lits, closed : BOOLEAN]

Answer ==
  [vals : Total \cup {{}}, failed : SUBSET Lits, constraint : BOOLEAN, asked : Query,
   flipped : SUBSET Lits]

\* A model of the clauses, the assumptions and the constraint but for what was flipped.
ModelRightFor(F, a) ==
  Satisfies(a.vals, F) /\ Satisfies(a.vals \cup a.flipped, Restriction(a.asked, TRUE))

\* A part of the assumptions and the constraint that contradicts the clauses.
CoreRightFor(F, a) ==
  /\ a.failed \subseteq a.asked.assumptions
  /\ a.constraint => a.asked.closed
  /\ Models(F \cup Restriction([a.asked EXCEPT !.assumptions = a.failed], a.constraint)) = {}

\* The answer is right from the end of the search on, before the user can see it.
AnswerOK ==
  /\ answer \in Answer
  /\ "UNSATISFIED" \notin {state, result} => answer.failed = {}
  /\ "SATISFIED" \in {state, result} => ModelRightFor(formula, answer)
  /\ "UNSATISFIED" \in {state, result} => CoreRightFor(formula, answer)

\* What the next solve will be asked is what was said since the last answer.
Entered ==
  /\ state \in VALID => KeptQuery = asked
  /\ state = "SOLVING" => query = asked

IInv ==
  /\ TypeOK
  /\ AnswerOK
  /\ Entered

\* A total assignment has a literal of every variable.
LEMMA TotalNonempty ==
  ASSUME BoundsAssumption, NEW sigma \in Total
  PROVE  sigma # {} /\ sigma \subseteq Lits
<1>1. PICK P \in SUBSET Vars : sigma = {IF v \in P THEN v ELSE -v : v \in Vars}
  BY DEF Total
<1>2. PICK v \in Vars : TRUE
  BY DEF BoundsAssumption
<1>3. (IF v \in P THEN v ELSE -v) \in sigma
  BY <1>1
<1>4. sigma \subseteq Lits
  BY <1>1 DEF Lits
<1>5. QED
  BY <1>3, <1>4

\* Adding to the constraint keeps the assumptions.
LEMMA ConstrainType ==
  ASSUME NEW q \in Query, NEW L \in SUBSET Lits, NEW z \in BOOLEAN
  PROVE  Constrain(q, L, z) \in Query /\ Constrain(q, L, z).assumptions = q.assumptions
BY DEF Constrain, Query

\* The queries of a state are queries.
LEMMA QueryType ==
  ASSUME TypeOK
  PROVE  query \in Query /\ asked \in Query /\ KeptQuery \in Query /\ NoQuery \in Query
BY DEF TypeOK, Query, KeptQuery, NoQuery

\* A flipped assignment is total.
LEMMA FlipTotal ==
  ASSUME BoundsAssumption, NEW sigma \in Total, NEW lit \in Lits
  PROVE  Flipped(sigma, lit) \in Total
<1>1. PICK P \in SUBSET Vars : sigma = {IF v \in P THEN v ELSE -v : v \in Vars}
  BY DEF Total
<1>2. \A v \in Vars : v \in Int /\ v > 0 /\ -v \in Int /\ -(-v) = v /\ -v # v
  BY DEF BoundsAssumption
<1>3. PICK w \in Vars : {lit, -lit} = {w, -w}
  BY <1>2 DEF Lits
<1> DEFINE Q == IF w \in P THEN P \ {w} ELSE P \cup {w}
<1>4. \A v \in Vars : (v \in sigma <=> v \in P) /\ (-v \in sigma <=> v \notin P)
  BY <1>1, <1>2
<1>5. Flipped(sigma, lit) = {IF v \in Q THEN v ELSE -v : v \in Vars}
  <2>1. Flipped(sigma, lit) = (sigma \ {w, -w}) \cup ({w, -w} \ sigma)
    BY <1>3 DEF Flipped
  <2>2. \A x : x \in sigma <=> \E v \in Vars : x = IF v \in P THEN v ELSE -v
    BY <1>1
  <2>3. \A v \in Vars : v # w => v # -w /\ -v # w /\ -v # -w
    BY <1>2
  <2>4. QED
    BY <1>2, <1>4, <2>1, <2>2, <2>3
<1>6. Q \in SUBSET Vars
  OBVIOUS
<1>7. QED
  <2> HIDE DEF Q
  <2>1. QED
    BY <1>5, <1>6 DEF Total

\* Nothing is answered.
LEMMA NoAnswerType ==
  NoAnswer \in Answer /\ NoAnswer.vals = {} /\ NoAnswer.failed = {}
BY DEF NoAnswer, NoQuery, Answer, Query

-----------------------------------------------------------------------------
\* A new solver has no clauses and no query.
LEMMA InitIInv ==
  ASSUME BoundsAssumption, Init
  PROVE  IInv
<1>1. answer \in Answer /\ answer.vals = {} /\ answer.failed = {}
  BY NoAnswerType DEF Init
<1>2. TypeOK
  <2>1. query \in Query /\ asked \in Query
    BY DEF Init, NoQuery, Query
  <2>2. /\ state = "CONFIGURING" /\ adding = {} /\ clause = {} /\ formula = {}
        /\ limited \in BOOLEAN /\ termination_forced \in BOOLEAN
        /\ phase = "idle" /\ result = "none" /\ requests = {}
    BY DEF Init
  <2>3. QED
    BY <1>1, <2>1, <2>2 DEF TypeOK, VALID, READY, Query
<1>3. AnswerOK
  BY <1>1 DEF Init, AnswerOK
<1>4. Entered
  BY DEF Init, Entered, KeptQuery
<1>5. QED
  BY <1>2, <1>3, <1>4 DEF IInv

\* The calls that change what is to be solved: only the query differs.
LEMMA ChangeKeeps ==
  ASSUME BoundsAssumption, IInv,
         NEW s \in {"ADDING", "STEADY", "SOLVING"}, Change(s),
         adding' \subseteq {"clause", "constraint"},
         clause' \subseteq Lits, formula' \subseteq SUBSET Lits,
         query' \in Query, asked' = query'
  PROVE  IInv'
<1>1. /\ state' = s /\ answer' = NoAnswer /\ limited' = limited
      /\ termination_forced' = termination_forced /\ state \in VALID
      /\ phase' = (IF s = "SOLVING" THEN "search" ELSE "idle") /\ result' = result /\ requests' = requests
  BY DEF Change
<1>2. answer' \in Answer /\ answer'.vals = {} /\ answer'.failed = {}
  BY <1>1, NoAnswerType
<1>3. result' = "none"
  BY <1>1 DEF IInv, TypeOK, VALID, READY
<1>4. TypeOK'
  BY <1>1, <1>2, <1>3 DEF IInv, TypeOK, Query, VALID, READY
<1>5. AnswerOK'
  BY <1>1, <1>2, <1>3 DEF AnswerOK
<1>6. Entered'
  BY <1>1 DEF Entered, KeptQuery, VALID, READY
<1>7. QED
  BY <1>4, <1>5, <1>6 DEF IInv

\* The functions that change what was said: add, assume, constrain, and the resets.
LEMMA ChangeStep ==
  ASSUME BoundsAssumption, IInv,
         \/ \E lit \in Lits : AddLit(lit) \/ ConstrainLit(lit) \/ Assume(lit)
         \/ AddZero \/ ConstrainZero \/ ResetAssumptions \/ ResetConstraint
         \/ Reserve \/ StartSolve
  PROVE  IInv'
<1>1. /\ query \in Query /\ asked \in Query /\ KeptQuery \in Query
      /\ adding \subseteq {"clause", "constraint"}
      /\ clause \subseteq Lits /\ formula \subseteq SUBSET Lits
  BY QueryType DEF IInv, TypeOK
<1>2. state \in VALID => KeptQuery = asked
  BY DEF IInv, Entered
<1>3. ASSUME NEW lit \in Lits, AddLit(lit) PROVE IInv'
  <2>1. /\ Change("ADDING") /\ query' = KeptQuery /\ asked' = query'
        /\ adding' \subseteq {"clause", "constraint"}
        /\ clause' \subseteq Lits /\ formula' \subseteq SUBSET Lits
    BY <1>1, <1>2, <1>3 DEF AddLit, Change
  <2>2. QED
    BY <1>1, <2>1, ChangeKeeps
<1>4. ASSUME NEW lit \in Lits, ConstrainLit(lit) PROVE IInv'
  <2>1. /\ Change("ADDING") /\ query' = Constrain(KeptQuery, {lit}, FALSE) /\ asked' = query'
        /\ adding' \subseteq {"clause", "constraint"}
        /\ clause' \subseteq Lits /\ formula' \subseteq SUBSET Lits
    BY <1>1, <1>2, <1>4 DEF ConstrainLit, Change
  <2>2. query' \in Query
    BY <1>1, <1>4, <2>1, ConstrainType
  <2>3. QED
    BY <2>1, <2>2, ChangeKeeps
<1>5. ASSUME NEW lit \in Lits, Assume(lit) PROVE IInv'
  <2>1. /\ Change("STEADY") /\ asked' = query'
        /\ query' = [KeptQuery EXCEPT !.assumptions = @ \cup {lit}]
        /\ adding' \subseteq {"clause", "constraint"}
        /\ clause' \subseteq Lits /\ formula' \subseteq SUBSET Lits
    BY <1>1, <1>2, <1>5 DEF Assume, Change
  <2>2. query' \in Query
    BY <1>1, <1>5, <2>1 DEF Query
  <2>3. QED
    BY <2>1, <2>2, ChangeKeeps
<1>6. ASSUME AddZero \/ ConstrainZero PROVE IInv'
  <2>1. /\ Change("STEADY") /\ asked' = query'
        /\ query' = KeptQuery \/ query' = Constrain(KeptQuery, {}, TRUE)
        /\ adding' \subseteq {"clause", "constraint"}
        /\ clause' \subseteq Lits /\ formula' \subseteq SUBSET Lits
    BY <1>1, <1>2, <1>6 DEF AddZero, ConstrainZero, Change
  <2>2. query' \in Query
    BY <1>1, <2>1, ConstrainType
  <2>3. QED
    BY <2>1, <2>2, ChangeKeeps
<1>7. ASSUME ResetAssumptions \/ ResetConstraint PROVE IInv'
  <2>1. /\ Change("STEADY") /\ asked' = query'
        /\ \/ query' = [KeptQuery EXCEPT !.assumptions = {}]
           \/ query' = [KeptQuery EXCEPT !.constraint = {}, !.closed = FALSE]
        /\ adding' \subseteq {"clause", "constraint"}
        /\ clause' \subseteq Lits /\ formula' \subseteq SUBSET Lits
    BY <1>1, <1>2, <1>7 DEF ResetAssumptions, ResetConstraint, Change
  <2>2. query' \in Query
    BY <1>1, <2>1 DEF Query
  <2>3. QED
    BY <2>1, <2>2, ChangeKeeps
<1>8. ASSUME Reserve \/ StartSolve PROVE IInv'
  <2>1. /\ Change("STEADY") \/ Change("SOLVING")
        /\ query' = KeptQuery /\ asked' = query'
        /\ adding' \subseteq {"clause", "constraint"}
        /\ clause' \subseteq Lits /\ formula' \subseteq SUBSET Lits
    BY <1>1, <1>2, <1>8 DEF Reserve, StartSolve, Change
  <2>2. QED
    BY <1>1, <2>1, ChangeKeeps
<1>9. QED
  BY <1>3, <1>4, <1>5, <1>6, <1>7, <1>8

\* The search ends with a right answer or without one.
LEMMA FinalizeStep ==
  ASSUME BoundsAssumption, IInv, SolveSatisfiable \/ SolveUnsatisfiable \/ SolveUnknown
  PROVE  IInv'
<1>1. /\ query \in Query /\ asked = query /\ asked' = asked /\ query' = query
      /\ adding' \subseteq {"clause", "constraint"}
      /\ clause' \subseteq Lits /\ formula' \subseteq SUBSET Lits /\ formula' = formula
      /\ limited' \in BOOLEAN /\ termination_forced' \in BOOLEAN
      /\ state = "SOLVING" /\ state' = "SOLVING" /\ phase' = "finalized" /\ requests' = {}
      /\ result = "none" /\ answer \in Answer
  <2>1. phase = "search" /\ state = "SOLVING" /\ result = "none"
    BY DEF SolveSatisfiable, SolveUnsatisfiable, SolveUnknown, Finalize, IInv, TypeOK
  <2>2. QED
    BY <2>1, QueryType DEF SolveSatisfiable, SolveUnsatisfiable, SolveUnknown, Finalize, IInv, TypeOK,
         AnswerOK, Entered
<1>2. CASE SolveSatisfiable
  <2>1. PICK sigma \in Models(formula \cup Restriction(query, TRUE)) :
          answer' = ModelAnswer(sigma)
    BY <1>2 DEF SolveSatisfiable
  <2>2. result' = "SATISFIED"
    BY <1>2 DEF SolveSatisfiable, Finalize
  <2>3. /\ sigma \in Total /\ sigma # {}
        /\ Satisfies(sigma, formula) /\ Satisfies(sigma, Restriction(query, TRUE))
    BY TotalNonempty DEF Models, Satisfies
  <2>4. /\ answer' \in Answer /\ answer'.vals = sigma /\ answer'.failed = {}
        /\ answer'.asked = query /\ answer'.flipped = {}
    BY <1>1, <2>1, <2>3 DEF ModelAnswer, NoAnswer, Answer
  <2>5. sigma \cup {} = sigma
    OBVIOUS
  <2>6. ModelRightFor(formula', answer')
    BY <1>1, <2>3, <2>4, <2>5 DEF ModelRightFor
  <2>7. TypeOK'
    BY <1>1, <2>2, <2>3, <2>4 DEF TypeOK, Query, VALID, READY
  <2>8. AnswerOK'
    BY <1>1, <2>2, <2>4, <2>6 DEF AnswerOK
  <2>9. Entered'
    BY <1>1 DEF Entered, VALID, READY
  <2>10. QED
    BY <2>7, <2>8, <2>9 DEF IInv
<1>3. CASE SolveUnsatisfiable
  <2>1. PICK failed \in SUBSET query.assumptions, c \in {FALSE, query.closed} :
          /\ Models(formula \cup Restriction([query EXCEPT !.assumptions = failed], c)) = {}
          /\ answer' = CoreAnswer(failed, c)
    BY <1>3 DEF SolveUnsatisfiable
  <2>2. result' = "UNSATISFIED"
    BY <1>3 DEF SolveUnsatisfiable, Finalize
  <2>3. c \in BOOLEAN /\ failed \subseteq Lits /\ (c => query.closed)
    BY <1>1, <2>1 DEF Query
  <2>4. /\ answer' \in Answer /\ answer'.vals = {} /\ answer'.failed = failed /\ answer'.constraint = c
        /\ answer'.asked = query
    BY <1>1, <2>1, <2>3 DEF CoreAnswer, NoAnswer, Answer
  <2>5. CoreRightFor(formula', answer')
    BY <1>1, <2>1, <2>3, <2>4 DEF CoreRightFor
  <2>6. TypeOK'
    BY <1>1, <2>1, <2>2, <2>4 DEF TypeOK, Query, VALID, READY
  <2>7. AnswerOK'
    BY <1>1, <2>2, <2>4, <2>5 DEF AnswerOK
  <2>8. Entered'
    BY <1>1 DEF Entered, VALID, READY
  <2>9. QED
    BY <2>6, <2>7, <2>8 DEF IInv
<1>4. CASE SolveUnknown
  <2>1. result' = "STEADY" /\ answer' = answer
    BY <1>4 DEF SolveUnknown, Finalize
  <2>2. answer'.vals = {} /\ answer'.failed = {}
    BY <1>1, <2>1 DEF IInv, TypeOK, AnswerOK
  <2>3. TypeOK'
    BY <1>1, <2>1, <2>2 DEF TypeOK, Query, VALID, READY
  <2>4. AnswerOK'
    BY <1>1, <2>1, <2>2 DEF AnswerOK
  <2>5. Entered'
    BY <1>1 DEF Entered, VALID, READY
  <2>6. QED
    BY <2>3, <2>4, <2>5 DEF IInv
<1>5. QED
  BY <1>2, <1>3, <1>4

\* reset_solving, and the user sees the result.
LEMMA ReturnStep ==
  ASSUME BoundsAssumption, IInv, reset_solving \/ Return
  PROVE  IInv'
<1>1. /\ query \in Query /\ asked \in Query /\ NoQuery \in Query
      /\ answer' = answer /\ answer \in Answer /\ formula' = formula
      /\ adding' \subseteq {"clause", "constraint"}
      /\ clause' \subseteq Lits /\ formula' \subseteq SUBSET Lits
      /\ limited' \in BOOLEAN /\ termination_forced' \in BOOLEAN /\ requests' = requests
      /\ state = "SOLVING" /\ phase # "idle" /\ result \in {"SATISFIED", "UNSATISFIED", "STEADY"}
  BY QueryType DEF IInv, TypeOK, AnswerOK, reset_solving, Return
<1>2. CASE reset_solving
  <2>1. state' = state /\ result' = result /\ phase' = "reset" /\ query' = query /\ asked' = asked
    BY <1>2 DEF reset_solving
  <2>2. TypeOK'
    BY <1>1, <2>1 DEF IInv, TypeOK
  <2>3. AnswerOK' /\ Entered'
    BY <1>1, <2>1 DEF IInv, AnswerOK, Entered, VALID, READY
  <2>4. QED
    BY <2>2, <2>3 DEF IInv
<1>3. CASE Return
  <2>1. /\ state' = result /\ result' = "none" /\ phase' = "idle" /\ asked' = NoQuery
        /\ query' = (IF result = "STEADY" THEN NoQuery ELSE query)
    BY <1>3 DEF Return
  <2>2. query' \in Query /\ asked' \in Query /\ state' \in VALID /\ requests \subseteq {"limit", "terminate"}
    BY <1>1, <2>1 DEF VALID, READY, IInv, TypeOK
  <2>3. answer'.failed \subseteq query'.assumptions
    <3>1. CASE result = "STEADY"
      BY <1>1, <3>1 DEF IInv, AnswerOK
    <3>2. CASE result # "STEADY"
      BY <1>1, <2>1, <3>2 DEF IInv, TypeOK
    <3>3. QED
      BY <3>1, <3>2
  <2>4. /\ answer'.vals \in Total \cup {{}}
        /\ "SATISFIED" \in {state', result'} <=> answer'.vals # {}
    BY <1>1, <2>1 DEF IInv, TypeOK
  <2>5. /\ state' \in VALID \cup {"SOLVING", "DELETING", "ABORTED"}
        /\ {query', asked'} \subseteq [assumptions : SUBSET Lits, constraint : SUBSET Lits, closed : BOOLEAN]
        /\ {limited', termination_forced'} \subseteq BOOLEAN
        /\ phase' \in {"idle", "search", "finalized", "reset"}
        /\ result' \in {"none", "SATISFIED", "UNSATISFIED", "STEADY"}
        /\ (state' = "SOLVING" <=> phase' # "idle")
        /\ (result' = "none" <=> phase' \in {"idle", "search"})
        /\ requests' \subseteq {"limit", "terminate"}
    BY <1>1, <2>1, <2>2 DEF Query
  <2>6. TypeOK'
    BY <1>1, <2>3, <2>4, <2>5 DEF TypeOK
  <2>7. AnswerOK'
    BY <1>1, <2>1 DEF IInv, AnswerOK
  <2>8. Entered'
    BY <1>1, <2>1 DEF Entered, KeptQuery
  <2>9. QED
    BY <2>6, <2>7, <2>8 DEF IInv
<1>4. QED
  BY <1>2, <1>3

\* limit, terminate, flip and the ends of the object's life.
LEMMA OtherStep ==
  ASSUME BoundsAssumption, IInv,
         \/ \E lit \in Lits : Flip(lit)
         \/ \E on \in BOOLEAN : Limit(on)
         \/ Terminate \/ ContractViolation \/ Delete \/ UNCHANGED vars
  PROVE  IInv'
<1>1. /\ query \in Query /\ query' = query /\ asked' = asked
      /\ adding' = adding /\ clause' = clause /\ formula' = formula
      /\ limited' \in BOOLEAN /\ termination_forced' \in BOOLEAN
      /\ phase' = phase /\ result' = result /\ requests' \subseteq {"limit", "terminate"}
  BY QueryType DEF IInv, TypeOK, Flip, Limit, Terminate, ContractViolation, Delete, vars
<1>2. CASE \E lit \in Lits : Flip(lit)
  <2>1. PICK lit \in Lits : Flip(lit)
    BY <1>2
  <2>2. /\ state = "SATISFIED" /\ state' = state /\ answer' = FlippedAnswer(lit)
        /\ Satisfies(Flipped(answer.vals, lit), formula)
    BY <2>1 DEF Flip, Flippable
  <2>3. answer.vals \in Total /\ answer.vals # {} /\ answer \in Answer /\ ModelRightFor(formula, answer)
    BY <2>2 DEF IInv, TypeOK, AnswerOK
  <2>4. answer.failed = {} /\ result = "none"
    BY <2>2 DEF IInv, TypeOK, AnswerOK
  <2>5. Flipped(answer.vals, lit) \in Total /\ Flipped(answer.vals, lit) # {}
    BY <2>3, FlipTotal, TotalNonempty
  <2>6. lit \in Lits /\ -lit \in Lits
    BY DEF BoundsAssumption, Lits
  <2>7. /\ answer' \in Answer /\ answer'.vals = Flipped(answer.vals, lit)
        /\ answer'.failed = {} /\ answer'.asked = answer.asked
        /\ answer'.flipped = answer.flipped \cup {lit, -lit}
    BY <2>2, <2>3, <2>4, <2>5, <2>6 DEF FlippedAnswer, Answer
  <2>8. ModelRightFor(formula', answer')
    <3>1. answer.vals \cup answer.flipped \subseteq answer'.vals \cup answer'.flipped
      BY <2>7 DEF Flipped
    <3>2. Satisfies(answer'.vals \cup answer'.flipped, Restriction(answer'.asked, TRUE))
      BY <2>3, <2>7, <3>1 DEF ModelRightFor, Satisfies
    <3>3. QED
      BY <1>1, <2>2, <2>7, <3>2 DEF ModelRightFor
  <2>9. TypeOK'
    BY <1>1, <2>2, <2>5, <2>7 DEF IInv, TypeOK
  <2>10. AnswerOK'
    BY <1>1, <2>2, <2>4, <2>7, <2>8 DEF AnswerOK
  <2>11. Entered'
    BY <1>1, <2>2 DEF IInv, Entered, KeptQuery
  <2>12. QED
    BY <2>9, <2>10, <2>11 DEF IInv
<1>3. CASE (\E on \in BOOLEAN : Limit(on)) \/ Terminate \/ UNCHANGED vars
  <2>1. state' = state /\ answer' = answer
    BY <1>3 DEF Limit, Terminate, vars
  <2>2. TypeOK'
    BY <1>1, <2>1 DEF IInv, TypeOK
  <2>3. AnswerOK'
    BY <1>1, <2>1 DEF IInv, AnswerOK
  <2>4. Entered'
    BY <1>1, <2>1 DEF IInv, Entered, KeptQuery
  <2>5. QED
    BY <2>2, <2>3, <2>4 DEF IInv
<1>4. CASE ContractViolation \/ Delete
  <2>1. state' \in {"ABORTED", "DELETING"} /\ answer' = NoAnswer /\ state \in VALID
    BY <1>4 DEF ContractViolation, Delete
  <2>2. answer' \in Answer /\ answer'.vals = {} /\ answer'.failed = {}
    BY <2>1, NoAnswerType
  <2>3. phase = "idle" /\ result = "none"
    BY <2>1 DEF IInv, TypeOK, VALID, READY
  <2>4. TypeOK'
    BY <1>1, <2>1, <2>2, <2>3 DEF IInv, TypeOK
  <2>5. AnswerOK'
    BY <1>1, <2>1, <2>2, <2>3 DEF AnswerOK
  <2>6. Entered'
    BY <2>1 DEF Entered, VALID, READY
  <2>7. QED
    BY <2>4, <2>5, <2>6 DEF IInv
<1>5. QED
  BY <1>2, <1>3, <1>4

(***************************************************************************)
(* The invariant holds after any sequence of calls.                        *)
(***************************************************************************)
THEOREM Invariance ==
  ASSUME BoundsAssumption
  PROVE  Spec => []IInv
<1>1. Init => IInv
  BY InitIInv
<1>2. IInv /\ [Next]_vars => IInv'
  BY ChangeStep, FinalizeStep, ReturnStep, OtherStep DEF Next
<1>3. QED
  BY <1>1, <1>2, PTL DEF Spec

(***************************************************************************)
(* There is a model exactly in state SATISFIED, and only assumptions fail. *)
(***************************************************************************)
THEOREM TypeCorrect ==
  ASSUME BoundsAssumption
  PROVE  Spec => []TypeOK
<1>1. IInv => TypeOK
  BY DEF IInv
<1>2. QED
  BY <1>1, Invariance, PTL

(***************************************************************************)
(* An answer the user can read is right for the clauses as they are and    *)
(* for the assumptions and the constraint that were entered for it: a core *)
(* is one, a model satisfies the clauses whatever is flipped, and all of   *)
(* the query but what the user has flipped (Solver::flip).                 *)
(***************************************************************************)
THEOREM AnswerStaysCurrent ==
  ASSUME BoundsAssumption
  PROVE  Spec => []AnswerCurrent
<1>1. IInv => AnswerCurrent
  BY DEF IInv, AnswerOK, AnswerCurrent, ModelRightFor, CoreRightFor
<1>2. QED
  BY <1>1, Invariance, PTL

(***************************************************************************)
(* A solve is restricted by exactly what was said since the previous one   *)
(* returned (transition_to_steady_state).                                  *)
(***************************************************************************)
THEOREM QueryStaysFresh ==
  ASSUME BoundsAssumption
  PROVE  Spec => []QueryFresh
<1>1. IInv => QueryFresh
  BY DEF IInv, Entered, QueryFresh
<1>2. QED
  BY <1>1, Invariance, PTL

\* A limit or a termination that is in force was requested since the last search was over,
\* except while the solve that is over has not taken it back yet.
InForce ==
  /\ phase \in {"idle", "search"} /\ limited => "limit" \in requests
  /\ termination_forced /\ phase # "finalized" => "terminate" \in requests

\* Only a call changes the requests and what is in force: a new one sets both, the end of a
\* search forgets the requests before reset_solving and Return do the rest.
LEMMA InForceStep ==
  ASSUME TypeOK, InForce, [Next]_vars
  PROVE  InForce'
<1>1. CASE \/ \E lit \in Lits : AddLit(lit) \/ ConstrainLit(lit) \/ Assume(lit)
           \/ AddZero \/ ConstrainZero \/ ResetAssumptions \/ ResetConstraint \/ Reserve \/ StartSolve
  <2>1. \E s : Change(s)
    BY <1>1 DEF AddLit, ConstrainLit, Assume, AddZero, ConstrainZero, ResetAssumptions,
         ResetConstraint, Reserve, StartSolve
  <2>2. PICK s : Change(s)
    BY <2>1
  <2>3. /\ UNCHANGED <<limited, termination_forced, requests>> /\ phase' \in {"idle", "search"}
        /\ phase = "idle"
    BY <2>2 DEF Change, TypeOK, VALID, READY
  <2>4. QED
    BY <2>3 DEF InForce
<1>2. CASE (\E lit \in Lits : Flip(lit)) \/ ContractViolation \/ Delete \/ UNCHANGED vars
  <2>1. UNCHANGED <<limited, termination_forced, requests, phase>>
    BY <1>2 DEF Flip, ContractViolation, Delete, vars
  <2>2. QED
    BY <2>1 DEF InForce
<1>3. CASE (\E on \in BOOLEAN : Limit(on)) \/ Terminate
  BY <1>3 DEF InForce, Limit, Terminate
<1>4. CASE SolveSatisfiable \/ SolveUnsatisfiable \/ SolveUnknown
  <2>1. phase' = "finalized"
    BY <1>4 DEF SolveSatisfiable, SolveUnsatisfiable, SolveUnknown, Finalize
  <2>2. QED
    BY <2>1 DEF InForce
<1>5. CASE reset_solving
  BY <1>5 DEF InForce, reset_solving
<1>6. CASE Return
  BY <1>6 DEF InForce, Return
<1>7. QED
  BY <1>1, <1>2, <1>3, <1>4, <1>5, <1>6 DEF Next

(***************************************************************************)
(* A solve gives up only because of a limit or a terminate that came after *)
(* the previous search was over, whenever the other thread calls terminate *)
(* (reset_solving, reset_limits).                                          *)
(***************************************************************************)
THEOREM StopsOnRequest ==
  ASSUME BoundsAssumption
  PROVE  Spec => StoppedOnRequest
<1>1. Init => InForce
  BY DEF Init, InForce
<1>2. TypeOK /\ InForce /\ [Next]_vars => InForce'
  BY InForceStep
<1>3. TypeOK /\ InForce /\ [Next]_vars =>
        [phase = "search" /\ result' = "STEADY" =>
           \/ limited /\ "limit" \in requests
           \/ termination_forced /\ "terminate" \in requests]_vars
  <2>1. SUFFICES ASSUME TypeOK, InForce, Next, phase = "search", result' = "STEADY"
                 PROVE  \/ limited /\ "limit" \in requests
                        \/ termination_forced /\ "terminate" \in requests
    OBVIOUS
  <2>2. result = "none" /\ state = "SOLVING"
    BY <2>1 DEF TypeOK
  <2>3. SolveUnknown
    BY <2>1, <2>2 DEF Next, AddLit, ConstrainLit, Assume, Flip, AddZero, ConstrainZero, ResetAssumptions,
         ResetConstraint, Reserve, Limit, StartSolve, Terminate, SolveSatisfiable, SolveUnsatisfiable,
         reset_solving, Return, ContractViolation, Delete, Change, Finalize, VALID, READY
  <2>4. QED
    BY <2>1, <2>3 DEF SolveUnknown, InForce
<1>4. QED
  BY <1>1, <1>2, <1>3, TypeCorrect, PTL DEF Spec, StoppedOnRequest

-----------------------------------------------------------------------------
(* Literals and assignments.                                               *)

\* Literals come in pairs that are different.
LEMMA LitFacts ==
  ASSUME ExternalAssumption, NEW lit \in Lits
  PROVE  /\ lit \in Int /\ -lit \in Lits /\ -(-lit) = lit /\ -lit # lit
         /\ Var(lit) \in Vars /\ Var(-lit) = Var(lit)
BY DEF ExternalAssumption, Lits, Var

\* A total assignment has exactly one of a literal and its negation.
LEMMA TotalFacts ==
  ASSUME ExternalAssumption, NEW sigma \in Total
  PROVE  sigma \subseteq Lits /\ \A lit \in Lits : lit \in sigma <=> -lit \notin sigma
<1>1. PICK P \in SUBSET Vars : sigma = {IF v \in P THEN v ELSE -v : v \in Vars}
  BY DEF Total
<1>2. \A v \in Vars : v \in Int /\ v > 0
  BY DEF ExternalAssumption
<1>3. \A v \in Vars : (v \in sigma <=> v \in P) /\ (-v \in sigma <=> v \notin P)
  <2>1. TAKE v \in Vars
  <2>2. ASSUME NEW u \in Vars PROVE (u = v <=> -u = -v) /\ u # -v /\ -u # v
    BY <1>2
  <2>3. v \in sigma <=> \E u \in Vars : v = IF u \in P THEN u ELSE -u
    BY <1>1
  <2>4. -v \in sigma <=> \E u \in Vars : -v = IF u \in P THEN u ELSE -u
    BY <1>1
  <2>5. QED
    BY <2>2, <2>3, <2>4
<1>4. sigma \subseteq Lits
  BY <1>1 DEF Lits
<1>5. ASSUME NEW lit \in Lits PROVE lit \in sigma <=> -lit \notin sigma
  <2>1. CASE lit \in Vars
    BY <1>3, <2>1
  <2>2. CASE lit \notin Vars
    <3>1. PICK v \in Vars : lit = -v
      BY <2>2 DEF Lits
    <3>2. -lit = v
      BY <1>2, <3>1
    <3>3. QED
      BY <1>3, <3>1, <3>2
  <2>3. QED
    BY <2>1, <2>2
<1>6. QED
  BY <1>4, <1>5

\* And that makes an assignment total.
LEMMA TotalIs ==
  ASSUME ExternalAssumption, NEW sigma \in SUBSET Lits,
         \A lit \in Lits : lit \in sigma <=> -lit \notin sigma
  PROVE  sigma \in Total
<1> DEFINE P == sigma \cap Vars
           tau == {IF v \in P THEN v ELSE -v : v \in Vars}
<1>1. \A v \in Vars : v \in Lits /\ v \in Int /\ v > 0 /\ -v \in Lits
  BY DEF ExternalAssumption, Lits
<1>2. ASSUME NEW lit \in sigma PROVE lit \in tau
  <2>1. CASE lit \in Vars
    BY <2>1
  <2>2. CASE lit \notin Vars
    <3>1. PICK v \in Vars : lit = -v
      BY <2>2 DEF Lits
    <3>2. v \notin sigma
      BY <1>1, <3>1
    <3>3. QED
      BY <3>1, <3>2
  <2>3. QED
    BY <2>1, <2>2
<1>3. ASSUME NEW lit \in tau PROVE lit \in sigma
  <2>1. PICK v \in Vars : lit = IF v \in P THEN v ELSE -v
    OBVIOUS
  <2>2. v \in sigma \/ -v \in sigma
    BY <1>1
  <2>3. QED
    BY <2>1, <2>2
<1>4. sigma = tau /\ P \in SUBSET Vars
  BY <1>2, <1>3
<1>5. tau \in Total
  BY Zenon DEF Total
<1> HIDE DEF tau
<1>6. QED
  BY <1>4, <1>5

\* Extension keeps assignments total.
LEMMA MadeTrueTotal ==
  ASSUME ExternalAssumption, NEW sigma \in Total, NEW W \in SUBSET Lits, Consistent(W)
  PROVE  MadeTrue(sigma, W) \in Total
<1> DEFINE tau == MadeTrue(sigma, W)
<1>1. tau \subseteq Lits
  BY TotalFacts DEF MadeTrue
<1>2. \A lit \in Lits : lit \in Neg(W) <=> -lit \in W
  BY LitFacts DEF Neg
<1>3. \A lit \in W : -lit \notin W
  BY DEF Consistent, Tautological
<1>4. ASSUME NEW lit \in Lits PROVE lit \in tau <=> -lit \notin tau
  <2>1. -lit \in Lits /\ -(-lit) = lit
    BY LitFacts
  <2>2. lit \in tau <=> lit \in W \/ (lit \in sigma /\ -lit \notin W)
    BY <1>2 DEF MadeTrue
  <2>3. -lit \in tau <=> -lit \in W \/ (-lit \in sigma /\ lit \notin W)
    BY <1>2, <2>1 DEF MadeTrue
  <2>4. lit \in sigma <=> -lit \notin sigma
    BY TotalFacts
  <2>5. QED
    BY <1>3, <2>2, <2>3, <2>4
<1>5. QED
  BY <1>1, <1>4, TotalIs

\* So does a flip.
LEMMA ExternalFlipTotal ==
  ASSUME ExternalAssumption, NEW sigma \in Total, NEW lit \in Lits
  PROVE  (sigma \ {lit, -lit}) \cup ({lit, -lit} \ sigma) \in Total
<1> DEFINE tau == (sigma \ {lit, -lit}) \cup ({lit, -lit} \ sigma)
<1>1. -lit \in Lits /\ -(-lit) = lit /\ sigma \subseteq Lits
  BY LitFacts, TotalFacts
<1>2. ASSUME NEW k \in Lits PROVE k \in tau <=> -k \notin tau
  <2>1. -k \in Lits /\ -(-k) = k /\ (k \in sigma <=> -k \notin sigma)
    BY LitFacts, TotalFacts
  <2>2. k \in {lit, -lit} <=> -k \in {lit, -lit}
    BY <1>1, <2>1
  <2>3. QED
    BY <2>1, <2>2
<1>3. QED
  BY <1>1, <1>2, TotalIs

\* What a stack entry does not flip in a clause stays true in it.
LEMMA CleanStays ==
  ASSUME NEW e, NEW sigma, NEW C, C \cap Neg(e.witness) = {}, C \cap sigma # {}
  PROVE  C \cap ExtendEntry(e, sigma) # {}
BY DEF ExtendEntry, MadeTrue

\* So with a set of clauses.
LEMMA CleanModels ==
  ASSUME NEW e, NEW F, \A C \in F : C \cap Neg(e.witness) = {}, NEW sigma \in Models(F),
         ExtendEntry(e, sigma) \in Total
  PROVE  ExtendEntry(e, sigma) \in Models(F)
BY CleanStays DEF Models, Satisfies

\* The models of a formula with an added clause.
LEMMA AddedModels ==
  ASSUME ExternalAssumption, NEW F, NEW C \in SUBSET Lits, NEW sigma \in Total
  PROVE  Satisfies(sigma, Added(F, C)) <=> Satisfies(sigma, F) /\ C \cap sigma # {}
<1>1. CASE {} \in F
  BY <1>1 DEF Added, Satisfies
<1>2. CASE Tautological(C)
  <2>1. PICK lit \in C : -lit \in C
    BY <1>2 DEF Tautological
  <2>2. C \cap sigma # {}
    BY <2>1, TotalFacts
  <2>3. QED
    BY <1>2, <2>2 DEF Added
<1>3. CASE C \cap fixed(F) # {}
  <2>1. PICK lit \in C : {lit} \in F
    BY <1>3 DEF fixed
  <2>2. Satisfies(sigma, F) => lit \in sigma
    BY <2>1 DEF Satisfies
  <2>3. QED
    BY <1>3, <2>1, <2>2 DEF Added
<1>4. CASE ~({} \in F \/ Tautological(C) \/ C \cap fixed(F) # {})
  <2> DEFINE D == C \ Neg(fixed(F))
  <2>1. Added(F, C) = F \cup {D}
    BY <1>4 DEF Added
  <2>2. Satisfies(sigma, Added(F, C)) <=> Satisfies(sigma, F) /\ D \cap sigma # {}
    BY <2>1 DEF Satisfies
  <2>3. ASSUME Satisfies(sigma, F) PROVE D \cap sigma = C \cap sigma
    <3>1. ASSUME NEW lit \in C \cap sigma, lit \in Neg(fixed(F)) PROVE FALSE
      <4>1. PICK k \in Lits : {k} \in F /\ lit = -k
        BY <3>1 DEF Neg, fixed
      <4>2. k \in sigma
        BY <2>3, <4>1 DEF Satisfies
      <4>3. QED
        BY <3>1, <4>1, <4>2, TotalFacts
    <3>2. QED
      BY <3>1
  <2>4. QED
    BY <2>2, <2>3
<1>5. QED
  BY <1>1, <1>2, <1>3, <1>4

\* Its clauses and their literals.
LEMMA AddedFacts ==
  ASSUME NEW F \in SUBSET ProperClauses, NEW C \in SUBSET Lits
  PROVE  /\ Added(F, C) \in SUBSET ProperClauses
         /\ \A D \in Added(F, C) : D \in F \/ D \subseteq C
<1>1. C \ Neg(fixed(F)) \subseteq C /\ C \ Neg(fixed(F)) \in SUBSET Lits
  OBVIOUS
<1>2. ~Tautological(C) => C \ Neg(fixed(F)) \in ProperClauses
  BY <1>1 DEF ProperClauses, Tautological
<1>3. QED
  BY <1>1, <1>2 DEF Added

\* A set of numbers that is not empty has a least element.
LEMMA LeastNumber ==
  ASSUME NEW T \in SUBSET Nat, T # {}
  PROVE  \E n \in T : \A m \in T : n <= m
<1>1. IsWellFoundedOn(OpToRel(<, Nat), Nat)
  BY NatLessThanWellFounded
<1>2. PICK n \in T : \A m \in T : ~ (<<m, n>> \in OpToRel(<, Nat))
  BY <1>1, WFMin
<1>3. \A m \in T : <<m, n>> \in Nat \X Nat /\ ~(m < n)
  BY <1>2 DEF OpToRel
<1>4. ASSUME NEW m \in T PROVE n <= m
  <2>1. m \in Nat /\ n \in Nat /\ ~(m < n)
    BY <1>3
  <2>2. QED
    BY <2>1
<1>5. QED
  BY <1>4

-----------------------------------------------------------------------------
(* Extension along a chain of sets of assignments.                         *)

Entries == [witness : SUBSET Lits, clause : ProperClauses]

\* M[i] are assignments that the first i entries of the stack repair: entry i
\* takes them to M[i - 1].
Chain(stack, M) ==
  /\ M \in [0 .. Len(stack) -> SUBSET Total]
  /\ \A i \in 1 .. Len(stack) : \A sigma \in M[i] : ExtendEntry(stack[i], sigma) \in M[i - 1]

\* The loop of extend, down to entry n - d.
IsExtend(stack, sigma, n, f, d) ==
  f = [i \in n - d .. n |-> IF i = n THEN sigma ELSE ExtendEntry(stack[i + 1], f[i + 1])]

\* The recursion of Extend defines a function.
LEMMA ExtendExists ==
  ASSUME NEW stack, NEW sigma, NEW n \in Nat
  PROVE  \E f : IsExtend(stack, sigma, n, f, n)
<1> DEFINE bad == {d \in Nat : ~ \E f : IsExtend(stack, sigma, n, f, d)}
<1>1. ASSUME bad # {} PROVE FALSE
  <2>1. PICK d \in bad : \A m \in bad : d <= m
    <3> HIDE DEF bad
    <3>1. bad \in SUBSET Nat
      BY DEF bad
    <3>2. QED
      BY <1>1, <3>1, LeastNumber
  <2>2. d \in Nat
    OBVIOUS
  <2>3. d # 0
    <3>1. SUFFICES ASSUME d = 0 PROVE \E f : IsExtend(stack, sigma, n, f, d)
      BY <2>1
    <3> DEFINE g == [i \in n .. n |-> sigma]
    <3>2. n - d = n
      BY <3>1
    <3>3. g = [i \in n .. n |-> IF i = n THEN sigma ELSE ExtendEntry(stack[i + 1], g[i + 1])]
      OBVIOUS
    <3>4. IsExtend(stack, sigma, n, g, d)
      BY <3>2, <3>3 DEF IsExtend
    <3>5. QED
      BY <3>4
  <2>4. d - 1 \in Nat /\ d - 1 \notin bad
    <3> HIDE DEF bad
    <3>1. QED
      BY <2>1, <2>2, <2>3
  <2>5. PICK f : IsExtend(stack, sigma, n, f, d - 1)
    BY <2>4
  <2> DEFINE low == n - d
             g == [i \in low .. n |->
                     IF i = low THEN ExtendEntry(stack[low + 1], f[low + 1]) ELSE f[i]]
  <2>6. low \in Int /\ low < n /\ n - (d - 1) = low + 1
    BY <2>2, <2>3
  <2>7. \A i \in low + 1 .. n :
          f[i] = IF i = n THEN sigma ELSE ExtendEntry(stack[i + 1], f[i + 1])
    BY <2>5, <2>6 DEF IsExtend
  <2>8. ASSUME NEW i \in low .. n
        PROVE  g[i] = IF i = n THEN sigma ELSE ExtendEntry(stack[i + 1], g[i + 1])
    <3>1. i # n => i + 1 \in low .. n /\ i + 1 # low
      BY <2>6
    <3>2. i # n => g[i + 1] = f[i + 1]
      BY <3>1
    <3>3. i # low => i \in low + 1 .. n
      BY <2>6
    <3>4. CASE i = low
      BY <2>6, <3>2, <3>4
    <3>5. CASE i # low
      BY <2>7, <3>2, <3>3, <3>5
    <3>6. QED
      BY <3>4, <3>5
  <2>9. IsExtend(stack, sigma, n, g, d)
    <3>1. g = [i \in low .. n |-> g[i]]
      OBVIOUS
    <3> HIDE DEF g
    <3>2. g = [i \in low .. n |-> IF i = n THEN sigma ELSE ExtendEntry(stack[i + 1], g[i + 1])]
      BY <2>8, <3>1
    <3>3. QED
      BY <3>2 DEF IsExtend
  <2>10. QED
    BY <2>1, <2>9
<1>2. QED
  BY <1>1

\* External::extend leads from the end of a chain to its beginning.
LEMMA ExtendInChain ==
  ASSUME NEW stack, Len(stack) \in Nat, NEW M, Chain(stack, M), NEW sigma \in M[Len(stack)]
  PROVE  Extend(stack, sigma) \in M[0]
<1> DEFINE n == Len(stack)
           ext == CHOOSE f : IsExtend(stack, sigma, n, f, n)
<1>1. IsExtend(stack, sigma, n, ext, n)
  BY ExtendExists
<1>2. Extend(stack, sigma) = ext[0]
  BY DEF Extend, IsExtend
<1> HIDE DEF ext
<1>3. \A i \in 0 .. n : ext[i] = IF i = n THEN sigma ELSE ExtendEntry(stack[i + 1], ext[i + 1])
  BY <1>1 DEF IsExtend
<1> DEFINE bad == {d \in 0 .. n : \E k \in 0 .. n : k = n - d /\ ext[k] \notin M[k]}
<1>4. ASSUME bad # {} PROVE FALSE
  <2>1. PICK d \in bad : \A m \in bad : d <= m
    <3> HIDE DEF bad
    <3>1. bad \in SUBSET Nat
      BY DEF bad
    <3>2. QED
      BY <1>4, <3>1, LeastNumber
  <2>2. PICK k \in 0 .. n : k = n - d /\ ext[k] \notin M[k] /\ d \in 0 .. n
    OBVIOUS
  <2> HIDE DEF bad
  <2>3. k # n
    BY <1>3, <2>2
  <2>4. k + 1 \in 1 .. n /\ k + 1 \in 0 .. n /\ (k + 1) - 1 = k
    BY <2>2, <2>3
  <2>5. d - 1 \notin bad
    BY <2>1, <2>2
  <2>6. ext[k + 1] \in M[k + 1]
    <3>1. d - 1 \in 0 .. n /\ k + 1 = n - (d - 1)
      BY <2>2, <2>3
    <3>2. QED
      BY <2>4, <2>5, <3>1 DEF bad
  <2>7. ext[k] = ExtendEntry(stack[k + 1], ext[k + 1])
    BY <1>3, <2>2, <2>3
  <2>8. ExtendEntry(stack[k + 1], ext[k + 1]) \in M[k]
    <3> DEFINE j == k + 1
    <3> HIDE DEF j
    <3>1. j \in 1 .. n /\ j - 1 = k /\ ext[j] \in M[j]
      BY <2>4, <2>6 DEF j
    <3>2. ExtendEntry(stack[j], ext[j]) \in M[j - 1]
      BY <3>1 DEF Chain
    <3>3. QED
      BY <3>1, <3>2 DEF j
  <2>9. QED
    BY <2>2, <2>7, <2>8
<1>5. n \in 0 .. n /\ 0 \in 0 .. n /\ n - n = 0
  OBVIOUS
<1>6. n \notin bad
  <2> HIDE DEF bad
  <2>1. QED
    BY <1>4
<1>7. QED
  BY <1>2, <1>5, <1>6

\* A chain cut down to the models of clauses that no entry disturbs.
LEMMA ChainCut ==
  ASSUME NEW stack, Len(stack) \in Nat, NEW M, Chain(stack, M), NEW F,
         \A i \in 1 .. Len(stack) : \A C \in F : C \cap Neg(stack[i].witness) = {}
  PROVE  Chain(stack, [i \in 0 .. Len(stack) |-> M[i] \cap Models(F)])
<1> DEFINE N == [i \in 0 .. Len(stack) |-> M[i] \cap Models(F)]
<1>1. N \in [0 .. Len(stack) -> SUBSET Total]
  BY DEF Chain
<1>2. ASSUME NEW i \in 1 .. Len(stack), NEW sigma \in N[i]
      PROVE  ExtendEntry(stack[i], sigma) \in N[i - 1]
  <2>1. i \in 0 .. Len(stack) /\ i - 1 \in 0 .. Len(stack)
    OBVIOUS
  <2>2. sigma \in M[i] /\ sigma \in Models(F)
    BY <1>2, <2>1
  <2>3. ExtendEntry(stack[i], sigma) \in M[i - 1]
    BY <2>2 DEF Chain
  <2>4. ExtendEntry(stack[i], sigma) \in Total
    BY <2>1, <2>3 DEF Chain
  <2>5. ExtendEntry(stack[i], sigma) \in Models(F)
    BY <2>2, <2>4, CleanModels
  <2>6. QED
    BY <2>1, <2>3, <2>5
<1>3. QED
  BY <1>1, <1>2 DEF Chain

\* A chain made longer.
Longer(M, n, S) == [i \in 0 .. n + 1 |-> IF i = n + 1 THEN S ELSE M[i]]

LEMMA ChainAppend ==
  ASSUME NEW stack \in Seq(Entries), NEW e \in Entries, NEW M, Chain(stack, M), NEW S \in SUBSET Total,
         \A sigma \in S : ExtendEntry(e, sigma) \in M[Len(stack)]
  PROVE  /\ Chain(Append(stack, e), Longer(M, Len(stack), S))
         /\ Longer(M, Len(stack), S)[0] = M[0]
         /\ Longer(M, Len(stack), S)[Len(Append(stack, e))] = S
<1> DEFINE n == Len(stack)
           longer == Append(stack, e)
           N == Longer(M, n, S)
<1> USE DEF Longer
<1>1. /\ n \in Nat /\ Len(longer) = n + 1 /\ longer[n + 1] = e
      /\ \A i \in 1 .. n : longer[i] = stack[i]
  OBVIOUS
<1> HIDE DEF longer
<1>2. N \in [0 .. n + 1 -> SUBSET Total]
  <2>1. ASSUME NEW i \in 0 .. n + 1 PROVE N[i] \in SUBSET Total
    <3>1. i # n + 1 => i \in 0 .. n
      BY <1>1
    <3>2. QED
      BY <3>1 DEF Chain
  <2>2. QED
    BY <2>1
<1>3. ASSUME NEW i \in 1 .. n + 1, NEW sigma \in N[i]
      PROVE  ExtendEntry(longer[i], sigma) \in N[i - 1]
  <2>1. i \in 0 .. n + 1 /\ i - 1 \in 0 .. n + 1 /\ i - 1 # n + 1
    BY <1>1
  <2>2. CASE i = n + 1
    BY <1>1, <1>3, <2>1, <2>2
  <2>3. CASE i # n + 1
    <3>1. i \in 1 .. n
      BY <1>1, <2>3
    <3>2. sigma \in M[i]
      BY <1>3, <2>1, <2>3
    <3>3. ExtendEntry(stack[i], sigma) \in M[i - 1]
      BY <3>1, <3>2 DEF Chain
    <3>4. N[i - 1] = M[i - 1] /\ longer[i] = stack[i]
      BY <1>1, <2>1, <3>1
    <3>5. QED
      BY <3>3, <3>4
  <2>4. QED
    BY <2>2, <2>3
<1>4. Chain(longer, N)
  BY <1>1, <1>2, <1>3 DEF Chain
<1>5. N[0] = M[0] /\ N[n + 1] = S
  BY <1>1
<1>6. QED
  BY <1>1, <1>4, <1>5 DEF longer

-----------------------------------------------------------------------------
(* The loop of restore_clauses.                                            *)

RestoreStates ==
  [irr : SUBSET ProperClauses, inactive : SUBSET Vars, tainted : SUBSET Lits, kept : Seq(Entries)]

Begin == [irr |-> irr, inactive |-> inactive, tainted |-> tainted, kept |-> <<>>]

IsRestore(f, n) ==
  f = [k \in 0 .. n |-> IF k = 0 THEN Begin ELSE RestoreEntry(f[k - 1], extension[k])]

\* The recursion of Restored defines a function.
LEMMA RestoreExists ==
  ASSUME NEW len \in Nat
  PROVE  \E f : IsRestore(f, len)
<1> DEFINE bad == {n \in Nat : ~ \E f : IsRestore(f, n)}
<1>1. ASSUME bad # {} PROVE FALSE
  <2>1. PICK n \in bad : \A m \in bad : n <= m
    <3> HIDE DEF bad
    <3>1. bad \in SUBSET Nat
      BY DEF bad
    <3>2. QED
      BY <1>1, <3>1, LeastNumber
  <2>2. n \in Nat
    OBVIOUS
  <2>3. n # 0
    <3>1. SUFFICES ASSUME n = 0 PROVE \E f : IsRestore(f, n)
      BY <2>1
    <3> DEFINE g == [k \in 0 .. 0 |-> Begin]
    <3>2. IsRestore(g, n)
      BY <3>1 DEF IsRestore
    <3>3. QED
      BY <3>2
  <2>4. n - 1 \in Nat /\ n - 1 \notin bad
    <3> HIDE DEF bad
    <3>1. QED
      BY <2>1, <2>2, <2>3
  <2>5. PICK f : IsRestore(f, n - 1)
    BY <2>4
  <2> DEFINE g == [k \in 0 .. n |-> IF k = n THEN RestoreEntry(f[n - 1], extension[n]) ELSE f[k]]
  <2>6. \A k \in 0 .. n - 1 : f[k] = IF k = 0 THEN Begin ELSE RestoreEntry(f[k - 1], extension[k])
    BY <2>5 DEF IsRestore
  <2>7. ASSUME NEW k \in 0 .. n
        PROVE  g[k] = IF k = 0 THEN Begin ELSE RestoreEntry(g[k - 1], extension[k])
    <3>1. k # 0 => k - 1 \in 0 .. n /\ k - 1 # n /\ g[k - 1] = f[k - 1]
      BY <2>2
    <3>2. k # n => k \in 0 .. n - 1
      BY <2>2
    <3>3. QED
      BY <2>3, <2>6, <3>1, <3>2
  <2>8. IsRestore(g, n)
    <3>1. g = [k \in 0 .. n |-> g[k]]
      OBVIOUS
    <3> HIDE DEF g
    <3>2. QED
      BY <2>7, <3>1 DEF IsRestore
  <2>9. QED
    BY <2>1, <2>8
<1>2. QED
  BY <1>1

\* What holds at the beginning and is kept by every entry holds at the end.
LEMMA RestoreInduction ==
  ASSUME Len(extension) \in Nat, NEW Good, Begin \in Good[0],
         \A k \in 1 .. Len(extension) : \A s \in Good[k - 1] : RestoreEntry(s, extension[k]) \in Good[k]
  PROVE  Restored \in Good[Len(extension)]
<1> DEFINE n == Len(extension)
           after == CHOOSE f : IsRestore(f, n)
<1>1. IsRestore(after, n)
  BY RestoreExists
<1>2. Restored = after[n]
  BY DEF Restored, IsRestore, Begin
<1> HIDE DEF after
<1>3. after[0] = Begin /\ \A k \in 1 .. n : after[k] = RestoreEntry(after[k - 1], extension[k])
  BY <1>1 DEF IsRestore
<1> DEFINE bad == {k \in 0 .. n : after[k] \notin Good[k]}
<1>4. ASSUME bad # {} PROVE FALSE
  <2>1. PICK k \in bad : \A m \in bad : k <= m
    <3> HIDE DEF bad
    <3>1. bad \in SUBSET Nat
      BY DEF bad
    <3>2. QED
      BY <1>4, <3>1, LeastNumber
  <2>2. k \in 1 .. n /\ k - 1 \in 0 .. n /\ ~(k <= k - 1)
    BY <1>3, <2>1
  <2>3. after[k - 1] \in Good[k - 1]
    BY <2>1, <2>2
  <2>4. QED
    BY <1>3, <2>1, <2>2, <2>3
<1>5. n \in 0 .. n /\ n \notin bad
  <2> HIDE DEF bad
  <2>1. QED
    BY <1>4
<1>6. QED
  BY <1>2, <1>5

\* The clauses F have no inactive variable of I.
Active(F, I) == \A C \in F : \A lit \in C : Var(lit) \notin I

\* An added clause makes its variables active.
LEMMA AddedActive ==
  ASSUME NEW F \in SUBSET ProperClauses, NEW C \in SUBSET Lits, NEW G, NEW I, Active(F \cup G, I)
  PROVE  Active(Added(F, C) \cup G, Reactivated(I, C))
<1>1. ASSUME NEW D \in Added(F, C) \cup G, NEW lit \in D PROVE Var(lit) \notin Reactivated(I, C)
  <2>1. D \in F \cup G \/ D \subseteq C
    BY AddedFacts
  <2>2. QED
    BY <2>1 DEF Active, Reactivated
<1>2. QED
  BY <1>1 DEF Active

\* The three outcomes for an entry.
LEMMA RestoreEntryCases ==
  ASSUME NEW s, NEW e
  PROVE  \/ RestoreEntry(s, e) = s /\ opts.restoreflush
         \/ RestoreEntry(s, e) = [irr |-> Added(s.irr, e.clause),
                                  inactive |-> Reactivated(s.inactive, e.clause),
                                  tainted |-> s.tainted \cup Tainted(e.clause, witness),
                                  kept |-> s.kept]
         \/ /\ RestoreEntry(s, e) = [irr |-> s.irr, inactive |-> s.inactive, tainted |-> s.tainted,
                                     kept |-> Append(s.kept, e)]
            /\ Neg(e.witness) \cap s.tainted = {}
BY DEF RestoreEntry

\* The type of what it leaves.
LEMMA RestoreEntryType ==
  ASSUME NEW s \in RestoreStates, NEW e \in Entries
  PROVE  RestoreEntry(s, e) \in RestoreStates
<1>1. e.clause \in ProperClauses /\ e.clause \in SUBSET Lits
  BY DEF Entries, ProperClauses
<1>2. s.irr \in SUBSET ProperClauses /\ s.inactive \in SUBSET Vars /\ s.tainted \in SUBSET Lits
      /\ s.kept \in Seq(Entries)
  BY DEF RestoreStates
<1>3. Added(s.irr, e.clause) \in SUBSET ProperClauses
  BY <1>1, <1>2, AddedFacts
<1>4. s.tainted \cup Tainted(e.clause, witness) \in SUBSET Lits
  BY <1>1, <1>2 DEF Tainted
<1>5. Reactivated(s.inactive, e.clause) \in SUBSET Vars
  BY <1>2 DEF Reactivated
<1>6. Append(s.kept, e) \in Seq(Entries)
  BY <1>2
<1>7. [irr |-> Added(s.irr, e.clause), inactive |-> Reactivated(s.inactive, e.clause),
       tainted |-> s.tainted \cup Tainted(e.clause, witness), kept |-> s.kept] \in RestoreStates
  BY <1>2, <1>3, <1>4, <1>5 DEF RestoreStates
<1>8. [irr |-> s.irr, inactive |-> s.inactive, tainted |-> s.tainted, kept |-> Append(s.kept, e)]
        \in RestoreStates
  BY <1>2, <1>6 DEF RestoreStates
<1>9. QED
  BY <1>7, <1>8, RestoreEntryCases

\* The types and what is implied, for any options: A are the assumptions.
Implied(F) == \A sigma \in Models(original) : Satisfies(sigma, F)

RestoreSound(s, A) ==
  /\ Active(s.irr \cup Units(A), s.inactive)
  /\ Implied(s.irr)
  /\ \A i \in 1 .. Len(s.kept) : \E j \in 1 .. Len(extension) : s.kept[i] = extension[j]

\* A restored clause follows from what the user has added.
LEMMA RestoreEntrySound ==
  ASSUME ExternalAssumption, NEW s \in RestoreStates, NEW j \in 1 .. Len(extension),
         extension[j] \in Entries, Implied({extension[j].clause}), NEW A, RestoreSound(s, A)
  PROVE  RestoreEntry(s, extension[j]) \in RestoreStates /\ RestoreSound(RestoreEntry(s, extension[j]), A)
<1> DEFINE e == extension[j]
           t == RestoreEntry(s, e)
<1>1. e.clause \in ProperClauses /\ e.clause \in SUBSET Lits /\ e.witness \in SUBSET Lits
  BY DEF Entries, ProperClauses
<1>2. s.irr \in SUBSET ProperClauses /\ s.inactive \in SUBSET Vars /\ s.tainted \in SUBSET Lits
      /\ s.kept \in Seq(Entries)
  BY DEF RestoreStates
<1> HIDE DEF e, t
<1>3. CASE t = s
  BY <1>3 DEF e, t
<1>4. CASE t = [irr |-> Added(s.irr, e.clause), inactive |-> Reactivated(s.inactive, e.clause),
                tainted |-> s.tainted \cup Tainted(e.clause, witness), kept |-> s.kept]
  <2>4. t \in RestoreStates
    BY RestoreEntryType DEF e, t
  <2>5. t.irr = Added(s.irr, e.clause) /\ t.inactive = Reactivated(s.inactive, e.clause) /\ t.kept = s.kept
    BY <1>4
  <2>6. Active(t.irr \cup Units(A), t.inactive)
    <3>1. Active(s.irr \cup Units(A), s.inactive)
      BY DEF RestoreSound
    <3>2. Active(Added(s.irr, e.clause) \cup Units(A), Reactivated(s.inactive, e.clause))
      BY <1>1, <1>2, <3>1, AddedActive
    <3>3. QED
      BY <2>5, <3>2
  <2>7. ASSUME NEW sigma \in Models(original) PROVE Satisfies(sigma, t.irr)
    <3>1. sigma \in Total
      BY DEF Models
    <3>2. Satisfies(sigma, s.irr) /\ e.clause \cap sigma # {}
      BY DEF RestoreSound, Implied, Satisfies, e
    <3>3. QED
      BY <1>1, <2>5, <3>1, <3>2, AddedModels
  <2>8. QED
    BY <2>4, <2>5, <2>6, <2>7 DEF RestoreSound, Implied, e, t
<1>5. CASE t = [irr |-> s.irr, inactive |-> s.inactive, tainted |-> s.tainted, kept |-> Append(s.kept, e)]
  <2>1. e \in Entries
    BY DEF e
  <2>2. /\ Append(s.kept, e) \in Seq(Entries) /\ Len(Append(s.kept, e)) = Len(s.kept) + 1
        /\ Append(s.kept, e)[Len(s.kept) + 1] = e /\ Len(s.kept) \in Nat
        /\ \A i \in 1 .. Len(s.kept) : Append(s.kept, e)[i] = s.kept[i]
    BY <1>2, <2>1
  <2>3. t \in RestoreStates /\ t.irr = s.irr /\ t.inactive = s.inactive /\ t.kept = Append(s.kept, e)
    BY <1>2, <1>5, <2>2 DEF RestoreStates
  <2>4. ASSUME NEW i \in 1 .. Len(t.kept) PROVE \E k \in 1 .. Len(extension) : t.kept[i] = extension[k]
    <3>1. i \in 1 .. Len(s.kept) \/ i = Len(s.kept) + 1
      BY <2>2, <2>3
    <3>2. QED
      BY <2>2, <2>3, <3>1 DEF RestoreSound, e
  <2>5. QED
    BY <2>3, <2>4 DEF RestoreSound, e, t
<1>6. QED
  BY <1>3, <1>4, <1>5, RestoreEntryCases DEF e, t

\* The chain for the kept entries, with the clauses V that have been added since the stack
\* was complete: what is left of the stack repairs into M[k] \cap Models(V).
Repairing(s, k, M, K, V) ==
  /\ Chain(s.kept, K) /\ K[0] = Models(original)
  /\ M[k] \cap Models(V) \subseteq K[Len(s.kept)]
  /\ Models(s.irr) \subseteq M[Len(extension)] \cap Models(V)
  /\ \A C \in V : C \cap Neg(witness) \subseteq s.tainted

\* No kept entry flips an assumption.
Untouched(stack, A) == \A i \in 1 .. Len(stack) : Neg(stack[i].witness) \cap A = {}

RestoreRepairs(s, k, M, A) ==
  /\ \E K, V : Repairing(s, k, M, K, V)
  /\ tainted \subseteq s.tainted
  /\ Untouched(s.kept, A)

\* A kept entry disturbs none of the added clauses, their literals would be tainted; a
\* restored one is true from now on and would change nothing.
LEMMA RestoreEntryRepairs ==
  ASSUME ExternalAssumption, NEW s \in RestoreStates, NEW k \in 1 .. Len(extension), Len(extension) \in Nat,
         extension[k] \in Entries, extension[k].witness \subseteq witness,
         NEW M, Chain(extension, M), NEW A, A \cap Neg(witness) \subseteq tainted,
         ~opts.restoreflush, RestoreRepairs(s, k - 1, M, A)
  PROVE  RestoreRepairs(RestoreEntry(s, extension[k]), k, M, A)
<1> DEFINE e == extension[k]
           t == RestoreEntry(s, e)
<1>1. e.clause \in SUBSET Lits /\ Neg(e.witness) \subseteq Neg(witness) /\ e \in Entries
  BY DEF Entries, ProperClauses, Neg
<1>2. s.kept \in Seq(Entries) /\ Len(s.kept) \in Nat
  BY DEF RestoreStates
<1>3. PICK K, V : Repairing(s, k - 1, M, K, V)
  BY DEF RestoreRepairs
<1>4. tainted \subseteq s.tainted /\ Untouched(s.kept, A)
  BY DEF RestoreRepairs
<1>5. /\ M[k] \subseteq Total /\ M[k - 1] \subseteq Total
      /\ \A sigma \in M[k] : ExtendEntry(e, sigma) \in M[k - 1]
  <2>1. k \in 0 .. Len(extension) /\ k - 1 \in 0 .. Len(extension)
    OBVIOUS
  <2>2. QED
    BY <2>1 DEF Chain
<1> HIDE DEF e, t
<1>6. CASE t = [irr |-> Added(s.irr, e.clause), inactive |-> Reactivated(s.inactive, e.clause),
                tainted |-> s.tainted \cup Tainted(e.clause, witness), kept |-> s.kept]
  <2> DEFINE V1 == V \cup {e.clause}
  <2>1. /\ t.irr = Added(s.irr, e.clause) /\ t.kept = s.kept
        /\ t.tainted = s.tainted \cup Tainted(e.clause, witness)
    BY <1>6
  <2>2. \A sigma \in Total : sigma \in Models(V1) <=> sigma \in Models(V) /\ e.clause \cap sigma # {}
    BY DEF Models, Satisfies
  <2>3. ASSUME NEW sigma \in M[k] \cap Models(V1) PROVE sigma \in K[Len(t.kept)]
    <3>1. sigma \in Models(V) /\ e.clause \cap sigma # {}
      BY <1>5, <2>2
    <3>2. ExtendEntry(e, sigma) = sigma
      BY <3>1 DEF ExtendEntry
    <3>3. sigma \in M[k - 1] \cap Models(V)
      BY <1>5, <3>1, <3>2
    <3>4. QED
      BY <1>3, <2>1, <3>3 DEF Repairing
  <2>4. ASSUME NEW sigma \in Models(t.irr) PROVE sigma \in M[Len(extension)] \cap Models(V1)
    <3>1. sigma \in Total /\ Satisfies(sigma, Added(s.irr, e.clause))
      BY <2>1 DEF Models
    <3>2. sigma \in Models(s.irr) /\ e.clause \cap sigma # {}
      BY <1>1, <3>1, AddedModels DEF Models
    <3>3. sigma \in M[Len(extension)] \cap Models(V)
      BY <1>3, <3>2 DEF Repairing
    <3>4. QED
      BY <2>2, <3>1, <3>2, <3>3
  <2>5. \A C \in V1 : C \cap Neg(witness) \subseteq t.tainted
    BY <1>3, <2>1 DEF Repairing, Tainted
  <2>6. Repairing(t, k, M, K, V1)
    <3>1. Chain(t.kept, K) /\ K[0] = Models(original)
      BY <1>3, <2>1 DEF Repairing
    <3> HIDE DEF V1
    <3>2. QED
      BY <2>3, <2>4, <2>5, <3>1 DEF Repairing
  <2>7. QED
    BY <1>4, <2>1, <2>6 DEF RestoreRepairs, e, t
<1>7. CASE /\ t = [irr |-> s.irr, inactive |-> s.inactive, tainted |-> s.tainted, kept |-> Append(s.kept, e)]
           /\ Neg(e.witness) \cap s.tainted = {}
  <2> DEFINE S == M[k] \cap Models(V)
  <2>1. t.irr = s.irr /\ t.kept = Append(s.kept, e) /\ t.tainted = s.tainted
    BY <1>7
  <2>2. \A C \in V : C \cap Neg(e.witness) = {}
    BY <1>1, <1>3, <1>7 DEF Repairing
  <2>3. ASSUME NEW sigma \in S PROVE ExtendEntry(e, sigma) \in K[Len(s.kept)]
    <3>1. ExtendEntry(e, sigma) \in M[k - 1] /\ ExtendEntry(e, sigma) \in Total
      BY <1>5
    <3>2. ExtendEntry(e, sigma) \in Models(V)
      BY <2>2, <3>1, CleanModels
    <3>3. QED
      BY <1>3, <3>1, <3>2 DEF Repairing
  <2>4. Chain(s.kept, K) /\ S \in SUBSET Total
    BY <1>3, <1>5 DEF Repairing
  <2>5. PICK N : Chain(t.kept, N) /\ N[0] = K[0] /\ N[Len(t.kept)] = S
    <3> HIDE DEF S
    <3>1. /\ s.kept \in Seq(Entries) /\ e \in Entries /\ Chain(s.kept, K) /\ S \in SUBSET Total
          /\ \A sigma \in S : ExtendEntry(e, sigma) \in K[Len(s.kept)]
      BY <1>1, <1>2, <2>3, <2>4
    <3> DEFINE N == Longer(K, Len(s.kept), S)
    <3>2. Chain(Append(s.kept, e), N) /\ N[0] = K[0] /\ N[Len(Append(s.kept, e))] = S
      BY <3>1, ChainAppend
    <3>3. QED
      BY <2>1, <3>2
  <2>6. Repairing(t, k, M, N, V)
    BY <1>3, <2>1, <2>5 DEF Repairing
  <2>7. Untouched(t.kept, A)
    <3>1. /\ Len(t.kept) = Len(s.kept) + 1 /\ t.kept[Len(s.kept) + 1] = e
          /\ \A i \in 1 .. Len(s.kept) : t.kept[i] = s.kept[i]
      BY <1>1, <1>2, <2>1
    <3>2. Neg(e.witness) \cap A = {}
      BY <1>1, <1>4, <1>7
    <3>3. ASSUME NEW i \in 1 .. Len(t.kept) PROVE Neg(t.kept[i].witness) \cap A = {}
      <4>1. i \in 1 .. Len(s.kept) \/ i = Len(s.kept) + 1
        BY <1>2, <3>1
      <4>2. QED
        BY <1>4, <3>1, <3>2, <4>1 DEF Untouched
    <3>4. QED
      BY <3>3 DEF Untouched
  <2>8. QED
    BY <1>4, <2>1, <2>6, <2>7 DEF RestoreRepairs, e, t
<1>8. QED
  BY <1>6, <1>7, RestoreEntryCases DEF e, t

-----------------------------------------------------------------------------
(* Types, and answers that are not too strong, for all options.            *)

StackImplied == \A i \in 1 .. Len(extension) : Implied({extension[i].clause})

SoundInv ==
  /\ ExternalTypeOK /\ assumptions \subseteq Lits
  /\ Implied(irr) /\ Implied(red) /\ StackImplied
  /\ mode = "sat" => vals \in Models(Formula)
  /\ mode = "unsat" => Models(Formula \cup Units(assumptions)) = {}

\* The parts of the type invariant.
LEMMA TypeFacts ==
  ExternalTypeOK <=>
    /\ original \subseteq SUBSET Lits
    /\ irr \subseteq ProperClauses /\ red \subseteq ProperClauses
    /\ extension \in Seq(Entries) /\ Witnesses(extension) \subseteq witness /\ witness \subseteq Lits
    /\ tainted \subseteq Neg(witness) /\ inactive \subseteq Vars
    /\ Active(irr \cup Units(assumptions), inactive)
    /\ mode \in {"idle", "simplify", "sat", "unsat"} /\ vals \in Total \cup {{}}
    /\ solves \in 0 .. MaxSolves
BY DEF ExternalTypeOK, Formula, Entries, Active

LEMMA TypeFactsNext ==
  ExternalTypeOK' <=>
    /\ original' \subseteq SUBSET Lits
    /\ irr' \subseteq ProperClauses /\ red' \subseteq ProperClauses
    /\ extension' \in Seq(Entries) /\ Witnesses(extension') \subseteq witness' /\ witness' \subseteq Lits
    /\ tainted' \subseteq Neg(witness') /\ inactive' \subseteq Vars
    /\ Active(irr' \cup Units(assumptions'), inactive')
    /\ mode' \in {"idle", "simplify", "sat", "unsat"} /\ vals' \in Total \cup {{}}
    /\ solves' \in 0 .. MaxSolves
BY DEF ExternalTypeOK, Formula, Entries, Active

\* Fewer assumptions leave fewer clauses.
LEMMA ActiveFewer ==
  ASSUME NEW F, NEW G, G \subseteq F, NEW I, Active(F, I)
  PROVE  Active(G, I)
BY DEF Active

\* More clauses have fewer models.
LEMMA ModelsFewer ==
  ASSUME NEW F, NEW G, F \subseteq G
  PROVE  Models(G) \subseteq Models(F)
BY DEF Models, Satisfies

\* The witnesses of an entry have their bits.
LEMMA WitnessBits ==
  ASSUME NEW stack \in Seq(Entries), NEW i \in 1 .. Len(stack)
  PROVE  stack[i].witness \subseteq Witnesses(stack) /\ stack[i] \in Entries
BY DEF Witnesses

\* Initially nothing has been said.
LEMMA SoundInit ==
  ASSUME ExternalAssumption, ExternalInit
  PROVE  SoundInv
<1>1. /\ original = {} /\ irr = {} /\ red = {} /\ extension = <<>> /\ witness = {} /\ tainted = {}
      /\ inactive = {} /\ assumptions = {} /\ mode = "idle" /\ vals = {} /\ solves = 0
  BY DEF ExternalInit
<1>2. extension \in Seq(Entries) /\ Len(extension) = 0 /\ Witnesses(extension) = {}
  BY <1>1 DEF Witnesses
<1>3. Active(irr \cup Units(assumptions), inactive)
  BY <1>1 DEF Active
<1>4. solves \in 0 .. MaxSolves
  BY <1>1 DEF ExternalAssumption
<1>5. ExternalTypeOK
  BY <1>1, <1>2, <1>3, <1>4, TypeFacts
<1>6. Implied(irr) /\ Implied(red) /\ StackImplied
  BY <1>1, <1>2 DEF Implied, StackImplied, Satisfies
<1>7. QED
  BY <1>1, <1>5, <1>6 DEF SoundInv

\* An added clause: shortened or not, it says what the user says.
LEMMA SoundAdd ==
  ASSUME ExternalAssumption, SoundInv, NEW C \in Addable, Add(C)
  PROVE  SoundInv'
<1>1. C \in SUBSET Lits
  BY DEF ExternalAssumption
<1>2. ExternalTypeOK /\ Kept \subseteq assumptions /\ assumptions \subseteq Lits
  BY DEF SoundInv, Kept
<1>3. /\ original' = original \cup {C} /\ irr' = Added(irr, C) /\ red' = red /\ extension' = extension
      /\ witness' = witness /\ tainted' = tainted \cup Tainted(C, witness)
      /\ inactive' = Reactivated(inactive, C) /\ assumptions' = Kept
      /\ mode' = "idle" /\ vals' = {} /\ solves' = solves
  BY DEF Add, Leave
<1>4. Active(irr' \cup Units(assumptions'), inactive')
  <2>1. irr \cup Units(Kept) \subseteq irr \cup Units(assumptions)
    BY <1>2 DEF Units
  <2>2. Active(irr \cup Units(assumptions), inactive) /\ irr \in SUBSET ProperClauses
    BY <1>2, TypeFacts
  <2>3. Active(irr \cup Units(Kept), inactive)
    BY <2>1, <2>2, ActiveFewer
  <2>4. Active(Added(irr, C) \cup Units(Kept), Reactivated(inactive, C))
    BY <1>1, <2>2, <2>3, AddedActive
  <2>5. QED
    BY <1>3, <2>4
<1>5. ExternalTypeOK'
  <2>1. irr \in SUBSET ProperClauses
    BY <1>2, TypeFacts
  <2>2. irr' \subseteq ProperClauses
    BY <1>1, <1>3, <2>1, AddedFacts
  <2>3. tainted' \subseteq Neg(witness') /\ inactive' \subseteq Vars
    BY <1>2, <1>3, TypeFacts DEF Tainted, Reactivated
  <2>4. QED
    BY <1>1, <1>2, <1>3, <1>4, <2>2, <2>3, TypeFacts, TypeFactsNext
<1>6. ASSUME NEW sigma \in Models(original')
      PROVE  /\ Satisfies(sigma, irr') /\ Satisfies(sigma, red')
             /\ \A i \in 1 .. Len(extension') : Satisfies(sigma, {extension'[i].clause})
  <2>1. sigma \in Total /\ sigma \in Models(original) /\ C \cap sigma # {}
    BY <1>3 DEF Models, Satisfies
  <2>2. Satisfies(sigma, irr) /\ Satisfies(sigma, red)
        /\ \A i \in 1 .. Len(extension) : Satisfies(sigma, {extension[i].clause})
    BY <2>1 DEF SoundInv, Implied, StackImplied
  <2>3. QED
    BY <1>1, <1>3, <2>1, <2>2, AddedModels
<1>7. Implied(irr)' /\ Implied(red)' /\ StackImplied'
  BY <1>6 DEF Implied, StackImplied
<1>8. QED
  BY <1>2, <1>3, <1>5, <1>7 DEF SoundInv

\* What does not touch the clauses leaves them implied.
LEMMA SameImplied ==
  ASSUME SoundInv, UNCHANGED <<original, irr, red, extension>>
  PROVE  Implied(irr)' /\ Implied(red)' /\ StackImplied'
BY DEF SoundInv, Implied, StackImplied

LEMMA SoundAssume ==
  ASSUME ExternalAssumption, SoundInv, NEW lit \in Lits, assume(lit)
  PROVE  SoundInv'
<1>1. ExternalTypeOK
  BY DEF SoundInv
<1>2. /\ UNCHANGED <<original, irr, red, extension, witness, solves>>
      /\ tainted' = tainted \cup Tainted({lit}, witness)
      /\ inactive' = Reactivated(inactive, {lit}) /\ assumptions' = {lit}
      /\ mode' = "idle" /\ vals' = {}
  BY DEF assume, Leave
<1>3. ASSUME NEW C \in irr \cup Units({lit}), NEW k \in C PROVE Var(k) \notin Reactivated(inactive, {lit})
  BY <1>1, TypeFacts DEF Units, Active, Reactivated
<1>4. Active(irr' \cup Units(assumptions'), inactive')
  BY <1>2, <1>3 DEF Active
<1>5. tainted' \subseteq Neg(witness') /\ inactive' \subseteq Vars
  BY <1>1, <1>2, TypeFacts DEF Tainted, Reactivated
<1>6. ExternalTypeOK'
  BY <1>1, <1>2, <1>4, <1>5, TypeFacts, TypeFactsNext
<1>7. Implied(irr)' /\ Implied(red)' /\ StackImplied'
  BY <1>2, SameImplied
<1>8. QED
  BY <1>2, <1>6, <1>7 DEF SoundInv

\* restore_clauses brings back implied clauses over variables that it makes active.
LEMMA RestoredSound ==
  ASSUME ExternalAssumption, SoundInv
  PROVE  Restored \in RestoreStates /\ RestoreSound(Restored, Kept)
<1>1. ExternalTypeOK /\ Kept \subseteq assumptions
  BY DEF SoundInv, Kept
<1>2. extension \in Seq(Entries) /\ Len(extension) \in Nat /\ tainted \subseteq Lits
  <2>1. Neg(witness) \subseteq Lits
    BY <1>1, TypeFacts, LitFacts DEF Neg
  <2>2. QED
    BY <1>1, <2>1, TypeFacts
<1> DEFINE Good == [k \in 0 .. Len(extension) |-> {s \in RestoreStates : RestoreSound(s, Kept)}]
<1>3. Begin \in Good[0]
  <2>1. Begin \in RestoreStates /\ Begin.irr = irr /\ Begin.inactive = inactive /\ Len(Begin.kept) = 0
    BY <1>1, <1>2, TypeFacts DEF Begin, RestoreStates
  <2>2. irr \cup Units(Kept) \subseteq irr \cup Units(assumptions)
    BY <1>1 DEF Units
  <2>3. Active(irr \cup Units(assumptions), inactive)
    BY <1>1, TypeFacts
  <2>4. Active(irr \cup Units(Kept), inactive)
    BY <2>2, <2>3, ActiveFewer
  <2>5. RestoreSound(Begin, Kept)
    BY <2>1, <2>4 DEF RestoreSound, SoundInv
  <2>6. QED
    BY <1>2, <2>1, <2>5
<1>4. ASSUME NEW k \in 1 .. Len(extension), NEW s \in Good[k - 1]
      PROVE  RestoreEntry(s, extension[k]) \in Good[k]
  <2>1. k \in 0 .. Len(extension) /\ k - 1 \in 0 .. Len(extension)
    BY <1>2
  <2>2. s \in RestoreStates /\ RestoreSound(s, Kept)
    BY <2>1
  <2>3. extension[k] \in Entries /\ Implied({extension[k].clause})
    BY <1>2 DEF SoundInv, StackImplied
  <2>4. RestoreEntry(s, extension[k]) \in RestoreStates /\ RestoreSound(RestoreEntry(s, extension[k]), Kept)
    BY <2>2, <2>3, RestoreEntrySound
  <2>5. QED
    BY <2>1, <2>4
<1> HIDE DEF Good
<1>5. Restored \in Good[Len(extension)]
  BY <1>2, <1>3, <1>4, RestoreInduction
<1>6. QED
  BY <1>2, <1>5 DEF Good

LEMMA SoundStartSolve ==
  ASSUME ExternalAssumption, SoundInv, restore_clauses
  PROVE  SoundInv'
<1>1. ExternalTypeOK /\ Kept \subseteq assumptions /\ assumptions \subseteq Lits
  BY DEF SoundInv, Kept
<1>2. /\ solves < MaxSolves /\ solves' = solves + 1 /\ mode' = "simplify" /\ vals' = {}
      /\ assumptions' = Kept /\ UNCHANGED <<original, red>>
  BY DEF restore_clauses
<1>3. solves' \in 0 .. MaxSolves
  BY <1>1, <1>2, TypeFacts DEF ExternalAssumption
<1>4. irr \cup Units(Kept) \subseteq irr \cup Units(assumptions)
  BY <1>1 DEF Units
<1>5. CASE UNCHANGED <<irr, inactive, extension, witness, tainted>>
  <2>1. Active(irr' \cup Units(assumptions'), inactive')
    BY <1>1, <1>2, <1>4, <1>5, TypeFacts, ActiveFewer
  <2>2. ExternalTypeOK'
    BY <1>1, <1>2, <1>3, <1>5, <2>1, TypeFacts, TypeFactsNext
  <2>3. Implied(irr)' /\ Implied(red)' /\ StackImplied'
    BY <1>2, <1>5, SameImplied
  <2>4. QED
    BY <1>1, <1>2, <2>2, <2>3 DEF SoundInv
<1>6. CASE /\ irr' = Restored.irr /\ inactive' = Restored.inactive /\ extension' = Restored.kept
           /\ tainted' = {} /\ witness' = Witnesses(Restored.kept)
  <2> DEFINE s == Restored
  <2>1. s \in RestoreStates /\ RestoreSound(s, Kept)
    BY RestoredSound
  <2> HIDE DEF s
  <2>2. /\ irr' = s.irr /\ inactive' = s.inactive /\ extension' = s.kept
        /\ tainted' = {} /\ witness' = Witnesses(s.kept)
    BY <1>6 DEF s
  <2>3. /\ s.irr \subseteq ProperClauses /\ s.inactive \subseteq Vars /\ s.kept \in Seq(Entries)
        /\ Len(s.kept) \in Nat
    BY <2>1 DEF RestoreStates
  <2>4. Witnesses(s.kept) \subseteq Lits
    <3>1. \A i \in DOMAIN s.kept : s.kept[i].witness \subseteq Lits
      <4>1. \A i \in DOMAIN s.kept : s.kept[i] \in Entries
        BY <2>3
      <4>2. QED
        BY <4>1 DEF Entries
    <3>2. QED
      BY <3>1 DEF Witnesses
  <2>5. Active(irr' \cup Units(assumptions'), inactive')
    BY <1>2, <2>1, <2>2 DEF RestoreSound
  <2>6. ExternalTypeOK'
    BY <1>1, <1>2, <1>3, <2>2, <2>3, <2>4, <2>5, TypeFacts, TypeFactsNext
  <2>7. Implied(irr)' /\ Implied(red)'
    BY <1>2, <2>1, <2>2 DEF SoundInv, RestoreSound, Implied
  <2>8. ASSUME NEW i \in 1 .. Len(extension'), NEW sigma \in Models(original')
        PROVE  Satisfies(sigma, {extension'[i].clause})
    <3>1. PICK j \in 1 .. Len(extension) : s.kept[i] = extension[j]
      BY <2>1, <2>2 DEF RestoreSound
    <3>2. Satisfies(sigma, {extension[j].clause})
      BY <1>2 DEF SoundInv, StackImplied, Implied
    <3>3. QED
      BY <2>2, <3>1, <3>2
  <2>9. StackImplied'
    BY <2>8 DEF StackImplied, Implied
  <2>10. QED
    BY <1>1, <1>2, <2>6, <2>7, <2>9 DEF SoundInv
<1>7. QED
  BY <1>5, <1>6 DEF restore_clauses

\* What pushed entries add to the stack.
LEMMA PushFacts ==
  ASSUME NEW stack \in Seq(Entries), NEW chain \in Seq(Entries)
  PROVE  /\ stack \o chain \in Seq(Entries) /\ Len(stack \o chain) = Len(stack) + Len(chain)
         /\ Len(stack) \in Nat /\ Len(chain) \in Nat
         /\ \A i \in 1 .. Len(stack) : (stack \o chain)[i] = stack[i]
         /\ \A i \in 1 .. Len(stack \o chain) :
              \/ i \in 1 .. Len(stack) /\ (stack \o chain)[i] = stack[i]
              \/ \E j \in 1 .. Len(chain) : i = Len(stack) + j /\ (stack \o chain)[i] = chain[j]
         /\ Witnesses(stack \o chain) \subseteq Witnesses(stack) \cup Witnesses(chain)
<1>1. /\ stack \o chain \in Seq(Entries) /\ Len(stack \o chain) = Len(stack) + Len(chain)
      /\ Len(stack) \in Nat /\ Len(chain) \in Nat
      /\ \A i \in 1 .. Len(stack) : (stack \o chain)[i] = stack[i]
      /\ \A i \in 1 .. Len(stack) + Len(chain) :
           i > Len(stack) => (stack \o chain)[i] = chain[i - Len(stack)]
  OBVIOUS
<1>2. ASSUME NEW i \in 1 .. Len(stack \o chain)
      PROVE  \/ i \in 1 .. Len(stack) /\ (stack \o chain)[i] = stack[i]
             \/ \E j \in 1 .. Len(chain) : i = Len(stack) + j /\ (stack \o chain)[i] = chain[j]
  <2>1. CASE i \in 1 .. Len(stack)
    BY <1>1, <2>1
  <2>2. CASE i \notin 1 .. Len(stack)
    <3>1. i - Len(stack) \in 1 .. Len(chain) /\ i = Len(stack) + (i - Len(stack)) /\ i > Len(stack)
      BY <1>1, <2>2
    <3>2. (stack \o chain)[i] = chain[i - Len(stack)]
      BY <1>1, <3>1
    <3>3. QED
      BY <3>1, <3>2
  <2>3. QED
    BY <2>1, <2>2
<1>3. Witnesses(stack \o chain) \subseteq Witnesses(stack) \cup Witnesses(chain)
  <2>1. /\ DOMAIN (stack \o chain) = 1 .. Len(stack \o chain) /\ DOMAIN stack = 1 .. Len(stack)
        /\ DOMAIN chain = 1 .. Len(chain)
    BY <1>1
  <2>2. QED
    BY <1>2, <2>1 DEF Witnesses
<1>4. QED
  BY <1>1, <1>2, <1>3

\* What a simplifier may push: entries for clauses, each with a witness.
LEMMA ChainFacts ==
  ASSUME NEW C, NEW chain \in Seq(Entries), Weaken(C, chain)
  PROVE  /\ mode = "simplify" /\ irr' = irr \ {C} /\ extension' = extension \o chain
         /\ witness' = witness \cup Witnesses(chain)
         /\ UNCHANGED <<original, red, tainted, inactive, assumptions, mode, vals, opts, solves>>
         /\ Weakens(irr, extension, irr', extension', {Var(lit) : lit \in assumptions})
         /\ \A j \in 1 .. Len(chain) :
              /\ Implies(Formula, chain[j].clause) /\ chain[j].clause \in ProperClauses
              /\ chain[j].witness \subseteq chain[j].clause
<1>1. DOMAIN chain = 1 .. Len(chain)
  OBVIOUS
<1>2. QED
  BY <1>1 DEF Weaken

\* The chains of the model are sequences of entries.
LEMMA ChainTypes ==
  ASSUME ExternalAssumption, irr \subseteq ProperClauses, red \subseteq ProperClauses
  PROVE  /\ \A C \in irr : Weakened(C) \cup Extended(C) \subseteq Seq(Entries)
         /\ Substituted \subseteq Seq(Entries)
<1>1. \A D \in ProperClauses : D \subseteq Lits
  BY DEF ProperClauses
<1>2. \A D \in ProperClauses : \A W \in SUBSET D : StackEntry(W, D) \in Entries
  BY <1>1 DEF StackEntry, Entries
<1>3. \A e \in Entries : <<e>> \in Seq(Entries)
  OBVIOUS
<1>4. ASSUME NEW C \in irr PROVE Weakened(C) \subseteq Seq(Entries)
  BY <1>2, <1>3 DEF Weakened
<1>5. ASSUME NEW C \in irr PROVE Extended(C) \subseteq Seq(Entries)
  <2> DEFINE extensions == {C} \cup {D \in Derivable : C \subseteq D}
             entries == UNION {{StackEntry({lit}, D) : lit \in D} : D \in extensions}
  <2>1. extensions \subseteq ProperClauses
    BY DEF ExternalAssumption
  <2>2. \A n \in 2 .. MaxChain : n \in Nat
    BY DEF ExternalAssumption
  <2>3. Extended(C) = UNION {[1 .. n -> entries] : n \in 2 .. MaxChain}
    BY DEF Extended
  <2> HIDE DEF extensions
  <2>4. ASSUME NEW e \in entries PROVE e \in Entries
    <3>1. PICK D \in extensions : e \in {StackEntry({lit}, D) : lit \in D}
      OBVIOUS
    <3>2. PICK lit \in D : e = StackEntry({lit}, D)
      BY <3>1
    <3>3. {lit} \in SUBSET D /\ D \in ProperClauses
      BY <2>1, <3>2
    <3>4. QED
      BY <1>2, <3>2, <3>3
  <2> HIDE DEF entries
  <2>5. ASSUME NEW n \in 2 .. MaxChain, NEW chain \in [1 .. n -> entries] PROVE chain \in Seq(Entries)
    <3>1. chain \in [1 .. n -> Entries] /\ n \in Nat
      BY <2>2, <2>4
    <3>2. QED
      BY <3>1, SeqDef
  <2>6. ASSUME NEW chain \in Extended(C) PROVE chain \in Seq(Entries)
    <3>1. PICK n \in 2 .. MaxChain : chain \in [1 .. n -> entries]
      BY <2>3, <2>6, Zenon
    <3>2. QED
      BY <2>5, <3>1
  <2>7. QED
    BY <2>6
<1>6. Substituted \subseteq Seq(Entries)
  <2>1. Formula \cup Derivable \subseteq ProperClauses
    BY DEF ExternalAssumption, Formula
  <2>2. ASSUME NEW D \in Formula \cup Derivable, NEW lit \in D PROVE <<StackEntry({lit}, D)>> \in Seq(Entries)
    BY <1>2, <1>3, <2>1
  <2> DEFINE binary == {D \in Formula \cup Derivable : Cardinality(D) = 2}
  <2>3. Substituted = UNION {{<<StackEntry({lit}, D)>> : lit \in D} : D \in binary}
    BY DEF Substituted
  <2>4. ASSUME NEW chain \in Substituted PROVE chain \in Seq(Entries)
    <3>1. PICK D \in binary : chain \in {<<StackEntry({lit}, D)>> : lit \in D}
      BY <2>3, Zenon
    <3>2. PICK lit \in D : chain = <<StackEntry({lit}, D)>>
      BY <3>1
    <3>3. QED
      BY <2>2, <3>2
  <2>5. QED
    BY <2>4
<1>7. QED
  BY <1>4, <1>5, <1>6

LEMMA SoundWeaken ==
  ASSUME ExternalAssumption, SoundInv, NEW C, NEW chain \in Seq(Entries), Weaken(C, chain)
  PROVE  SoundInv'
<1>1. ExternalTypeOK
  BY DEF SoundInv
<1>2. /\ irr' = irr \ {C} /\ extension' = extension \o chain /\ witness' = witness \cup Witnesses(chain)
      /\ UNCHANGED <<original, red, tainted, inactive, assumptions, mode, vals, solves>> /\ mode = "simplify"
      /\ \A j \in 1 .. Len(chain) : Implies(Formula, chain[j].clause)
  BY ChainFacts
<1>3. extension \in Seq(Entries)
  BY <1>1, TypeFacts
<1>4. Witnesses(chain) \subseteq Lits
  <2>1. \A j \in DOMAIN chain : chain[j] \in Entries
    OBVIOUS
  <2>2. QED
    BY <2>1 DEF Witnesses, Entries
<1>5. ExternalTypeOK'
  <2>1. extension' \in Seq(Entries) /\ Witnesses(extension') \subseteq witness'
    BY <1>1, <1>2, <1>3, PushFacts, TypeFacts
  <2>2. tainted' \subseteq Neg(witness')
    BY <1>1, <1>2, TypeFacts DEF Neg
  <2>3. Active(irr' \cup Units(assumptions'), inactive')
    BY <1>1, <1>2, TypeFacts DEF Active
  <2>4. QED
    BY <1>1, <1>2, <1>4, <2>1, <2>2, <2>3, TypeFacts, TypeFactsNext
<1>6. Implied(irr)' /\ Implied(red)'
  BY <1>2 DEF SoundInv, Implied, Satisfies
<1>7. ASSUME NEW sigma \in Models(original), NEW j \in 1 .. Len(chain)
      PROVE  Satisfies(sigma, {chain[j].clause})
  <2>1. sigma \in Models(Formula)
    BY DEF SoundInv, Implied, Models, Formula, Satisfies
  <2>2. QED
    BY <1>2, <2>1 DEF Implies, Satisfies
<1>8. ASSUME NEW i \in 1 .. Len(extension'), NEW sigma \in Models(original')
      PROVE  Satisfies(sigma, {extension'[i].clause})
  <2>1. \/ i \in 1 .. Len(extension) /\ extension'[i] = extension[i]
        \/ \E j \in 1 .. Len(chain) : extension'[i] = chain[j]
    BY <1>2, <1>3, PushFacts
  <2>2. CASE \E j \in 1 .. Len(chain) : extension'[i] = chain[j]
    BY <1>2, <1>7, <2>2
  <2>3. CASE i \in 1 .. Len(extension) /\ extension'[i] = extension[i]
    BY <1>2, <2>3 DEF SoundInv, StackImplied, Implied
  <2>4. QED
    BY <2>1, <2>2, <2>3
<1>9. StackImplied'
  BY <1>8 DEF StackImplied, Implied
<1>10. QED
  BY <1>2, <1>5, <1>6, <1>9 DEF SoundInv

LEMMA SoundLearn ==
  ASSUME ExternalAssumption, SoundInv, NEW C \in Derivable, Learn(C)
  PROVE  SoundInv'
<1>1. ExternalTypeOK /\ C \in ProperClauses
  BY DEF SoundInv, ExternalAssumption
<1>2. /\ UNCHANGED <<original, extension, witness, tainted, inactive, assumptions, mode, vals, solves>>
      /\ mode = "simplify" /\ Implies(Formula, C) /\ \A lit \in C : Var(lit) \notin inactive
      /\ irr' \subseteq irr \cup {C} /\ red' \subseteq red \cup {C}
  BY DEF Learn
<1>3. ASSUME NEW D \in irr' \cup Units(assumptions'), NEW lit \in D PROVE Var(lit) \notin inactive'
  <2>1. D \in irr \cup Units(assumptions) \/ D = C
    BY <1>2
  <2>2. QED
    BY <1>1, <1>2, <2>1, TypeFacts DEF Active
<1>4. ExternalTypeOK'
  <2>1. Active(irr' \cup Units(assumptions'), inactive')
    BY <1>3 DEF Active
  <2>2. QED
    BY <1>1, <1>2, <2>1, TypeFacts, TypeFactsNext
<1>5. ASSUME NEW sigma \in Models(original') PROVE Satisfies(sigma, irr') /\ Satisfies(sigma, red')
  <2>1. sigma \in Total /\ Satisfies(sigma, irr) /\ Satisfies(sigma, red)
    BY <1>2 DEF SoundInv, Implied, Models
  <2>2. sigma \in Models(Formula)
    BY <2>1 DEF Models, Formula, Satisfies
  <2>3. C \cap sigma # {}
    BY <1>2, <2>2 DEF Implies
  <2>4. QED
    BY <1>2, <2>1, <2>3 DEF Satisfies
<1>6. Implied(irr)' /\ Implied(red)' /\ StackImplied'
  BY <1>2, <1>5 DEF SoundInv, Implied, StackImplied
<1>7. QED
  BY <1>2, <1>4, <1>6 DEF SoundInv

\* Drop and Deactivate only take clauses away.
LEMMA SoundFewer ==
  ASSUME SoundInv, mode = "simplify", irr' \subseteq irr, red' \subseteq red, inactive' \subseteq Vars,
         Active(irr' \cup Units(assumptions'), inactive'),
         UNCHANGED <<original, extension, witness, tainted, assumptions, mode, vals, solves>>
  PROVE  SoundInv'
<1>1. ExternalTypeOK /\ assumptions' \subseteq Lits
  BY DEF SoundInv
<1>2. ExternalTypeOK'
  BY <1>1, TypeFacts, TypeFactsNext
<1>3. Implied(irr)' /\ Implied(red)' /\ StackImplied'
  BY DEF SoundInv, Implied, StackImplied, Satisfies
<1>4. QED
  BY <1>1, <1>2, <1>3 DEF SoundInv

LEMMA SoundDrop ==
  ASSUME ExternalAssumption, SoundInv, NEW C \in Formula, Drop(C)
  PROVE  SoundInv'
<1>1. /\ UNCHANGED <<original, extension, witness, tainted, inactive, assumptions, mode, vals, solves>>
      /\ mode = "simplify" /\ irr' \subseteq irr /\ red' \subseteq red
  BY DEF Drop
<1>2. Active(irr \cup Units(assumptions), inactive) /\ inactive \subseteq Vars
  BY TypeFacts DEF SoundInv
<1>3. Active(irr' \cup Units(assumptions'), inactive')
  BY <1>1, <1>2 DEF Active
<1>4. QED
  BY <1>1, <1>2, <1>3, SoundFewer

LEMMA SoundDeactivate ==
  ASSUME ExternalAssumption, SoundInv, NEW v \in Vars, Deactivate(v)
  PROVE  SoundInv'
<1>1. /\ UNCHANGED <<original, irr, extension, witness, tainted, assumptions, mode, vals, solves>>
      /\ mode = "simplify" /\ inactive' = inactive \cup {v} /\ red' \subseteq red
      /\ \A C \in irr \cup Units(assumptions) : {v, -v} \cap C = {}
  BY DEF Deactivate
<1>2. /\ Active(irr \cup Units(assumptions), inactive) /\ inactive \subseteq Vars
      /\ irr \subseteq ProperClauses /\ assumptions \subseteq Lits
  BY TypeFacts DEF SoundInv
<1>3. ASSUME NEW C \in irr \cup Units(assumptions), NEW lit \in C PROVE Var(lit) \notin inactive \cup {v}
  <2>1. lit \in Lits
    BY <1>2 DEF ProperClauses, Units
  <2>2. Var(lit) = lit \/ Var(lit) = -lit
    BY DEF Var
  <2>3. -(-lit) = lit
    BY <2>1, LitFacts
  <2>4. Var(lit) # v
    BY <1>1, <2>2, <2>3
  <2>5. QED
    BY <1>2, <2>4 DEF Active
<1>4. Active(irr' \cup Units(assumptions'), inactive')
  BY <1>1, <1>3 DEF Active
<1>5. QED
  BY <1>1, <1>2, <1>4, SoundFewer

LEMMA SoundAnswer ==
  ASSUME ExternalAssumption, SoundInv,
         Satisfied \/ Unsatisfied \/ \E lit \in Lits : flip(lit)
  PROVE  SoundInv'
<1>1. /\ UNCHANGED <<original, irr, red, extension, witness, tainted, inactive, assumptions, solves>>
      /\ Formula' = Formula
  BY DEF Satisfied, Unsatisfied, flip, Formula
<1>2. ExternalTypeOK /\ assumptions' \subseteq Lits
  BY <1>1 DEF SoundInv
<1>3. mode' = "sat" => vals' \in Models(Formula)
  <2>1. CASE Satisfied
    <3>1. PICK sigma \in Models(Formula \cup Units(assumptions)) : vals' = sigma
      BY <2>1 DEF Satisfied
    <3>2. QED
      BY <3>1, ModelsFewer
  <2>2. CASE Unsatisfied
    BY <2>2 DEF Unsatisfied
  <2>3. ASSUME NEW lit \in Lits, flip(lit) PROVE vals' \in Models(Formula)
    <3>1. /\ mode = "sat" /\ vals' = (vals \ {lit, -lit}) \cup ({lit, -lit} \ vals)
          /\ Satisfies(vals', Formula)
      BY <2>3 DEF flip
    <3>2. vals \in Total
      BY <3>1 DEF SoundInv, Models
    <3>3. vals' \in Total
      BY <3>1, <3>2, ExternalFlipTotal
    <3>4. QED
      BY <3>1, <3>3 DEF Models
  <2>4. QED
    BY <2>1, <2>2, <2>3
<1>4. mode' = "unsat" => Models(Formula \cup Units(assumptions)) = {}
  BY DEF Satisfied, Unsatisfied, flip
<1>5. mode' \in {"sat", "unsat"} /\ vals' \in Total \cup {{}}
  <2>1. mode' \in {"sat", "unsat"} /\ (mode' = "unsat" => vals' = vals)
    BY DEF Satisfied, Unsatisfied, flip
  <2>2. QED
    BY <1>2, <1>3, <2>1, TypeFacts DEF Models
<1>6. ExternalTypeOK'
  BY <1>1, <1>2, <1>5, TypeFacts, TypeFactsNext
<1>7. Implied(irr)' /\ Implied(red)' /\ StackImplied'
  BY <1>1, SameImplied
<1>8. Formula' \cup Units(assumptions)' = Formula \cup Units(assumptions)
  BY <1>1
<1>9. QED
  BY <1>1, <1>2, <1>3, <1>4, <1>6, <1>7, <1>8 DEF SoundInv

\* Every step.
LEMMA SoundNext ==
  ASSUME ExternalAssumption, SoundInv, [ExternalNext]_external_vars
  PROVE  SoundInv'
<1>1. CASE UNCHANGED external_vars
  <2>1. UNCHANGED <<original, irr, red, extension, witness, tainted, inactive, assumptions, mode, vals,
                    solves>>
    BY <1>1 DEF external_vars
  <2>2. ExternalTypeOK /\ ExternalTypeOK'
    BY <2>1, TypeFacts, TypeFactsNext DEF SoundInv
  <2>3. Implied(irr)' /\ Implied(red)' /\ StackImplied'
    BY <2>1, SameImplied
  <2>4. QED
    BY <2>1, <2>2, <2>3 DEF SoundInv, Formula
<1>2. ASSUME NEW C, NEW chain \in Seq(Entries), Weaken(C, chain) PROVE SoundInv'
  BY <1>2, SoundWeaken
<1>3. CASE \/ \E C \in irr : \E chain \in Weakened(C) \cup Extended(C) : Weaken(C, chain)
           \/ \E chain \in Substituted : Weaken({}, chain)
  <2>1. irr \subseteq ProperClauses /\ red \subseteq ProperClauses
    BY TypeFacts DEF SoundInv
  <2>2. QED
    BY <1>2, <1>3, <2>1, ChainTypes
<1>4. CASE \E lit \in Assumable : assume(lit)
  BY <1>4, SoundAssume DEF ExternalAssumption
<1>5. CASE ExternalNext
  BY <1>3, <1>4, <1>5, SoundAdd, SoundStartSolve, SoundLearn, SoundDrop, SoundDeactivate,
     SoundAnswer DEF ExternalNext, Simplify
<1>6. QED
  BY <1>1, <1>5

-----------------------------------------------------------------------------
(* The stack repairs, if entries are restored or kept but not flushed.     *)

\* M is a chain for the stack and U are clauses added since: each has its literals that a
\* witness would flip tainted, so that the entries for it are restored before the search.
Repairs(M, U) ==
  /\ Chain(extension, M)
  /\ Models(irr) \subseteq M[Len(extension)] \cap Models(U)
  /\ M[0] \cap Models(U) \subseteq Models(original)
  /\ \A C \in U : C \cap Neg(witness) \subseteq tainted
  /\ mode # "idle" => U = {}

RepairInv ==
  /\ ~opts.restoreflush
  /\ \E M, U : Repairs(M, U)
  /\ mode = "idle" => assumptions \cap Neg(witness) \subseteq tainted
  /\ mode # "idle" => Untouched(extension, assumptions)

\* All assignments satisfy no clauses.
LEMMA NoClauses == Models({}) = Total
BY DEF Models, Satisfies

LEMMA RepairInit ==
  ASSUME ExternalAssumption, ExternalInit, ~opts.restoreflush
  PROVE  RepairInv
<1> DEFINE M == [i \in 0 .. 0 |-> Total]
<1>1. /\ original = {} /\ irr = {} /\ extension = <<>> /\ assumptions = {} /\ mode = "idle"
      /\ Len(extension) = 0
  BY DEF ExternalInit
<1>2. M[0] = Total /\ M \in [0 .. 0 -> SUBSET Total]
  OBVIOUS
<1> HIDE DEF M
<1>3. Chain(extension, M)
  BY <1>1, <1>2 DEF Chain
<1>4. Repairs(M, {})
  BY <1>1, <1>2, <1>3, NoClauses DEF Repairs
<1>5. QED
  BY <1>1, <1>4 DEF RepairInv

LEMMA RepairAdd ==
  ASSUME ExternalAssumption, SoundInv, RepairInv, NEW C \in Addable, Add(C)
  PROVE  RepairInv'
<1>1. C \in SUBSET Lits
  BY DEF ExternalAssumption
<1>2. /\ original' = original \cup {C} /\ irr' = Added(irr, C)
      /\ UNCHANGED <<extension, witness, opts>> /\ tainted' = tainted \cup Tainted(C, witness)
      /\ assumptions' = Kept /\ mode' = "idle"
  BY DEF Add, Leave
<1>3. PICK M, U : Repairs(M, U)
  BY DEF RepairInv
<1> DEFINE U1 == U \cup {C}
<1>4. \A sigma \in Total : sigma \in Models(U1) <=> sigma \in Models(U) /\ C \cap sigma # {}
  BY DEF Models, Satisfies
<1>5. ASSUME NEW sigma \in Models(irr') PROVE sigma \in M[Len(extension)] \cap Models(U1)
  <2>1. sigma \in Total /\ Satisfies(sigma, irr) /\ C \cap sigma # {}
    BY <1>1, <1>2, AddedModels DEF Models
  <2>2. sigma \in M[Len(extension)] \cap Models(U)
    BY <1>3, <2>1 DEF Repairs, Models
  <2>3. QED
    BY <1>4, <2>1, <2>2
<1>6. ASSUME NEW sigma \in M[0] \cap Models(U1) PROVE sigma \in Models(original')
  <2>1. sigma \in Total /\ sigma \in Models(U) /\ C \cap sigma # {}
    BY <1>4 DEF Models
  <2>2. sigma \in Models(original)
    BY <1>3, <2>1 DEF Repairs
  <2>3. QED
    BY <1>2, <2>1, <2>2 DEF Models, Satisfies
<1>7. \A D \in U1 : D \cap Neg(witness) \subseteq tainted'
  BY <1>2, <1>3 DEF Repairs, Tainted
<1> HIDE DEF U1
<1>8. Repairs(M, U1)'
  <2>1. Chain(extension', M)
    BY <1>2, <1>3 DEF Repairs
  <2>2. QED
    BY <1>2, <1>5, <1>6, <1>7, <2>1 DEF Repairs
<1>9. \E N, V : Repairs(N, V)'
  BY <1>8
<1>10. assumptions' \cap Neg(witness') \subseteq tainted'
  BY <1>2 DEF RepairInv, Kept
<1>11. QED
  BY <1>2, <1>9, <1>10 DEF RepairInv

LEMMA RepairAssume ==
  ASSUME ExternalAssumption, SoundInv, RepairInv, NEW lit \in Lits, assume(lit)
  PROVE  RepairInv'
<1>1. /\ UNCHANGED <<original, irr, extension, witness, opts>>
      /\ tainted' = tainted \cup Tainted({lit}, witness)
      /\ assumptions' = {lit} /\ mode' = "idle"
  BY DEF assume, Leave
<1>2. PICK M, U : Repairs(M, U)
  BY DEF RepairInv
<1>3. Repairs(M, U)'
  BY <1>1, <1>2 DEF Repairs
<1>4. \E N, V : Repairs(N, V)'
  BY <1>3
<1>5. assumptions' \cap Neg(witness') \subseteq tainted'
  BY <1>1 DEF Tainted
<1>6. QED
  BY <1>1, <1>4, <1>5 DEF RepairInv

\* The whole of restore_clauses.
LEMMA RestoredRepairs ==
  ASSUME ExternalAssumption, SoundInv, ~opts.restoreflush, NEW M, NEW U, Repairs(M, U),
         Kept \cap Neg(witness) \subseteq tainted
  PROVE  Restored \in RestoreStates /\ RestoreRepairs(Restored, Len(extension), M, Kept)
<1>1. /\ extension \in Seq(Entries) /\ Len(extension) \in Nat /\ tainted \subseteq Lits
      /\ Witnesses(extension) \subseteq witness /\ ExternalTypeOK
  <2>1. ExternalTypeOK /\ Neg(witness) \subseteq Lits
    BY TypeFacts, LitFacts DEF Neg, SoundInv
  <2>2. QED
    BY <2>1, TypeFacts
<1> DEFINE Good == [k \in 0 .. Len(extension) |-> {s \in RestoreStates : RestoreRepairs(s, k, M, Kept)}]
<1>2. Begin \in Good[0]
  <2>1. /\ Begin \in RestoreStates /\ Begin.irr = irr /\ Begin.tainted = tainted
        /\ Begin.kept = <<>> /\ Len(Begin.kept) = 0
    BY <1>1, TypeFacts DEF Begin, RestoreStates
  <2> DEFINE K == [i \in 0 .. 0 |-> Models(original)]
  <2>2. K[0] = Models(original) /\ K \in [0 .. 0 -> SUBSET Total]
    BY DEF Models
  <2> HIDE DEF K
  <2>3. Chain(Begin.kept, K)
    BY <2>1, <2>2 DEF Chain
  <2>4. Repairing(Begin, 0, M, K, U)
    BY <2>1, <2>2, <2>3 DEF Repairs, Repairing
  <2>5. \E L, V : Repairing(Begin, 0, M, L, V)
    BY <2>4
  <2>6. RestoreRepairs(Begin, 0, M, Kept)
    BY <2>1, <2>5 DEF RestoreRepairs, Untouched
  <2>7. QED
    BY <1>1, <2>1, <2>6
<1>3. ASSUME NEW k \in 1 .. Len(extension), NEW s \in Good[k - 1]
      PROVE  RestoreEntry(s, extension[k]) \in Good[k]
  <2>1. k \in 0 .. Len(extension) /\ k - 1 \in 0 .. Len(extension)
    BY <1>1
  <2>2. s \in RestoreStates /\ RestoreRepairs(s, k - 1, M, Kept)
    BY <2>1
  <2>3. extension[k] \in Entries /\ extension[k].witness \subseteq witness
    BY <1>1, WitnessBits
  <2>4. Chain(extension, M)
    BY DEF Repairs
  <2>5. RestoreRepairs(RestoreEntry(s, extension[k]), k, M, Kept)
    BY <1>1, <2>2, <2>3, <2>4, RestoreEntryRepairs
  <2>6. RestoreEntry(s, extension[k]) \in RestoreStates
    BY <2>2, <2>3, RestoreEntryType
  <2>7. QED
    BY <2>1, <2>5, <2>6
<1> HIDE DEF Good
<1>4. Restored \in Good[Len(extension)]
  BY <1>1, <1>2, <1>3, RestoreInduction
<1>5. QED
  BY <1>1, <1>4 DEF Good

LEMMA RepairStartSolve ==
  ASSUME ExternalAssumption, SoundInv, RepairInv, restore_clauses
  PROVE  RepairInv'
<1>1. /\ mode' = "simplify" /\ assumptions' = Kept /\ UNCHANGED <<original, opts>>
      /\ \/ tainted = {} /\ UNCHANGED <<irr, inactive, extension, witness, tainted>>
         \/ /\ irr' = Restored.irr /\ inactive' = Restored.inactive /\ extension' = Restored.kept
            /\ tainted' = {} /\ witness' = Witnesses(Restored.kept)
  BY DEF restore_clauses
<1>2. PICK M, U : Repairs(M, U)
  BY DEF RepairInv
<1>3. ~opts.restoreflush /\ Kept \cap Neg(witness) \subseteq tainted
  BY DEF RepairInv, Kept
<1>4. extension \in Seq(Entries) /\ Len(extension) \in Nat /\ Witnesses(extension) \subseteq witness
  BY TypeFacts DEF SoundInv
<1>5. CASE tainted = {} /\ UNCHANGED <<irr, inactive, extension, witness, tainted>>
  <2>1. ASSUME NEW i \in 1 .. Len(extension) PROVE Neg(extension[i].witness) \subseteq Neg(witness)
    BY <1>4, WitnessBits DEF Neg
  <2>2. \A i \in 1 .. Len(extension) : \A C \in U : C \cap Neg(extension[i].witness) = {}
    BY <1>2, <1>5, <2>1 DEF Repairs
  <2> DEFINE N == [i \in 0 .. Len(extension) |-> M[i] \cap Models(U)]
  <2>3. Chain(extension, N)
    BY <1>2, <1>4, <2>2, ChainCut DEF Repairs
  <2>4. N[0] = M[0] \cap Models(U) /\ N[Len(extension)] = M[Len(extension)] \cap Models(U)
    BY <1>4
  <2> HIDE DEF N
  <2>5. Models(irr) \subseteq N[Len(extension)] \cap Models({}) /\ N[0] \subseteq Models(original)
    BY <1>2, <2>4, NoClauses DEF Repairs, Models
  <2>6. PICK L : L = N
    OBVIOUS
  <2>7. \E K, V : Repairs(K, V)'
    <3>1. Repairs(L, {})'
      BY <1>1, <1>5, <2>3, <2>5, <2>6 DEF Repairs
    <3>2. QED
      BY <3>1
  <2>8. Untouched(extension', assumptions')
    BY <1>1, <1>3, <1>5, <2>1 DEF Untouched
  <2>9. QED
    BY <1>1, <1>3, <2>7, <2>8 DEF RepairInv
<1>6. CASE /\ irr' = Restored.irr /\ inactive' = Restored.inactive /\ extension' = Restored.kept
           /\ tainted' = {} /\ witness' = Witnesses(Restored.kept)
  <2> DEFINE s == Restored
  <2>1. s \in RestoreStates /\ RestoreRepairs(s, Len(extension), M, Kept)
    BY <1>2, <1>3, RestoredRepairs
  <2>2. irr' = s.irr /\ extension' = s.kept /\ tainted' = {}
    BY <1>6
  <2> HIDE DEF s
  <2>3. PICK K, V : Repairing(s, Len(extension), M, K, V)
    BY <2>1 DEF RestoreRepairs
  <2>4. Models(irr') \subseteq K[Len(extension')] \cap Models({})
    BY <2>2, <2>3, NoClauses DEF Repairing, Models
  <2>5. Chain(extension', K) /\ K[0] \cap Models({}) \subseteq Models(original')
    BY <1>1, <2>2, <2>3 DEF Repairing
  <2>6. Repairs(K, {})'
    BY <1>1, <2>2, <2>4, <2>5 DEF Repairs
  <2>7. \E N, W : Repairs(N, W)'
    BY <2>6
  <2>8. Untouched(extension', assumptions')
    BY <1>1, <2>1, <2>2 DEF RestoreRepairs
  <2>9. QED
    BY <1>1, <1>3, <2>7, <2>8 DEF RepairInv
<1>7. QED
  BY <1>1, <1>5, <1>6

\* Clauses that are pushed are repaired by their entries, which flip no assumption: between
\* two entries of the chain are the models of the formula and of the clauses pushed later.
LEMMA RepairWeaken ==
  ASSUME ExternalAssumption, SoundInv, RepairInv, NEW C, NEW chain \in Seq(Entries), Weaken(C, chain)
  PROVE  RepairInv'
<1> DEFINE n == Len(extension)
           stack == extension \o chain
           new == {i \in DOMAIN stack : i > n}
           Later(i) == irr' \cup {stack[j].clause : j \in {k \in new : k >= i}}
<1>1. /\ mode = "simplify" /\ irr' = irr \ {C} /\ extension' = stack
      /\ UNCHANGED <<original, tainted, assumptions, mode, opts>>
      /\ Weakens(irr, extension, irr', stack, {Var(lit) : lit \in assumptions})
      /\ \A j \in 1 .. Len(chain) : chain[j].clause \in ProperClauses /\ chain[j].witness \subseteq chain[j].clause
  BY ChainFacts
<1>2. extension \in Seq(Entries)
  BY TypeFacts DEF SoundInv
<1>3. /\ stack \in Seq(Entries) /\ Len(stack) = n + Len(chain) /\ n \in Nat /\ Len(chain) \in Nat
      /\ DOMAIN stack = 1 .. Len(stack) /\ \A i \in 1 .. n : stack[i] = extension[i]
      /\ \A i \in n + 1 .. Len(stack) : \E j \in 1 .. Len(chain) : stack[i] = chain[j]
  <2>1. /\ stack \in Seq(Entries) /\ Len(stack) = n + Len(chain) /\ n \in Nat /\ Len(chain) \in Nat
        /\ \A i \in 1 .. n : stack[i] = extension[i]
        /\ \A i \in 1 .. Len(stack) : i \in 1 .. n \/ \E j \in 1 .. Len(chain) : stack[i] = chain[j]
    BY <1>2, PushFacts
  <2>2. QED
    BY <2>1
<1>4. /\ \A i \in new : RedundantWith(stack[i].clause, stack[i].witness, Later(i))
      /\ \A i \in new : \A lit \in stack[i].witness : Var(lit) \notin {Var(k) : k \in assumptions}
      /\ \A D \in irr \ irr' : Implies(Later(n + 1), D)
  BY <1>1 DEF Weakens
<1> HIDE DEF stack
<1>5. \A i \in n + 1 .. Len(stack) :
        /\ i \in new /\ stack[i].witness \in SUBSET Lits /\ Consistent(stack[i].witness)
        /\ StackEntry(stack[i].witness, stack[i].clause).clause = stack[i].clause
        /\ StackEntry(stack[i].witness, stack[i].clause).witness = stack[i].witness
  <2>1. TAKE i \in n + 1 .. Len(stack)
  <2>2. PICK j \in 1 .. Len(chain) : stack[i] = chain[j]
    BY <1>3
  <2>3. stack[i].clause \in ProperClauses /\ stack[i].witness \subseteq stack[i].clause
    BY <1>1, <2>2
  <2>4. QED
    BY <1>3, <2>3 DEF ProperClauses, Consistent, Tautological, StackEntry
<1>6. PICK M, U : Repairs(M, U)
  BY DEF RepairInv
<1>7. U = {} /\ Chain(extension, M) /\ Models(irr) \subseteq M[n] /\ M[0] \subseteq Models(original)
  <2>1. Chain(extension, M) /\ U = {}
    BY <1>1, <1>6 DEF Repairs
  <2>2. M[0] \subseteq Total
    BY <1>3, <2>1 DEF Chain
  <2>3. QED
    BY <1>6, <2>1, <2>2, NoClauses DEF Repairs
<1> HIDE DEF new, Later
<1>8. Models(Later(n + 1)) \subseteq M[n]
  <2>1. ASSUME NEW sigma \in Models(Later(n + 1)) PROVE Satisfies(sigma, irr)
    <3>1. irr' \subseteq Later(n + 1)
      BY DEF Later
    <3>2. \A D \in irr' : D \cap sigma # {}
      BY <3>1 DEF Models, Satisfies
    <3>3. \A D \in irr \ irr' : D \cap sigma # {}
      BY <1>4, <2>1 DEF Implies
    <3>4. QED
      BY <3>2, <3>3 DEF Satisfies
  <2>2. QED
    BY <1>7, <2>1 DEF Models
<1> DEFINE N == [i \in 0 .. Len(stack) |-> IF i <= n THEN M[i] ELSE Models(Later(i + 1))]
<1>9. N \in [0 .. Len(stack) -> SUBSET Total]
  <2>1. ASSUME NEW i \in 0 .. Len(stack) PROVE N[i] \in SUBSET Total
    <3>1. CASE i <= n
      <4>1. i \in 0 .. n /\ N[i] = M[i]
        BY <1>3, <3>1
      <4>2. QED
        BY <1>7, <4>1 DEF Chain
    <3>2. CASE ~(i <= n)
      <4>1. N[i] = Models(Later(i + 1))
        BY <3>2
      <4>2. QED
        BY <4>1 DEF Models
    <3>3. QED
      BY <3>1, <3>2
  <2> HIDE DEF N
  <2>2. N = [i \in 0 .. Len(stack) |-> N[i]]
    BY DEF N
  <2>3. QED
    BY <2>1, <2>2
<1>10. \A i \in n + 1 .. Len(stack) : N[i] = Models(Later(i + 1)) /\ Models(Later(i)) \subseteq N[i - 1]
  <2>1. TAKE i \in n + 1 .. Len(stack)
  <2>2. N[i] = Models(Later(i + 1))
    BY <1>3
  <2>3. CASE i = n + 1
    <3>1. N[i - 1] = M[n]
      BY <1>3, <2>3
    <3>2. QED
      BY <1>8, <2>2, <2>3, <3>1
  <2>4. CASE i # n + 1
    <3>1. i - 1 \in 0 .. Len(stack) /\ ~(i - 1 <= n) /\ (i - 1) + 1 = i
      BY <1>3, <2>4
    <3>2. N[i - 1] = Models(Later(i))
      BY <3>1
    <3>3. QED
      BY <2>2, <3>2
  <2>5. QED
    BY <2>3, <2>4
<1>11. ASSUME NEW i \in 1 .. n, NEW sigma \in N[i] PROVE ExtendEntry(stack[i], sigma) \in N[i - 1]
  <2>1. N[i] = M[i] /\ N[i - 1] = M[i - 1]
    BY <1>3
  <2>2. stack[i] = extension[i]
    BY <1>3
  <2>3. QED
    BY <1>7, <1>11, <2>1, <2>2 DEF Chain
<1> HIDE DEF N
<1>12. ASSUME NEW i \in n + 1 .. Len(stack), NEW sigma \in N[i]
       PROVE  ExtendEntry(stack[i], sigma) \in N[i - 1]
  <2> DEFINE e == stack[i]
  <2>1. sigma \in Models(Later(i + 1)) /\ sigma \in Total
    BY <1>10, <1>12 DEF Models
  <2>2. Later(i) \ {e.clause} \subseteq Later(i + 1)
    <3>1. ASSUME NEW D \in Later(i), D # e.clause PROVE D \in Later(i + 1)
      <4>1. CASE D \in irr'
        BY <4>1 DEF Later
      <4>2. CASE D \notin irr'
        <5>1. PICK j \in new : j >= i /\ D = stack[j].clause
          BY <3>1, <4>2 DEF Later
        <5>2. j # i /\ j \in Int /\ i \in Int
          BY <1>3, <3>1, <5>1 DEF new
        <5>3. j >= i + 1
          BY <5>1, <5>2
        <5>4. QED
          BY <5>1, <5>3 DEF Later
      <4>3. QED
        BY <4>1, <4>2
    <3>2. QED
      BY <3>1
  <2>3. sigma \in Models(Later(i) \ {e.clause})
    BY <2>1, <2>2, ModelsFewer
  <2>4. Satisfies(ExtendEntry(StackEntry(e.witness, e.clause), sigma), Later(i))
    BY <1>4, <1>5, <2>3 DEF RedundantWith
  <2>5. ExtendEntry(StackEntry(e.witness, e.clause), sigma) = ExtendEntry(e, sigma)
    BY <1>5 DEF ExtendEntry
  <2>6. ExtendEntry(e, sigma) \in Total
    BY <1>5, <2>1, MadeTrueTotal DEF ExtendEntry
  <2>7. ExtendEntry(e, sigma) \in Models(Later(i))
    BY <2>4, <2>5, <2>6 DEF Models
  <2>8. QED
    BY <1>10, <2>7
<1>13. Chain(stack, N)
  <2>1. ASSUME NEW i \in 1 .. Len(stack) PROVE i \in 1 .. n \/ i \in n + 1 .. Len(stack)
    BY <1>3
  <2>2. QED
    BY <1>9, <1>11, <1>12, <2>1 DEF Chain
<1>14. Models(irr') \subseteq N[Len(stack)]
  <2>1. CASE Len(stack) = n
    <3>1. new = {}
      BY <1>3, <2>1 DEF new
    <3>2. Later(n + 1) = irr'
      BY <3>1 DEF Later
    <3>3. N[Len(stack)] = M[n]
      BY <1>3, <2>1 DEF N
    <3>4. QED
      BY <1>8, <3>2, <3>3
  <2>2. CASE Len(stack) # n
    <3>1. Len(stack) \in n + 1 .. Len(stack)
      BY <1>3, <2>2
    <3>2. {k \in new : k >= Len(stack) + 1} = {}
      BY <1>3 DEF new
    <3>3. Later(Len(stack) + 1) = irr'
      BY <3>2 DEF Later
    <3>4. QED
      BY <1>10, <3>1, <3>3
  <2>3. QED
    BY <2>1, <2>2
<1>15. N[0] = M[0]
  BY <1>3 DEF N
<1>16. \E K, V : Repairs(K, V)'
  <2>1. Models(irr') \subseteq N[Len(extension')] \cap Models({}) /\ N[0] \cap Models({}) \subseteq Models(original')
    BY <1>1, <1>7, <1>14, <1>15, NoClauses DEF Models
  <2>2. PICK L : L = N
    OBVIOUS
  <2>3. Repairs(L, {})'
    BY <1>1, <1>13, <2>1, <2>2 DEF Repairs
  <2>4. QED
    BY <2>3
<1>17. ASSUME NEW i \in 1 .. Len(extension') PROVE Neg(extension'[i].witness) \cap assumptions' = {}
  <2>1. CASE i \in 1 .. n
    <3>1. extension'[i] = extension[i]
      BY <1>1, <1>3, <2>1
    <3>2. QED
      BY <1>1, <2>1, <3>1 DEF RepairInv, Untouched
  <2>2. CASE i \notin 1 .. n
    <3>1. i \in n + 1 .. Len(stack) /\ extension'[i] = stack[i]
      BY <1>1, <1>3, <2>2
    <3>2. ASSUME NEW lit \in stack[i].witness, -lit \in assumptions PROVE FALSE
      <4>1. Var(-lit) = Var(lit)
        BY <1>5, <3>1, LitFacts
      <4>2. QED
        BY <1>4, <1>5, <3>1, <3>2, <4>1
    <3>3. QED
      BY <1>1, <3>1, <3>2 DEF Neg
  <2>3. QED
    BY <2>1, <2>2
<1>18. Untouched(extension', assumptions')
  BY <1>17 DEF Untouched
<1>19. QED
  BY <1>1, <1>16, <1>18 DEF RepairInv

\* Everything else within solve leaves the stack alone and adds no model.
LEMMA RepairSame ==
  ASSUME RepairInv, Models(irr') \subseteq Models(irr), mode # "idle", mode' # "idle",
         UNCHANGED <<original, extension, witness, tainted, assumptions, opts>>
  PROVE  RepairInv'
<1>1. PICK M, U : Repairs(M, U)
  BY DEF RepairInv
<1>2. Repairs(M, U)'
  BY <1>1 DEF Repairs
<1>3. \E N, V : Repairs(N, V)'
  BY <1>2
<1>4. QED
  BY <1>3 DEF RepairInv, Untouched

LEMMA RepairNext ==
  ASSUME ExternalAssumption, SoundInv, RepairInv, [ExternalNext]_external_vars
  PROVE  RepairInv'
<1>1. CASE UNCHANGED external_vars
  <2>1. UNCHANGED <<original, irr, extension, witness, tainted, assumptions, mode, opts>>
    BY <1>1 DEF external_vars
  <2>2. PICK M, U : Repairs(M, U)
    BY DEF RepairInv
  <2>3. Repairs(M, U)'
    BY <2>1, <2>2 DEF Repairs
  <2>4. \E N, V : Repairs(N, V)'
    BY <2>3
  <2>5. QED
    BY <2>1, <2>4 DEF RepairInv, Untouched
<1>2. ASSUME NEW C \in Derivable, Learn(C) PROVE RepairInv'
  <2>1. /\ mode = "simplify" /\ irr \subseteq irr'
        /\ UNCHANGED <<original, extension, witness, tainted, assumptions, mode, opts>>
    BY <1>2 DEF Learn
  <2>2. QED
    BY <2>1, ModelsFewer, RepairSame
<1>3. ASSUME NEW C \in Formula, Drop(C) PROVE RepairInv'
  <2>1. /\ mode = "simplify" /\ UNCHANGED <<original, extension, witness, tainted, assumptions, mode, opts>>
        /\ irr' = irr \/ (irr' = irr \ {C} /\ Implies(irr \ {C}, C))
    BY <1>3 DEF Drop
  <2>2. Models(irr') \subseteq Models(irr)
    BY <2>1 DEF Implies, Models, Satisfies
  <2>3. QED
    BY <2>1, <2>2, RepairSame
<1>4. ASSUME NEW v \in Vars, Deactivate(v) PROVE RepairInv'
  <2>1. mode = "simplify" /\ UNCHANGED <<original, irr, extension, witness, tainted, assumptions, mode, opts>>
    BY <1>4 DEF Deactivate
  <2>2. QED
    BY <2>1, RepairSame
<1>5. CASE Satisfied \/ Unsatisfied \/ \E lit \in Lits : flip(lit)
  <2>1. /\ mode # "idle" /\ mode' # "idle"
        /\ UNCHANGED <<original, irr, extension, witness, tainted, assumptions, opts>>
    BY <1>5 DEF Satisfied, Unsatisfied, flip
  <2>2. QED
    BY <2>1, RepairSame
<1>6. ASSUME NEW C, NEW chain \in Seq(Entries), Weaken(C, chain) PROVE RepairInv'
  BY <1>6, RepairWeaken
<1>7. CASE \/ \E C \in irr : \E chain \in Weakened(C) \cup Extended(C) : Weaken(C, chain)
           \/ \E chain \in Substituted : Weaken({}, chain)
  <2>1. irr \subseteq ProperClauses /\ red \subseteq ProperClauses
    BY TypeFacts DEF SoundInv
  <2>2. QED
    BY <1>6, <1>7, <2>1, ChainTypes
<1>8. CASE \E lit \in Assumable : assume(lit)
  BY <1>8, RepairAssume DEF ExternalAssumption
<1>9. CASE ExternalNext
  BY <1>2, <1>3, <1>4, <1>5, <1>7, <1>8, <1>9, RepairAdd, RepairStartSolve
     DEF ExternalNext, Simplify
<1>10. QED
  BY <1>1, <1>9

-----------------------------------------------------------------------------
(* What the user reads.                                                    *)

\* A model of the formula and of the assumptions extends to one of the original clauses and
\* of the assumptions.
LEMMA ExtendRight ==
  ASSUME ExternalAssumption, SoundInv, RepairInv, mode # "idle", NEW A, A = {} \/ A = assumptions,
         NEW sigma \in Models(irr \cup Units(A))
  PROVE  Satisfies(Extend(extension, sigma), original \cup Units(A))
<1>1. PICK M, U : Repairs(M, U)
  BY DEF RepairInv
<1>2. Len(extension) \in Nat /\ U = {} /\ Chain(extension, M)
  BY <1>1, TypeFacts DEF SoundInv, Repairs
<1>3. ASSUME NEW i \in 1 .. Len(extension), NEW C \in Units(A) PROVE C \cap Neg(extension[i].witness) = {}
  BY DEF Units, RepairInv, Untouched
<1> DEFINE N == [i \in 0 .. Len(extension) |-> M[i] \cap Models(Units(A))]
<1>4. Chain(extension, N)
  BY <1>2, <1>3, ChainCut
<1>5. sigma \in Models(irr) /\ sigma \in Models(Units(A))
  BY ModelsFewer
<1>6. sigma \in N[Len(extension)]
  BY <1>1, <1>2, <1>5 DEF Repairs
<1>7. N[0] = M[0] \cap Models(Units(A))
  BY <1>2
<1> HIDE DEF N
<1>8. Extend(extension, sigma) \in N[0]
  BY <1>2, <1>4, <1>6, ExtendInChain
<1>9. Extend(extension, sigma) \in Models(original) /\ Extend(extension, sigma) \in Models(Units(A))
  BY <1>1, <1>2, <1>7, <1>8, NoClauses DEF Repairs, Models
<1>10. QED
  BY <1>9 DEF Models, Satisfies

\* Clauses are over active variables, the witness bits cover the stack and literals are only
\* tainted against a witness, over any number of calls.
THEOREM ExternalTypeCorrect ==
  ASSUME ExternalAssumption
  PROVE  ExternalSpec => []ExternalTypeOK
<1>1. ExternalInit => SoundInv
  BY SoundInit
<1>2. SoundInv /\ [ExternalNext]_external_vars => SoundInv'
  BY SoundNext
<1>3. SoundInv => ExternalTypeOK
  BY DEF SoundInv
<1>4. QED
  BY <1>1, <1>2, <1>3, PTL DEF ExternalSpec

\* UNSATISFIABLE is only answered if the user's clauses and assumptions are unsatisfiable: what
\* is learned, restored or flushed never says more than the user did.
THEOREM UnsatRight ==
  ASSUME ExternalAssumption
  PROVE  ExternalSpec => []UnsatOfOriginal
<1>1. ExternalInit => SoundInv
  BY SoundInit
<1>2. SoundInv /\ [ExternalNext]_external_vars => SoundInv'
  BY SoundNext
<1>3. ASSUME SoundInv PROVE UnsatOfOriginal
  <2>1. SUFFICES ASSUME mode = "unsat", NEW sigma \in Models(original \cup Units(assumptions)) PROVE FALSE
    BY DEF UnsatOfOriginal
  <2>2. sigma \in Total /\ Satisfies(sigma, original) /\ Satisfies(sigma, Units(assumptions))
    BY DEF Models, Satisfies
  <2>3. Satisfies(sigma, irr) /\ Satisfies(sigma, red)
    BY <1>3, <2>2 DEF SoundInv, Implied, Models
  <2>4. sigma \in Models(Formula \cup Units(assumptions))
    BY <2>2, <2>3 DEF Models, Satisfies, Formula
  <2>5. QED
    BY <1>3, <2>1, <2>4 DEF SoundInv
<1>4. QED
  BY <1>1, <1>2, <1>3, PTL DEF ExternalSpec

\* restore_clauses: while solve simplifies and searches, every model of the formula and of the
\* assumptions is extended to one of all clauses the user has added and of the assumptions.
\* restoreflush is off, as it is by default.
THEOREM RestoreRight ==
  ASSUME ExternalAssumption
  PROVE  ExternalSpec /\ ~opts.restoreflush => []RestoreComplete
<1>1. ExternalInit /\ ~opts.restoreflush => SoundInv /\ RepairInv
  BY SoundInit, RepairInit
<1>2. SoundInv /\ RepairInv /\ [ExternalNext]_external_vars => (SoundInv /\ RepairInv)'
  BY SoundNext, RepairNext
<1>3. SoundInv /\ RepairInv => RestoreComplete
  BY ExtendRight DEF RestoreComplete
<1>4. QED
  BY <1>1, <1>2, <1>3, PTL DEF ExternalSpec

\* val: the assignment the user reads in SATISFIED satisfies every clause ever added, through
\* any number of solves, restores, eliminations and flips.
THEOREM ModelRight ==
  ASSUME ExternalAssumption
  PROVE  ExternalSpec /\ ~opts.restoreflush => []ModelOfOriginal
<1>1. ExternalInit /\ ~opts.restoreflush => SoundInv /\ RepairInv
  BY SoundInit, RepairInit
<1>2. SoundInv /\ RepairInv /\ [ExternalNext]_external_vars => (SoundInv /\ RepairInv)'
  BY SoundNext, RepairNext
<1>3. ASSUME SoundInv, RepairInv PROVE ModelOfOriginal
  <2>1. SUFFICES ASSUME mode = "sat" PROVE Satisfies(Extend(extension, vals), original)
    BY DEF ModelOfOriginal
  <2>2. vals \in Models(irr)
    <3>1. vals \in Models(Formula) /\ irr \subseteq Formula
      BY <1>3, <2>1 DEF SoundInv, Formula
    <3>2. QED
      BY <3>1, ModelsFewer
  <2>3. irr \cup Units({}) = irr
    BY DEF Units
  <2>4. Satisfies(Extend(extension, vals), original \cup Units({}))
    BY <1>3, <2>1, <2>2, <2>3, ExtendRight
  <2>5. QED
    BY <2>4 DEF Satisfies
<1>4. QED
  BY <1>1, <1>2, <1>3, PTL DEF ExternalSpec

\* Both answers, for the default restoreflush: UnsatRight does not need it.
THEOREM AnswerRight ==
  ASSUME ExternalAssumption
  PROVE  ExternalSpec /\ ~opts.restoreflush => []AnswerOfOriginal
<1>1. ModelOfOriginal /\ UnsatOfOriginal => AnswerOfOriginal
  BY DEF AnswerOfOriginal
<1>2. QED
  BY <1>1, ModelRight, UnsatRight, PTL
=============================================================================
