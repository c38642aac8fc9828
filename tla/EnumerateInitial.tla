-------------------------- MODULE EnumerateInitial --------------------------
(***************************************************************************)
(* Algorithms::enumerate_initial (src/EE-IT.cpp): one call, from entry to  *)
(* return.  An outer loop asks the SAT solver for any model of the         *)
(* encoding, an inner loop shrinks it: each model is blocked with all its  *)
(* supersets, and the arguments outside it are excluded by assumptions     *)
(* that must hold for the next solve only.                                 *)
(***************************************************************************)
EXTENDS Argumentation

(***************************************************************************)
(* The solver object: src/CadicalSatSolver.cpp on top of the API states of *)
(* CaDiCaL (lib/cadical-1.9.5/src/solver.cpp).  It is a record, its        *)
(* methods are functions of records.  The search inside CaDiCaL is any     *)
(* choice among the satisfying assignments.                                *)
(*                                                                         *)
(* An assignment is the set of its true variables.  The states ADDING and  *)
(* SOLVING only exist inside one method of the wrapper.                    *)
(***************************************************************************)
APIStates == {"CONFIGURING", "STEADY", "SATISFIED", "UNSATISFIED"}

Solver == [state       : APIStates,
           clauses     : SUBSET SUBSET Int,
           assumptions : SUBSET Int,
           model       : SUBSET Arg]     \* the members of vector<bool> model

NewSolver ==
  [state |-> "CONFIGURING", clauses |-> {}, assumptions |-> {}, model |-> {}]

\* Leaving SATISFIED or UNSATISFIED drops the assumptions of the last call.
transition_to_steady_state(s) ==
  [s EXCEPT !.state = "STEADY",
            !.assumptions = IF s.state \in {"SATISFIED", "UNSATISFIED"}
                            THEN {} ELSE @]

add_clauses(s, C) ==
  [transition_to_steady_state(s) EXCEPT !.clauses = @ \cup C]

\* Mutant: the literals are passed on, the clause is lost.
add_clause_lost(s, clause) == transition_to_steady_state(s)

add_clause(s, clause) == add_clauses(s, {clause})

\* One call of assume for every literal of L.
assume(s, L) ==
  IF L = {} THEN s
  ELSE [transition_to_steady_state(s) EXCEPT !.assumptions = @ \cup L]

Holds(sigma, lit) == IF lit > 0 THEN lit \in sigma ELSE -lit \notin sigma

Satisfies(sigma, C) == \A clause \in C : \E lit \in clause : Holds(sigma, lit)

\* The assignments the next call of solve may return; none means UNSAT.
Solutions(s) ==
  LET t == transition_to_steady_state(s)
  IN  {sigma \in SUBSET (1 .. 2 * args) :
         /\ \A lit \in t.assumptions : Holds(sigma, lit)
         /\ Satisfies(sigma, t.clauses)}

\* solve() returned SAT_V: the wrapper copies the first args variables.
solved_sat(s, sigma) ==
  [transition_to_steady_state(s) EXCEPT
     !.state = "SATISFIED",
     !.model = {a \in Arg : a + 1 \in sigma}]

\* Mutant: an unsatisfiable call clears the wrapper's model.
solved_unsat_clears_model(s) ==
  [transition_to_steady_state(s) EXCEPT !.state = "UNSATISFIED", !.model = {}]

\* solve() returned UNSAT_V: the wrapper's model keeps its old value.
solved_unsat(s) ==
  [transition_to_steady_state(s) EXCEPT !.state = "UNSATISFIED"]

-----------------------------------------------------------------------------
CONSTANTS
  Calls,       \* the calls to consider: records [af, active_arguments]
  CanGiveUp    \* may solve() return neither SAT nor UNSAT?

ASSUME CallsAssumption ==
  /\ \A c \in Calls :
       /\ c.af \in Framework
       /\ c.active_arguments \in IterableBitSet
       /\ c.active_arguments.array \subseteq c.active_arguments.bitset
  /\ CanGiveUp \in BOOLEAN

VARIABLES
  af,                \* the attack relation; fixed
  active_arguments,  \* the parameter; fixed
  solver,
  found_extension,
  result,            \* the sets found, in the order of push_back
  pc

vars == <<af, active_arguments, solver, found_extension, result, pc>>

PC == {"call", "solve", "minimize", "done", "exit"}

TypeOK ==
  /\ af \in Framework
  /\ active_arguments \in IterableBitSet
  /\ solver \in Solver
  /\ found_extension \in BOOLEAN
  /\ result \in Seq(SUBSET Arg)
  /\ pc \in PC

Init ==
  /\ \E c \in Calls : /\ af = c.af
                      /\ active_arguments = c.active_arguments
  /\ solver = NewSolver
  /\ found_extension = FALSE
  /\ result = <<>>
  /\ pc = "call"

CallEmpty ==          \* no active argument: return {} at once
  /\ pc = "call"
  /\ active_arguments.array = {}
  /\ pc' = "done"
  /\ UNCHANGED <<af, active_arguments, solver, found_extension, result>>

CallEncode ==         \* create the solver and its clauses
  /\ pc = "call"
  /\ active_arguments.array # {}
  /\ solver' = add_clauses(NewSolver, admissible_nonempty(af, active_arguments))
  /\ pc' = "solve"
  /\ UNCHANGED <<af, active_arguments, found_extension, result>>

SolveSat ==           \* a model; the inner loop goes on to shrink it
  /\ pc = "solve"
  /\ \E sigma \in Solutions(solver) : solver' = solved_sat(solver, sigma)
  /\ found_extension' = TRUE
  /\ pc' = "minimize"
  /\ UNCHANGED <<af, active_arguments, result>>

\* The active arguments accepted in the wrapper's model.
accepted(s) == active_arguments.array \cap s.model

minimization_clause == {-accepted_var(a) : a \in accepted(solver)}

\* Mutant: the arguments outside the model are not excluded.
not_accepted_dropped == {}

not_accepted ==
  {-accepted_var(a) : a \in active_arguments.array \ accepted(solver)}

Minimize ==           \* assume what is outside the model, block the model
  /\ pc = "minimize"
  /\ solver' = add_clause(assume(solver, not_accepted), minimization_clause)
  /\ pc' = "solve"
  /\ UNCHANGED <<af, active_arguments, found_extension, result>>

SolveUnsatFound ==    \* the last model was minimal: keep it, start over
  /\ pc = "solve"
  /\ Solutions(solver) = {}
  /\ found_extension
  /\ solver' = solved_unsat(solver)
  /\ result' = Append(result, accepted(solver'))
  /\ found_extension' = FALSE
  /\ UNCHANGED <<af, active_arguments, pc>>

SolveUnsatEmpty ==    \* no model without assumptions: return result
  /\ pc = "solve"
  /\ Solutions(solver) = {}
  /\ ~found_extension
  /\ solver' = solved_unsat(solver)
  /\ pc' = "done"
  /\ UNCHANGED <<af, active_arguments, found_extension, result>>

SolveUnknown ==       \* "Problem": the wrapper ends the process
  /\ pc = "solve"
  /\ CanGiveUp
  /\ pc' = "exit"
  /\ UNCHANGED <<af, active_arguments, solver, found_extension, result>>

Next ==
  \/ CallEmpty
  \/ CallEncode
  \/ SolveSat
  \/ Minimize
  \/ SolveUnsatFound
  \/ SolveUnsatEmpty
  \/ SolveUnknown

\* The function has returned, or the process has ended.
Returned == pc \in {"done", "exit"} /\ UNCHANGED vars

Spec == Init /\ [][Next \/ Returned]_vars

\* One thread runs the loop and CaDiCaL's solve always comes back.
FairSpec == Spec /\ WF_vars(Next)

-----------------------------------------------------------------------------
Found == {result[i] : i \in 1 .. Len(result)}

(***************************************************************************)
(* The clauses say what the comment over them says, phantoms aside: the    *)
(* sets of active arguments accepted by some model are exactly those that  *)
(* EncodedAdmissible describes (src/Encodings.cpp).                        *)
(***************************************************************************)
EncodingExact ==
  pc = "solve" /\ result = <<>> /\ ~found_extension =>
    {{a \in active_arguments.array : a + 1 \in sigma} : sigma \in Solutions(solver)}
      = {S \in SUBSET Arg : EncodedAdmissible(af, active_arguments, S)}

(***************************************************************************)
(* "Enumerates initial sets" (src/EE-IT.cpp:5), for every order in which   *)
(* the SAT solver may produce its models: on return the result holds every *)
(* initial set of the active sub-framework and each of them once, provided *)
(* array and bitset describe the same set.                                 *)
(***************************************************************************)
InitialSetsExact ==
  pc = "done" /\ Phantoms(active_arguments) = {} =>
    /\ Found = InitialSets(af, active_arguments.array)
    /\ \A i, j \in 1 .. Len(result) : result[i] = result[j] => i = j

(***************************************************************************)
(* The assumptions of the inner loop never restrict the outer loop's solve *)
(* (src/EE-IT.cpp:30, "temporary assumptions"): a solve that starts a new  *)
(* round has a solution exactly when an initial set is still missing.      *)
(***************************************************************************)
OuterSolveUnrestricted ==
  pc = "solve" /\ ~found_extension =>
    (Solutions(solver) = {} <=> EncodedInitialSets(af, active_arguments) = Found)

(***************************************************************************)
(* Blocking a model with all its supersets loses nothing: an initial set   *)
(* that has not been delivered, and is not the one being shrunk to, is     *)
(* still a model of the accumulated clauses (src/EE-IT.cpp:29-41).         *)
(***************************************************************************)
NothingLost ==
  pc \in {"solve", "minimize"} =>
    \A S \in EncodedInitialSets(af, active_arguments) \ Found :
      \/ found_extension /\ S = accepted(solver)
      \/ \E sigma \in SUBSET (1 .. 2 * args) :
           /\ Satisfies(sigma, solver.clauses)
           /\ S = {a \in active_arguments.array : a + 1 \in sigma}

Enum == INSTANCE Enumeration WITH
  target    <- EncodedInitialSets(af, active_arguments),
  delivered <- Found,
  complete  <- pc = "done"

(***************************************************************************)
(* The call implements the abstract enumeration of the sets that           *)
(* EncodedInitialSets describes, whatever active_arguments is.             *)
(***************************************************************************)
ImplementsEnumeration == Enum!Spec

(***************************************************************************)
(* The two nested while (true) loops end (src/EE-IT.cpp:23-25).            *)
(***************************************************************************)
Terminates == <>(pc \in {"done", "exit"})
=============================================================================
