---------------------------- MODULE MCInterface ----------------------------
(***************************************************************************)
(* What a user of CaDiCaL relies on: the states of the API (SolverAPI) and *)
(* the formula over several calls of solve with inprocessing               *)
(* (Incremental). Both keep their own state; the initial state chooses     *)
(* the one that moves.                                                     *)
(***************************************************************************)
EXTENDS SolverAPI, Incremental

VARIABLE part                  \* the part of the interface

\* Clauses the user adds between calls: binary clauses, of which two have a binary resolvent,
\* and a unit.
UserClauses == {{1, 2}, {-1, 3}, {-1}}

\* What the solver derives: a binary resolvent, the clause that covering extends, units.
DerivedClauses == {{2, 3}, {1, 2, 3}, {2}}

UserAssumptions == {-2, -3}

\* Restoring what is tainted, without and with flushing, and restoring everything always.
RestoreOptions ==
  {[restoreall |-> 0, restoreflush |-> FALSE], [restoreall |-> 0, restoreflush |-> TRUE],
   [restoreall |-> 2, restoreflush |-> FALSE]}

ASSUME ConstantsAssumption == BoundsAssumption /\ ExternalAssumption

MCvars == <<part, vars, external_vars>>

MCInit ==
  /\ part \in {"api", "incremental"} /\ Init /\ ExternalInit
  /\ part = "api" => opts = [restoreall |-> 0, restoreflush |-> FALSE]

APIStep == part = "api" /\ Next /\ UNCHANGED <<part, external_vars>>
IncrementalStep == part = "incremental" /\ ExternalNext /\ UNCHANGED <<part, vars>>

MCNext == APIStep \/ IncrementalStep

MCSpec == MCInit /\ [][MCNext]_MCvars
=============================================================================
