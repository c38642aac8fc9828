------------------------------- MODULE Chains -------------------------------
(***************************************************************************)
(* The LRAT checker under a solver that may be wrong: derived clauses come *)
(* with any chain of ids, clauses are deleted, weakened and restored under *)
(* any id with any literals. A failed check stops the program.             *)
(***************************************************************************)
EXTENDS LratChecker

CONSTANTS
  Pool,                    \* literal vectors of original clauses
  Derivable,               \* literal vectors of the other calls
  MaxId, MaxChain          \* bounds

ChainsAssumption ==
  /\ {MaxId, MaxChain} \subseteq Nat
  /\ IsFiniteSet(Vars) /\ Vars \subseteq Nat \ {0} /\ Pool \cup Derivable \subseteq Seq(Lits)

VARIABLES checker, clause_id, original    \* original: ghost

vars == <<checker, clause_id, original>>

Init == checker = CheckerConstructed /\ clause_id = 0 /\ original = {}

Running == checker.fatal = "no"

AddOriginal(lits) ==
  /\ Running /\ clause_id < MaxId
  /\ checker' = CheckerAddOriginal(checker, clause_id + 1, lits, FALSE)
  /\ clause_id' = clause_id + 1 /\ original' = original \cup {Range(lits)}

AddDerived(lits, chain) ==
  /\ Running /\ clause_id < MaxId /\ checker.num_clauses > 0
  /\ checker' = CheckerAddDerived(checker, clause_id + 1, lits, chain)
  /\ clause_id' = clause_id + 1 /\ UNCHANGED original

Delete(id, lits) ==
  /\ Running /\ checker.size_clauses > 0
  /\ checker' = CheckerDelete(checker, id, lits)
  /\ UNCHANGED <<clause_id, original>>

Weaken(id, lits) ==
  /\ Running /\ checker.size_clauses > 0
  /\ checker' = CheckerWeaken(checker, id, lits)
  /\ UNCHANGED <<clause_id, original>>

\* The solver restores what it has deleted.
Restore(id, lits) ==
  /\ Running /\ id \notin DOMAIN checker.clauses
  /\ checker' = CheckerAddOriginal(checker, id, lits, TRUE)
  /\ UNCHANGED <<clause_id, original>>

Next ==
  \/ \E lits \in Pool : AddOriginal(lits)
  \/ \E lits \in Derivable : \E chain \in BoundedSeq(1..MaxId, MaxChain) : AddDerived(lits, chain)
  \/ \E id \in 1..clause_id, lits \in Pool \cup Derivable : Delete(id, lits) \/ Weaken(id, lits) \/ Restore(id, lits)

Spec == Init /\ [][Next]_vars

-----------------------------------------------------------------------------
TypeOK ==
  /\ checker.num_clauses = Cardinality(DOMAIN checker.clauses)
  /\ checker.num_garbage >= 0 /\ 2 * checker.num_garbage <= Max({checker.size_clauses, checker.size_vars})

\* Whatever chains are given, the checker has only clauses that follow from the original
\* ones; with strict_lrat this is so although clauses are weakened, deleted and restored.
CheckerSound ==
  checker.fatal = "no" => \A id \in DOMAIN checker.clauses : Implies(original, Range(checker.clauses[id]))
=============================================================================
