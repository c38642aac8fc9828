------------------------------ MODULE MCProof ------------------------------
(***************************************************************************)
(* Proofs: the forward checker, the chain builder with the LRAT checker    *)
(* behind it, and the LRAT checker alone with chains that may be wrong     *)
(* (Chains). The initial state chooses a part.                             *)
(***************************************************************************)
EXTENDS Chains

VARIABLES
  part,                        \* the part of the proof code
  mem, table, garbage, num_clauses, num_garbage, size_vars, watchers, trail, inconsistent, fatal,
  last_id, deleted, live, derived, builder, lrat_checker, original_id, removed, constrained,
  conclusion, removals, last

\* Forward checking: clauses over three variables, one vector with a literal twice.
CheckerPool == {<<1, 2>>, <<2, -1, 2>>, <<-2, 3>>, <<3, 1, -2>>, <<-3, -2>>, <<1>>, <<-1>>}
CheckerNonce == [id \in 1..6 |-> <<3, 5, 1, 7, 2, 4>>[id]]

\* Chains: clauses are added, derived, strengthened, deleted, weakened, restored.
ClausesPool == {<<1, 2>>, <<2, -1, 2>>, <<-2, 3, 1>>, <<-2>>}

\* Queries with assumptions and a constraint.
QueryPool == {<<1, 2>>, <<-2, 3>>, <<-1, -3>>, <<3, -3>>}

\* Chains that may be wrong: two variables, one clause is a tautology.
ChainsPool == {<<1, 2>>, <<-1, 2, 2>>, <<1, -1>>}
ChainsDerivable == {<<2>>, <<>>}

Checker == INSTANCE Checker WITH
  Vars <- 1..3, Pool <- CheckerPool, Nonce <- CheckerNonce, MaxId <- 4, MaxDeleted <- 3
Clauses3 == INSTANCE Proof WITH
  Vars <- 1..3, checker <- lrat_checker, strict_lrat <- FALSE, Pool <- ClausesPool,
  Derivable <- {<<3, 1>>}, Assumable <- {}, Constraint <- <<>>, reserved_ids <- 1, MaxId <- 4, MaxRemoved <- 2, MaxWeakened <- 1
Query == INSTANCE Proof WITH
  Vars <- 1..3, checker <- lrat_checker, strict_lrat <- FALSE, Pool <- QueryPool,
  Derivable <- {<<>>}, Assumable <- {-2, 3}, Constraint <- <<-3, 1>>, reserved_ids <- 0, MaxId <- 5, MaxRemoved <- 0, MaxWeakened <- 0

ASSUME ConstantsAssumption == /\ Checker!CheckerAssumption /\ Clauses3!ProofAssumption
  /\ Query!ProofAssumption /\ ChainsAssumption

\* Variables of the other parts, which stay as they are.
CheckerOthers == <<builder, lrat_checker, checker, clause_id, original_id, removed, constrained,
  conclusion, removals, last>>
ProofOthers == <<mem, table, garbage, num_clauses, num_garbage, size_vars, watchers, trail,
  inconsistent, fatal, last_id, deleted, derived, checker>>
ChainsOthers == <<mem, table, garbage, num_clauses, num_garbage, size_vars, watchers, trail,
  inconsistent, fatal, last_id, deleted, live, derived, builder, lrat_checker, original_id, removed,
  constrained, conclusion, removals, last>>

MCvars == <<part, vars, ChainsOthers>>

MCInit ==
  \/ /\ part = "checker" /\ Checker!Init
     /\ builder = 0 /\ lrat_checker = 0 /\ checker = CheckerConstructed /\ clause_id = 0
     /\ original_id = 0 /\ removed = 0 /\ constrained = 0 /\ conclusion = 0 /\ removals = 0
     /\ last = 0
  \/ /\ \/ part = "clauses" /\ Clauses3!Init
        \/ part = "query" /\ Query!Init
     /\ mem = 0 /\ table = 0 /\ garbage = 0 /\ num_clauses = 0 /\ num_garbage = 0 /\ size_vars = 0
     /\ watchers = 0 /\ trail = 0 /\ inconsistent = 0 /\ fatal = 0 /\ last_id = 0 /\ deleted = 0
     /\ derived = 0 /\ checker = CheckerConstructed
  \/ /\ part = "chains" /\ Init
     /\ mem = 0 /\ table = 0 /\ garbage = 0 /\ num_clauses = 0 /\ num_garbage = 0 /\ size_vars = 0
     /\ watchers = 0 /\ trail = 0 /\ inconsistent = 0 /\ fatal = 0 /\ last_id = 0 /\ deleted = 0
     /\ live = 0 /\ derived = 0 /\ builder = 0 /\ lrat_checker = 0 /\ original_id = 0
     /\ removed = 0 /\ constrained = 0 /\ conclusion = 0 /\ removals = 0 /\ last = 0

CheckerStep == part = "checker" /\ Checker!Next /\ UNCHANGED <<part, CheckerOthers>>
Clauses3Step == part = "clauses" /\ Clauses3!Next /\ UNCHANGED <<part, ProofOthers>>
QueryStep == part = "query" /\ Query!Next /\ UNCHANGED <<part, ProofOthers>>
ChainsStep == part = "chains" /\ Next /\ UNCHANGED <<part, ChainsOthers>>

MCNext == CheckerStep \/ Clauses3Step \/ QueryStep \/ ChainsStep

MCSpec == MCInit /\ [][MCNext]_MCvars

-----------------------------------------------------------------------------
On(name, P) == part = name => P


\* What is right is accepted, and by the forward checker nothing else: it refuses nothing that
\* follows by propagation and finds every clause that is deleted; the chain builder gives up on
\* no such clause, and the LRAT checker accepts its chains and every conclusion of a query
\* (checker.cpp, lratbuilder.cpp, lratchecker.cpp, proof.cpp).
RightAccepted ==
  /\ On("checker", Checker!Sound /\ Checker!RupAccepted /\ Checker!DeletedFound)
  /\ On("clauses", Clauses3!CheckerAccepts /\ Clauses3!BuilderComplete)
  /\ On("query", Query!CheckerAccepts)

\* Why: root assignments are closed under propagation and every literal of them has a reason
\* that is still there, hash table and watches are those of the stored clauses, nothing points
\* to a clause that was collected, and an inconsistency is known exactly when there is one.
RootExact ==
  /\ On("checker", Checker!TypeOK /\ Checker!RootComplete /\ Checker!TableExact /\ Checker!WatchesExact)
  /\ On("clauses", /\ Clauses3!TypeOK /\ Clauses3!InconsistentExact /\ Clauses3!TrailJustified
                   /\ Clauses3!NoDangling)
  /\ On("query", Query!NoDangling) /\ On("chains", TypeOK)
=============================================================================
