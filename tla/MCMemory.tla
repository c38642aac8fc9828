------------------------------ MODULE MCMemory ------------------------------
(***************************************************************************)
(* What moves in memory: variables that are renumbered, and clauses that   *)
(* are reduced, collected and moved to an arena. The initial state chooses *)
(* a part.                                                                 *)
(***************************************************************************)
EXTENDS Integers, FiniteSets, SequencesExt

VARIABLES
  part,                        \* the part of the solver
  ivar, queue, clauses, trail, assumptions, constraint, unsat_constraint, evar, eassumptions,
  econstraint, clause_id, stats, fixed, eclauses, phases, order, compacts, bumped, reactivated,
  arenatype, mem, wtab, otab, mode, control, vtab, arena, last_fixed, all_fixed, collections,
  reducing, learned, marked, units

\* Renumbering: three external variables.
UserClauses == {{1, -2, 3}, {2, 3, -1}, {-3, 1}}

\* Collections in the middle of the search: clauses of two and three literals.
SearchFormula == <<<<1, 2, 3>>, <<-1, 2>>, <<-2, 3, 1>>>>
SearchLearnable == {[lits |-> <<2, 3>>, glue |-> 2], [lits |-> <<3, 1>>, glue |-> 2]}

\* Clauses that subsume others, and so garbage that still propagates.
GarbageFormula == <<<<1, 2, 3>>, <<-1, 2>>, <<2, 3>>, <<-3, 1, -2>>>>
GarbageLearnable == {[lits |-> <<2, -1>>, glue |-> 1], [lits |-> <<1, 2>>, glue |-> 2]}

Compact == INSTANCE Compact WITH
  EVars <- 1..3, EClauses <- UserClauses, Assumable <- {-1, 3}, Fixable <- {1, -2, 3}, Freezable <- {1},
  Constraints <- {{2, -3}}, MaxCompacts <- 2, MaxFrozen <- 1, MaxAssumptions <- 1, MaxBumped <- 1,
  MaxReactivated <- 1
Search == INSTANCE Collect WITH
  Vars <- 1..3, Formula <- SearchFormula, Learnable <- SearchLearnable, Decidable <- {-2, -3},
  Addable <- {1, -1}, Queue <- <<1, 2, 3>>, ArenaTypes <- {3}, Target <- 75, Tier1 <- 1, Tier2 <- 2,
  MaxLevel <- 2, MaxLearned <- 1, MaxUnits <- 1, MaxCollections <- 2, MaxMarked <- 0
Garbage == INSTANCE Collect WITH
  Vars <- 1..3, Formula <- GarbageFormula, Learnable <- GarbageLearnable, Decidable <- {-2, -3},
  Addable <- {-1}, Queue <- <<1, 2, 3>>, ArenaTypes <- {1, 2, 3}, Target <- 75, Tier1 <- 1, Tier2 <- 2,
  MaxLevel <- 1, MaxLearned <- 1, MaxUnits <- 1, MaxCollections <- 2, MaxMarked <- 1

ASSUME ConstantsAssumption == /\ Compact!CompactAssumption /\ Search!CollectAssumption
  /\ Garbage!CollectAssumption

\* Variables of the other parts, which stay 0.
CompactOthers == <<arenatype, mem, wtab, otab, mode, control, vtab, arena, last_fixed, all_fixed,
  collections, reducing, learned, marked, units>>
SearchOthers == <<ivar, queue, assumptions, constraint, unsat_constraint, evar, eassumptions,
  econstraint, clause_id, fixed, eclauses, phases, order, compacts, bumped, reactivated>>
GarbageOthers == <<ivar, queue, assumptions, constraint, unsat_constraint, evar, eassumptions,
  econstraint, clause_id, fixed, eclauses, phases, order, compacts, bumped, reactivated>>

vars == <<part, ivar, queue, clauses, trail, assumptions, constraint, unsat_constraint, evar,
  eassumptions, econstraint, clause_id, stats, fixed, eclauses, phases, order, compacts, bumped,
  reactivated, arenatype, mem, wtab, otab, mode, control, vtab, arena, last_fixed, all_fixed,
  collections, reducing, learned, marked, units>>

Init ==
  \/ /\ part = "compact" /\ Compact!Init
     /\ arenatype = 0 /\ mem = 0 /\ wtab = 0 /\ otab = 0 /\ mode = 0 /\ control = 0 /\ vtab = 0
     /\ arena = 0 /\ last_fixed = 0 /\ all_fixed = 0 /\ collections = 0 /\ reducing = 0
     /\ learned = 0 /\ marked = 0 /\ units = 0
  \/ /\ part = "search" /\ Search!Init
     /\ ivar = 0 /\ queue = 0 /\ assumptions = 0 /\ constraint = 0 /\ unsat_constraint = 0
     /\ evar = 0 /\ eassumptions = 0 /\ econstraint = 0 /\ clause_id = 0 /\ fixed = 0
     /\ eclauses = 0 /\ phases = 0 /\ order = 0 /\ compacts = 0 /\ bumped = 0 /\ reactivated = 0
  \/ /\ part = "garbage" /\ Garbage!Init
     /\ ivar = 0 /\ queue = 0 /\ assumptions = 0 /\ constraint = 0 /\ unsat_constraint = 0
     /\ evar = 0 /\ eassumptions = 0 /\ econstraint = 0 /\ clause_id = 0 /\ fixed = 0
     /\ eclauses = 0 /\ phases = 0 /\ order = 0 /\ compacts = 0 /\ bumped = 0 /\ reactivated = 0

CompactStep == part = "compact" /\ Compact!Next /\ UNCHANGED <<part, CompactOthers>>
SearchStep == part = "search" /\ Search!Next /\ UNCHANGED <<part, SearchOthers>>
GarbageStep == part = "garbage" /\ Garbage!Next /\ UNCHANGED <<part, GarbageOthers>>

Next == CompactStep \/ SearchStep \/ GarbageStep

Spec == Init /\ [][Next]_vars

-----------------------------------------------------------------------------
On(name, P) == part = name => P


\* Neither the user nor the search notices that variables are renumbered and clauses moved:
\* fixed values, proof ids of units, clauses, assumptions, constraint, frozen counts and the
\* variables that can be decided stay the same through compacting (compact.cpp), and what a
\* reduction deletes follows from what it keeps (reduce.cpp, collect.cpp).
UserUnaware ==
  /\ On("compact", /\ Compact!ValuesKept /\ Compact!UnitIdsKept /\ Compact!ClausesKept
                   /\ Compact!DecisionsKept /\ Compact!FrozenExact /\ Compact!QueryKept)
  /\ On("search", Search!ModelsKept)

\* Reasons, watches, occurrences and the conflict point to clauses that are there although
\* collections shrink, free and move them; every clause is watched by its first two literals,
\* and a reason is the clause that forces its literal (collect.cpp, arena.cpp, reduce.cpp).
NoDangling ==
  /\ On("garbage", Garbage!NoDangling)
  /\ On("search", Search!ConnectedExact /\ Search!ReasonsExact)

\* The counters are exact: of active, fixed and eliminated variables, of clauses and
\* literals, of the bytes moved to the arena; no clause keeps a fixed literal after a
\* collection at the root (clause.cpp, stats.hpp, flags.cpp, arena.cpp).
CountsExact ==
  /\ On("compact", Compact!TypeOK /\ Compact!CountsExact)
  /\ On("garbage", Garbage!TypeOK /\ Garbage!StatsExact /\ Garbage!ArenaFilled)
  /\ On("search", Search!NoFixedLiterals)
=============================================================================
