---------------------------- MODULE MCEliminate ----------------------------
(***************************************************************************)
(* The techniques of CaDiCaL that remove clauses and variables and need    *)
(* the extension stack, each on its own formulas. The initial state        *)
(* chooses one of them.                                                    *)
(***************************************************************************)
EXTENDS Integers, FiniteSets, SequencesExt

VARIABLES
  technique,                   \* the technique that runs
  original, irr, red, units, extension, eliminated, schedule, elimbound, pc, pivot, gates, pairs,
  budget, backward, cur, pure, frozen, block, skip, noccs, changes, tried, c, added, covered,
  extend, next_covered, rounds, reasons, assignment, initial, watched, candidates, unassigned,
  conditional, next, unsat, substituted, round, dfs_idx, idx, min, work, scc, reprs, rest,
  postponed, again

Three == INSTANCE Clauses WITH Vars <- 1..3

(***************************************************************************)
(* Of the formulas that differ by a renaming or by signs one is enough.    *)
(***************************************************************************)
Occurrences(F, lit) == Cardinality({C \in F : lit \in C})

Count(F, v) == Occurrences(F, v) + Occurrences(F, -v)

Representative(F) ==
  \A v \in 1..3 : /\ Occurrences(F, v) >= Occurrences(F, -v)
                 /\ \A w \in 1..3 : v < w => Count(F, v) >= Count(F, w)

Clauses3 == {C \in Three!ProperClauses : Cardinality(C) \in 2..3}
Binary3 == {C \in Clauses3 : Cardinality(C) = 2}

\* k clauses of two or three literals over three variables; the first two are
\* in at least n of them.
Formulas3(k, n) == {F \in kSubset(k, Clauses3) : Representative(F) /\ Count(F, 1) >= n /\ Count(F, 2) >= n}

\* Variable elimination: all formulas of up to three clauses, and some of four that
\* share two variables.
ElimFormulas == Formulas3(2, 0) \cup Formulas3(3, 0) \cup {F \in Formulas3(4, 4) : {1, 2} \in F}

\* A gate of each kind with output 1, one more clause with each phase of the
\* output, and one clause without it that may be strengthened.
Gate ==
  {{{1, 2}, {-1, -2}},
   {{-1, 2, 3}, {1, -2}, {1, -3}},
   {{1, 2, 3}, {1, -2, 4}, {-1, 2, -3}, {-1, -2, -4}},
   {{1, 2, 3}, {1, -2, -3}, {-1, 2, -3}, {-1, -2, 3}}}
GateFormulas ==
  {G \cup {{1, a}, {-1, b}, C} :
     G \in Gate, a \in {2, 4, -4}, b \in {-3, 4, -4}, C \in {{2, 3, 4}, {3, -4}}}
GateLearned == {{1, 2, 3}, {3, 4}}

\* Four clauses, of which two are the same equivalence.
Larger == {F \in Formulas3(4, 4) : {{1, 2}, {-1, -2}} \subseteq F}

BlockFormulas == Formulas3(3, 2) \cup Larger \cup {{{1, -2}, {1, 2}, {1, 2, -3}, {1, 2, 3}}}

\* Covered clauses: one clause may have a literal that the unit 4 falsifies.
With(F, lit, G) == {(F \ {C}) \cup {C \cup {lit}} \cup G : C \in {D \in F : Cardinality(D) = 2}}
CoverFormulas ==
  {F \cup {{4}} : F \in Formulas3(3, 2) \cup Larger}
    \cup UNION {With(F, -4, {{4}}) : F \in Formulas3(3, 3)}

\* Conditioning: one clause has a literal of the frozen variable 4 as well or one
\* that the unit 5 falsifies.
ConditionFormulas ==
  {F \cup {{5}} : F \in Larger}
    \cup UNION {With(F, -4, {{5}}) \cup With(F, -5, {{5}}) : F \in Formulas3(3, 3)}

\* Decomposition: three to five binary clauses, and a ternary one and perhaps a
\* unit that the substitution reaches.
DecomposeFormulas ==
  {F \cup {{1, 2, 3}} : F \in UNION {kSubset(k, Binary3) : k \in 3..4}
                                \cup {G \in kSubset(5, Binary3) : {{-1, 2}, {-2, 3}, {1, -3}} \subseteq G}}
    \cup {F \cup {{-1, -2, 3}, {-3}} : F \in kSubset(3, Binary3)}

Elim == INSTANCE Elim WITH
  Vars <- 1..3, Formulas <- ElimFormulas, Learned <- Binary3, Frozen <- {}, elimocclim <- 10,
  elimboundmax <- 0, elimsubst <- TRUE, elimbackward <- TRUE, instantiate <- FALSE
Gates == INSTANCE Elim WITH
  Vars <- 1..4, Formulas <- GateFormulas, Learned <- GateLearned, Frozen <- {4}, elimocclim <- 10,
  elimboundmax <- 1, elimsubst <- TRUE, elimbackward <- TRUE, instantiate <- TRUE
Block == INSTANCE Block WITH
  Vars <- 1..3, Formulas <- BlockFormulas, Derived <- Binary3, FrozenSets <- {{}, {1}},
  blockminclslim <- 2, blockmaxclslim <- 3, blockocclim <- 2, MaxChanges <- 1
Cover == INSTANCE Cover WITH
  Vars <- 1..4, Formulas <- CoverFormulas, Frozen <- {3}, coverminclslim <- 2, covermaxclslim <- 10,
  proof <- FALSE, MaxRounds <- 2
Condition == INSTANCE Condition WITH
  Vars <- 1..5, Formulas <- ConditionFormulas, Frozen <- {4}, MaxPushed <- 1
Decompose == INSTANCE Decompose WITH
  Vars <- 1..3, Formulas <- DecomposeFormulas, Frozen <- {2}, decomposerounds <- 2

ASSUME ConstantsAssumption == /\ Elim!OptionsAssumption /\ Gates!OptionsAssumption
  /\ Block!OptionsAssumption /\ Block!FormulasAssumption /\ Cover!OptionsAssumption
  /\ Cover!FormulasAssumption
  /\ Condition!FormulasAssumption /\ Decompose!OptionsAssumption

\* Variables of the other parts, which stay 0.
ElimOthers == <<pure, frozen, block, skip, noccs, changes, tried, c, added, covered, extend,
  next_covered, rounds, reasons, assignment, initial, watched, candidates, unassigned, conditional,
  next, unsat, substituted, round, dfs_idx, idx, min, work, scc, reprs, rest, postponed, again>>
GatesOthers == <<pure, frozen, block, skip, noccs, changes, tried, c, added, covered, extend,
  next_covered, rounds, reasons, assignment, initial, watched, candidates, unassigned, conditional,
  next, unsat, substituted, round, dfs_idx, idx, min, work, scc, reprs, rest, postponed, again>>
BlockOthers == <<original, units, eliminated, elimbound, pivot, gates, pairs, budget, backward, cur,
  tried, c, added, covered, extend, next_covered, rounds, reasons, assignment, initial, watched,
  candidates, unassigned, conditional, next, unsat, substituted, round, dfs_idx, idx, min, work, scc,
  reprs, rest, postponed, again>>
CoverOthers == <<original, red, eliminated, elimbound, pivot, gates, pairs, budget, backward, cur,
  pure, frozen, block, skip, noccs, changes, reasons, assignment, initial, watched, candidates,
  unassigned, conditional, next, unsat, substituted, round, dfs_idx, idx, min, work, scc, reprs, rest,
  postponed, again>>
ConditionOthers == <<original, red, eliminated, schedule, elimbound, pivot, gates, pairs, budget,
  backward, cur, pure, frozen, block, skip, noccs, changes, tried, added, covered, extend,
  next_covered, rounds, unsat, substituted, round, dfs_idx, idx, min, work, scc, reprs, rest,
  postponed, again>>
DecomposeOthers == <<red, eliminated, schedule, elimbound, pivot, gates, pairs, budget, backward,
  cur, pure, frozen, block, skip, noccs, changes, tried, c, added, covered, extend, next_covered,
  rounds, reasons, assignment, initial, watched, candidates, unassigned, conditional, next>>

vars == <<technique, original, irr, red, units, extension, eliminated, schedule, elimbound, pc,
  pivot, gates, pairs, budget, backward, cur, pure, frozen, block, skip, noccs, changes, tried, c,
  added, covered, extend, next_covered, rounds, reasons, assignment, initial, watched, candidates,
  unassigned, conditional, next, unsat, substituted, round, dfs_idx, idx, min, work, scc, reprs, rest,
  postponed, again>>

Init ==
  \/ /\ technique = "elim" /\ Elim!Init
     /\ pure = 0 /\ frozen = 0 /\ block = 0 /\ skip = 0 /\ noccs = 0 /\ changes = 0 /\ tried = 0
     /\ c = 0 /\ added = 0 /\ covered = 0 /\ extend = 0 /\ next_covered = 0 /\ rounds = 0
     /\ reasons = 0 /\ assignment = 0 /\ initial = 0 /\ watched = 0 /\ candidates = 0
     /\ unassigned = 0 /\ conditional = 0 /\ next = 0 /\ unsat = 0 /\ substituted = 0 /\ round = 0
     /\ dfs_idx = 0 /\ idx = 0 /\ min = 0 /\ work = 0 /\ scc = 0 /\ reprs = 0 /\ rest = 0
     /\ postponed = 0 /\ again = 0
  \/ /\ technique = "gates" /\ Gates!Init
     /\ pure = 0 /\ frozen = 0 /\ block = 0 /\ skip = 0 /\ noccs = 0 /\ changes = 0 /\ tried = 0
     /\ c = 0 /\ added = 0 /\ covered = 0 /\ extend = 0 /\ next_covered = 0 /\ rounds = 0
     /\ reasons = 0 /\ assignment = 0 /\ initial = 0 /\ watched = 0 /\ candidates = 0
     /\ unassigned = 0 /\ conditional = 0 /\ next = 0 /\ unsat = 0 /\ substituted = 0 /\ round = 0
     /\ dfs_idx = 0 /\ idx = 0 /\ min = 0 /\ work = 0 /\ scc = 0 /\ reprs = 0 /\ rest = 0
     /\ postponed = 0 /\ again = 0
  \/ /\ technique = "block" /\ Block!Init
     /\ original = 0 /\ units = 0 /\ eliminated = 0 /\ elimbound = 0 /\ pivot = 0 /\ gates = 0
     /\ pairs = 0 /\ budget = 0 /\ backward = 0 /\ cur = 0 /\ tried = 0 /\ c = 0 /\ added = 0
     /\ covered = 0 /\ extend = 0 /\ next_covered = 0 /\ rounds = 0 /\ reasons = 0 /\ assignment = 0
     /\ initial = 0 /\ watched = 0 /\ candidates = 0 /\ unassigned = 0 /\ conditional = 0
     /\ next = 0 /\ unsat = 0 /\ substituted = 0 /\ round = 0 /\ dfs_idx = 0 /\ idx = 0 /\ min = 0
     /\ work = 0 /\ scc = 0 /\ reprs = 0 /\ rest = 0 /\ postponed = 0 /\ again = 0
  \/ /\ technique = "cover" /\ Cover!Init
     /\ original = 0 /\ red = 0 /\ eliminated = 0 /\ elimbound = 0 /\ pivot = 0 /\ gates = 0
     /\ pairs = 0 /\ budget = 0 /\ backward = 0 /\ cur = 0 /\ pure = 0 /\ frozen = 0 /\ block = 0
     /\ skip = 0 /\ noccs = 0 /\ changes = 0 /\ reasons = 0 /\ assignment = 0 /\ initial = 0
     /\ watched = 0 /\ candidates = 0 /\ unassigned = 0 /\ conditional = 0 /\ next = 0 /\ unsat = 0
     /\ substituted = 0 /\ round = 0 /\ dfs_idx = 0 /\ idx = 0 /\ min = 0 /\ work = 0 /\ scc = 0
     /\ reprs = 0 /\ rest = 0 /\ postponed = 0 /\ again = 0
  \/ /\ technique = "condition" /\ Condition!Init
     /\ original = 0 /\ red = 0 /\ eliminated = 0 /\ schedule = 0 /\ elimbound = 0 /\ pivot = 0
     /\ gates = 0 /\ pairs = 0 /\ budget = 0 /\ backward = 0 /\ cur = 0 /\ pure = 0 /\ frozen = 0
     /\ block = 0 /\ skip = 0 /\ noccs = 0 /\ changes = 0 /\ tried = 0 /\ added = 0 /\ covered = 0
     /\ extend = 0 /\ next_covered = 0 /\ rounds = 0 /\ unsat = 0 /\ substituted = 0 /\ round = 0
     /\ dfs_idx = 0 /\ idx = 0 /\ min = 0 /\ work = 0 /\ scc = 0 /\ reprs = 0 /\ rest = 0
     /\ postponed = 0 /\ again = 0
  \/ /\ technique = "decompose" /\ Decompose!Init
     /\ red = 0 /\ eliminated = 0 /\ schedule = 0 /\ elimbound = 0 /\ pivot = 0 /\ gates = 0
     /\ pairs = 0 /\ budget = 0 /\ backward = 0 /\ cur = 0 /\ pure = 0 /\ frozen = 0 /\ block = 0
     /\ skip = 0 /\ noccs = 0 /\ changes = 0 /\ tried = 0 /\ c = 0 /\ added = 0 /\ covered = 0
     /\ extend = 0 /\ next_covered = 0 /\ rounds = 0 /\ reasons = 0 /\ assignment = 0 /\ initial = 0
     /\ watched = 0 /\ candidates = 0 /\ unassigned = 0 /\ conditional = 0 /\ next = 0

ElimStep == technique = "elim" /\ Elim!Next /\ UNCHANGED <<technique, ElimOthers>>
GatesStep == technique = "gates" /\ Gates!Next /\ UNCHANGED <<technique, GatesOthers>>
BlockStep == technique = "block" /\ Block!Next /\ UNCHANGED <<technique, BlockOthers>>
CoverStep == technique = "cover" /\ Cover!Next /\ UNCHANGED <<technique, CoverOthers>>
ConditionStep == technique = "condition" /\ Condition!Next /\ UNCHANGED <<technique, ConditionOthers>>
DecomposeStep == technique = "decompose" /\ Decompose!Next /\ UNCHANGED <<technique, DecomposeOthers>>

Next == ElimStep \/ GatesStep \/ BlockStep \/ CoverStep \/ ConditionStep \/ DecomposeStep

Spec == Init /\ [][Next]_vars

-----------------------------------------------------------------------------
On(name, P) == technique = name => P


\* Nothing is invented and nothing lost, in the middle of an elimination too: resolvents,
\* strengthened and substituted clauses follow from the formula, every model of what is left
\* extends to one of the formula along the extension stack, and variables that are gone from
\* the clauses were not frozen (elim.cpp, gates.cpp, backward.cpp, decompose.cpp, extend.cpp).
DatabaseSound ==
  /\ On("elim", Elim!DatabaseImplied /\ Elim!ModelsExtend)
  /\ On("decompose", Decompose!TypeOK /\ Decompose!DatabaseImplied /\ Decompose!ModelsExtend)
  /\ On("gates", Gates!TypeOK) /\ On("cover", Cover!TypeOK)

\* What restore_clauses relies on: each entry is pushed with a clause that is redundant
\* with an unfrozen witness in the formula that still has the clauses pushed after it, and
\* a clause dropped without an entry follows from what remains (elim.cpp, block.cpp,
\* cover.cpp, condition.cpp).
WeakenContract ==
  [][/\ On("gates", Gates!WeakenContract) /\ On("block", Block!WeakenContract)
     /\ On("cover", Cover!WeakenContract) /\ On("condition", Condition!WeakenContract)]_vars

\* What a technique leaves off at is what it claims: a run of blocked clause elimination that
\* ends by itself leaves no blocked clause but those that a limit protects, although it only
\* tries literals that are marked and only counts occurrences (block.cpp); the fix-point of
\* conditioning is a conditional autarky although each clause is watched by one literal only
\* (condition.cpp); the equivalence classes that substitution uses are exactly the strongly
\* connected components (decompose.cpp).
FixPointsExact ==
  /\ On("block", Block!TypeOK /\ Block!BlockComplete)
  /\ On("condition", Condition!TypeOK /\ Condition!ConditionalAutarky)
  /\ On("decompose", Decompose!ComponentsExact)
=============================================================================
