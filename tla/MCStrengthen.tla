---------------------------- MODULE MCStrengthen ----------------------------
(***************************************************************************)
(* The techniques of CaDiCaL that strengthen and remove clauses without    *)
(* changing the models, each on its own databases. The initial state       *)
(* chooses one of them; the properties are what the rest of the solver     *)
(* relies on whichever of them ran.                                        *)
(***************************************************************************)
EXTENDS Integers, FiniteSets, SequencesExt

VARIABLES
  technique,                   \* the technique that runs
  original, clauses, clause_id, occs, ternary, marked, last, pc, calls, round, budget, idx, pairs,
  derived, aborted, units, unsat, lit, i, marks, src, dst, work, bits, fixed, rounds, schedule,
  shrunken, limited, order, redundant_mode, trail, cand, sorted, subsume, remove, learned, probes,
  propfixed, uip, passed

Three == INSTANCE Clauses WITH Vars <- 1..3
Four == INSTANCE Clauses WITH Vars <- 1..4
Five == INSTANCE Clauses WITH Vars <- 1..5

Entry(C, red) == [lits |-> C, red |-> red]

Proper4(k) == {C \in Four!ProperClauses : Cardinality(C) = k}

\* Databases in which the redundant clauses follow from the others.
IrredundantOf(D) == {D[j].lits : j \in {k \in DOMAIN D : ~D[k].red}}

\* Hyper ternary resolution: two ternary clauses with a resolvent of three
\* literals, and one or two more clauses.
TernaryPair == {{1, 2, 4}, {-1, 2, 3}}
TernaryThird == {{1, -2, 3}, {-1, 3, 4}, {-3, 2, 4}}
TernaryFormulas ==
  {TernaryPair \cup {C, D} : C \in TernaryThird, D \in Proper4(2) \cup Proper4(3)}
TernaryLearnable == {{2, 3, 4}, {1, 2, 3}}

\* Binary clauses: three irredundant ones, and a copy of one or a redundant
\* one before or after them.
Binary == {C \in Three!ProperClauses : Cardinality(C) = 2}
BinaryEntries(F) ==
  [k \in 1..Cardinality(F) |-> [lits |-> SetToSeq(F)[k], red |-> FALSE, hyper |-> FALSE]]
BinaryLearned(F) ==
  {[lits |-> C, red |-> TRUE, hyper |-> h] : C \in {D \in Binary : Three!Implies(F, D)}, h \in BOOLEAN}
BinaryIrredundants ==
  {G \cup {{-1, 2}} : G \in kSubset(2, {C \in Binary : -3 \in C} \cup {{1, -2}, {1, 3}})}
BinaryDatabases ==
  UNION {UNION {{BinaryEntries(F) \o <<c>>, <<c>> \o BinaryEntries(F)} : c \in BinaryLearned(F)} :
         F \in BinaryIrredundants}
    \cup {BinaryEntries(F) \o BinaryEntries({C}) : F \in BinaryIrredundants, C \in Binary}

\* Subsumption: two small clauses and a larger one, a redundant one, or one
\* above the limit.
SubsumeSmall == {{1, 2}, {-1, 2}, {2, -3}, {1, 2, 3}, {1, 2, -3}, {-1, 2, 4}}
SubsumeDatabases ==
  {<<Entry(A, FALSE), Entry(B, FALSE), Entry(C, FALSE)>> :
     A, B \in SubsumeSmall, C \in {{1, 2, 3, 4}, {1, -2, 3, 4}}}
  \cup {D \in {<<Entry(A, FALSE), Entry(B, FALSE), Entry(C, TRUE)>> : A, B, C \in SubsumeSmall} :
          Four!Implies(IrredundantOf(D), D[3].lits)}
  \cup {<<Entry(A, FALSE), Entry({1, 2, 3}, FALSE), Entry({1, 2, 3, 4, 5}, FALSE)>> :
          A \in {{1, 2}, {-1, 2}, {2, -3}}}
SubsumeLearnable == {{2, 3}, {2, 4, 1}}

\* Vivification: two larger clauses, two binary ones, a redundant one.
VivifyFirst ==
  {<<{1, 2, 3}, {1, 2, 4}>>, <<{1, 2, 3}, {1, -2, 4}>>, <<{1, 2, 3}, {-1, 3, 4}>>,
   <<{1, 2, 3, 4}, {-1, 2, 4}>>}
VivifyBinaries ==
  {<<{1, -3}, {2, -4}>>, <<{-1, 2}, {-2, 4}>>, <<{1, -2}, {-1, 4}>>, <<{3, 4}, {-2, 3}>>}
VivifyLearned == {C \in Proper4(3) : 2 \in C \/ -3 \in C} \cup Proper4(4)
VivifyDatabases ==
  {D \in {<<Entry(f[1], FALSE), Entry(f[2], FALSE), Entry(b[1], FALSE), Entry(b[2], FALSE), Entry(C, TRUE)>> :
            f \in VivifyFirst, b \in VivifyBinaries, C \in VivifyLearned} :
     Four!Implies(IrredundantOf(D), D[5].lits)}
VivifyOrders == {<<1, 2, 3, 4, -1, -2, -3, -4>>, <<4, 2, -1, -3, 3, -4, 1, -2>>}

\* Probing: trees of binary clauses with ternary clauses on top; a literal
\* that fails only once {-2, 3} is learned; an unsatisfiable formula.
ProbeShapes ==
  {<<{-1, 2}, {-1, 3}, {-2, -3, 4}>>, <<{-1, 2}, {-2, 3}, {-2, -3, 4}>>,
   <<{-1, 2}, {-2, 3}, {-1, -3, 4}>>}
ProbeIrredundant(s) == [n \in DOMAIN s |-> Entry(s[n], FALSE)]
ProbeSpecial ==
  {ProbeIrredundant(<<{-1, 2}, {-2, 3, 4}, {-2, 3, -4}, {-3, -2, 5}, {-3, -2, -5}>>),
   ProbeIrredundant(<<{-1, 2}, {-2, 3}, {-2, -3}, {2, 4}, {2, -4}>>)}
ProbeDatabases ==
  {D \in {ProbeIrredundant(s) \o <<Entry(C, r), Entry(B, FALSE)>> :
            s \in ProbeShapes, C \in {{-2, -3, 5}, {-1, -4, 5}, {-2, -4, 1}, {-3, -4, -2}},
            B \in {{-4, -3}, {-5, -4}}, r \in BOOLEAN} :
     D[4].red => Five!Implies(IrredundantOf(D), D[4].lits)}
  \cup ProbeSpecial
ProbeLearnable == {{-1, -4}, {-2, 3}}

Ternary == INSTANCE Ternary WITH
  Vars <- 1..4, Formulas <- TernaryFormulas, Learnable <- TernaryLearnable, Budgets <- {1, 20},
  MaxCalls <- 2, ternaryocclim <- 4, ternaryrounds <- 2
Binaries == INSTANCE Binaries WITH Vars <- 1..3, Databases <- BinaryDatabases, MaxCalls <- 2
Subsume == INSTANCE Subsume WITH
  Vars <- 1..5, Databases <- SubsumeDatabases, Learnable <- SubsumeLearnable, MaxRounds <- 2,
  MayAbort <- TRUE, subsumeclslim <- 4, subsumeocclim <- 2
Vivify == INSTANCE Vivify WITH
  Vars <- 1..4, Databases <- VivifyDatabases, Orders <- VivifyOrders, MaxRounds <- 4, vivifyinst <- TRUE
Probe == INSTANCE Probe WITH
  Vars <- 1..5, Databases <- ProbeDatabases, Learnable <- ProbeLearnable, MaxRounds <- 2, probehbr <- TRUE
Tree == INSTANCE Probe WITH
  Vars <- 1..5, Databases <- ProbeSpecial, Learnable <- ProbeLearnable, MaxRounds <- 2, probehbr <- FALSE

ASSUME ConstantsAssumption == /\ Ternary!OptionsAssumption /\ Binaries!CallsAssumption
  /\ Subsume!OptionsAssumption /\ Vivify!OptionsAssumption /\ Probe!OptionsAssumption
  /\ Tree!OptionsAssumption

\* Variables of the other parts, which stay 0.
TernaryOthers == <<units, unsat, lit, i, marks, src, dst, work, bits, fixed, rounds, schedule,
  shrunken, limited, order, redundant_mode, trail, cand, sorted, subsume, remove, learned, probes,
  propfixed, uip, passed>>
BinariesOthers == <<clause_id, occs, ternary, marked, last, round, budget, idx, pairs, derived,
  aborted, bits, fixed, rounds, schedule, shrunken, limited, order, redundant_mode, trail, cand,
  sorted, subsume, remove, learned, probes, propfixed, uip, passed>>
SubsumeOthers == <<clause_id, ternary, marked, last, calls, round, budget, idx, pairs, derived,
  aborted, units, unsat, lit, i, marks, src, dst, work, order, redundant_mode, trail, cand, sorted,
  subsume, remove, learned, probes, propfixed, uip>>
VivifyOthers == <<clause_id, occs, ternary, marked, last, calls, round, budget, idx, pairs, derived,
  aborted, lit, i, marks, src, dst, work, bits, fixed, shrunken, limited, probes, propfixed, uip, passed>>
ProbeOthers == <<clause_id, occs, ternary, marked, last, calls, round, budget, idx, pairs, derived,
  aborted, lit, i, marks, src, dst, bits, fixed, schedule, shrunken, limited, order, redundant_mode,
  cand, sorted, subsume, remove, learned, passed>>
TreeOthers == <<clause_id, occs, ternary, marked, last, calls, round, budget, idx, pairs, derived,
  aborted, lit, i, marks, src, dst, bits, fixed, schedule, shrunken, limited, order, redundant_mode,
  cand, sorted, subsume, remove, learned, passed>>

vars == <<technique, original, clauses, clause_id, occs, ternary, marked, last, pc, calls, round,
  budget, idx, pairs, derived, aborted, units, unsat, lit, i, marks, src, dst, work, bits, fixed,
  rounds, schedule, shrunken, limited, order, redundant_mode, trail, cand, sorted, subsume, remove,
  learned, probes, propfixed, uip, passed>>

Init ==
  \/ /\ technique = "ternary" /\ Ternary!Init
     /\ units = 0 /\ unsat = 0 /\ lit = 0 /\ i = 0 /\ marks = 0 /\ src = 0 /\ dst = 0 /\ work = 0
     /\ bits = 0 /\ fixed = 0 /\ rounds = 0 /\ schedule = 0 /\ shrunken = 0 /\ limited = 0
     /\ order = 0 /\ redundant_mode = 0 /\ trail = 0 /\ cand = 0 /\ sorted = 0 /\ subsume = 0
     /\ remove = 0 /\ learned = 0 /\ probes = 0 /\ propfixed = 0 /\ uip = 0 /\ passed = 0
  \/ /\ technique = "binaries" /\ Binaries!Init
     /\ clause_id = 0 /\ occs = 0 /\ ternary = 0 /\ marked = 0 /\ last = 0 /\ round = 0
     /\ budget = 0 /\ idx = 0 /\ pairs = 0 /\ derived = 0 /\ aborted = 0 /\ bits = 0 /\ fixed = 0
     /\ rounds = 0 /\ schedule = 0 /\ shrunken = 0 /\ limited = 0 /\ order = 0 /\ redundant_mode = 0
     /\ trail = 0 /\ cand = 0 /\ sorted = 0 /\ subsume = 0 /\ remove = 0 /\ learned = 0
     /\ probes = 0 /\ propfixed = 0 /\ uip = 0 /\ passed = 0
  \/ /\ technique = "subsume" /\ Subsume!Init
     /\ clause_id = 0 /\ ternary = 0 /\ marked = 0 /\ last = 0 /\ calls = 0 /\ round = 0
     /\ budget = 0 /\ idx = 0 /\ pairs = 0 /\ derived = 0 /\ aborted = 0 /\ units = 0 /\ unsat = 0
     /\ lit = 0 /\ i = 0 /\ marks = 0 /\ src = 0 /\ dst = 0 /\ work = 0 /\ order = 0
     /\ redundant_mode = 0 /\ trail = 0 /\ cand = 0 /\ sorted = 0 /\ subsume = 0 /\ remove = 0
     /\ learned = 0 /\ probes = 0 /\ propfixed = 0 /\ uip = 0
  \/ /\ technique = "vivify" /\ Vivify!Init
     /\ clause_id = 0 /\ occs = 0 /\ ternary = 0 /\ marked = 0 /\ last = 0 /\ calls = 0 /\ round = 0
     /\ budget = 0 /\ idx = 0 /\ pairs = 0 /\ derived = 0 /\ aborted = 0 /\ lit = 0 /\ i = 0
     /\ marks = 0 /\ src = 0 /\ dst = 0 /\ work = 0 /\ bits = 0 /\ fixed = 0 /\ shrunken = 0
     /\ limited = 0 /\ probes = 0 /\ propfixed = 0 /\ uip = 0 /\ passed = 0
  \/ /\ technique = "probe" /\ Probe!Init
     /\ clause_id = 0 /\ occs = 0 /\ ternary = 0 /\ marked = 0 /\ last = 0 /\ calls = 0 /\ round = 0
     /\ budget = 0 /\ idx = 0 /\ pairs = 0 /\ derived = 0 /\ aborted = 0 /\ lit = 0 /\ i = 0
     /\ marks = 0 /\ src = 0 /\ dst = 0 /\ bits = 0 /\ fixed = 0 /\ schedule = 0 /\ shrunken = 0
     /\ limited = 0 /\ order = 0 /\ redundant_mode = 0 /\ cand = 0 /\ sorted = 0 /\ subsume = 0
     /\ remove = 0 /\ learned = 0 /\ passed = 0
  \/ /\ technique = "tree" /\ Tree!Init
     /\ clause_id = 0 /\ occs = 0 /\ ternary = 0 /\ marked = 0 /\ last = 0 /\ calls = 0 /\ round = 0
     /\ budget = 0 /\ idx = 0 /\ pairs = 0 /\ derived = 0 /\ aborted = 0 /\ lit = 0 /\ i = 0
     /\ marks = 0 /\ src = 0 /\ dst = 0 /\ bits = 0 /\ fixed = 0 /\ schedule = 0 /\ shrunken = 0
     /\ limited = 0 /\ order = 0 /\ redundant_mode = 0 /\ cand = 0 /\ sorted = 0 /\ subsume = 0
     /\ remove = 0 /\ learned = 0 /\ passed = 0

TernaryStep == technique = "ternary" /\ Ternary!Next /\ UNCHANGED <<technique, TernaryOthers>>
BinariesStep == technique = "binaries" /\ Binaries!Next /\ UNCHANGED <<technique, BinariesOthers>>
SubsumeStep == technique = "subsume" /\ Subsume!Next /\ UNCHANGED <<technique, SubsumeOthers>>
VivifyStep == technique = "vivify" /\ Vivify!Next /\ UNCHANGED <<technique, VivifyOthers>>
ProbeStep == technique = "probe" /\ Probe!Next /\ UNCHANGED <<technique, ProbeOthers>>
TreeStep == technique = "tree" /\ Tree!Next /\ UNCHANGED <<technique, TreeOthers>>

Next == TernaryStep \/ BinariesStep \/ SubsumeStep \/ VivifyStep \/ ProbeStep \/ TreeStep

Spec == Init /\ [][Next]_vars

-----------------------------------------------------------------------------
On(name, P) == technique = name => P


\* Nothing is invented and nothing lost, in the middle of a technique too: resolvents,
\* strengthened clauses and units follow from the formula, and no irredundant clause is
\* given up for a redundant one, which the next reduction may delete (ternary.cpp,
\* deduplicate.cpp, transred.cpp, subsume.cpp, vivify.cpp, probe.cpp).
DatabaseSound ==
  /\ On("ternary", Ternary!TypeOK /\ Ternary!DatabaseImplied /\ Ternary!NothingLost)
  /\ On("binaries", Binaries!TypeOK /\ Binaries!UnitsImplied /\ Binaries!NothingLost)
  /\ On("subsume", Subsume!TypeOK /\ Subsume!DatabaseImplied /\ Subsume!NothingLost)
  /\ On("vivify", Vivify!TypeOK /\ Vivify!DatabaseImplied /\ Vivify!NothingLost)
  /\ On("probe", Probe!TypeOK /\ Probe!DatabaseImplied /\ Probe!NothingLost)
  /\ On("tree", Tree!TypeOK /\ Tree!DatabaseImplied)

\* The flags that save work miss nothing over several rounds and calls: without a limit, all
\* short resolvents on unmarked variables are there or subsumed (ternary.cpp); a binary
\* clause with the flag transred is not transitive (transred.cpp); a clause that another one
\* subsumes or strengthens will be looked at (subsume.cpp); a probe that is skipped because
\* of propfixed does not fail (probe.cpp).
NothingMissed ==
  /\ On("ternary", Ternary!Saturated) /\ On("binaries", Binaries!Reduced)
  /\ On("subsume", Subsume!Complete)
  /\ On("probe", Probe!SkippedSound) /\ On("tree", Tree!SkippedSound)

\* What is kept on the trail is still justified: decisions that vivification reuses for the
\* next candidate rest on clauses that are there, and not on the candidate (vivify.cpp); a
\* probed literal follows from its dominating parent alone, and a failed one refutes all its
\* ancestors (probe.cpp).
StillJustified ==
  /\ On("vivify", Vivify!ReasonsKept)
  /\ On("probe", Probe!ParentImplies /\ Probe!AncestorsFalse)
  /\ On("tree", Tree!ParentImplies)
=============================================================================
