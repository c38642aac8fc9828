------------------------------ MODULE MCSearch ------------------------------
(***************************************************************************)
(* The search of CaDiCaL: propagation over watch lists, conflict analysis, *)
(* assumptions with a constraint, and the lucky phases tried before it.    *)
(* The initial state chooses a part and a formula.                         *)
(***************************************************************************)
EXTENDS Integers, FiniteSets, SequencesExt

VARIABLES
  part,                        \* the part of the search
  formula, chrono, clauses, watches, trail, level, control, propagated, propergated, conflict,
  unsat, sat, calls, opts, pc, conflict_size, resolved, at, seen, levels, root, vals, saved,
  strategy, pos, res, lrat, assumptions, eassumptions, constraint, econstraint, unsat_constraint,
  marked_failed, failed, conclusion, state, solves, added

\* Propagation: clauses of two to four literals over four variables.
WatchedFormulas ==
  {<<<<1, 2, 3, 4>>, <<-1, -2, 3>>, <<-3, -4>>>>,
   <<<<1, 2>>, <<-1, 2>>, <<-2, 3, 4>>, <<-3, 1, 4>>, <<-3, -1, -2>>>>,
   <<<<1, 2>>, <<-1, 2>>, <<1, -2, 3>>, <<-1, -2, 3>>, <<-3, -2>>>>}

\* Conflict analysis: conflicts over several levels.
Irredundant(s) == [n \in DOMAIN s |-> [lits |-> s[n], red |-> FALSE]]
Bases ==
  {<<{1, 2, 3}, {1, 2, -3}, {1, -2, 4}, {1, -2, -4, 3}>>,
   <<{1, 2}, {2, 3, 4}, {1, 3, -4, 5}, {4, -2, 5}>>,
   <<{1, -2}, {1, 2, -3}, {3, 2, 4}, {3, -4, 1}>>}

\* Four clauses refute the first variable, two the second; in the other formula
\* a unit learned late refutes a decision of a lower level; a block that cannot be
\* shrunken; a redundant clause that subsumes an irredundant one when strengthened.
Special ==
  {Irredundant(<<{1, 2}, {1, -2, 3}, {1, -3, -2}, {-1, 3, 2}, {-1, -3, 2}, {-2, -1}>>),
   Irredundant(<<{3, 4}, {3, -4}, {-3, 1}, {-3, 5}, {-1, -5, 2}>>),
   Irredundant(<<{1, 2, 3}, {4, 2, 5}, {4, -3, -5}>>),
   Append(Irredundant(<<{1, 2, 4}, {1, 2, -4, 3}, {1, 2, -3}>>), [lits |-> {1, 2, 3}, red |-> TRUE])}
AnalyzeFormulas ==
  {Irredundant(b \o <<C, {5, 1, 4, 2}>>) : b \in Bases, C \in {{-1, 2}, {-1, -2}}} \cup Special
Switches(chrono_on, s) == [chrono |-> chrono_on, otfs |-> TRUE, minimize |-> TRUE, shrink |-> s]
AnalyzeOptions == {Switches(FALSE, 0), Switches(FALSE, 3), Switches(TRUE, 1), Switches(TRUE, 3)}

\* Lucky phases: all formulas with clauses from a pool, a redundant or a
\* garbage clause, and units of the root level.
LuckyPool ==
  <<{1, 2}, {-1, -2}, {-1, 2}, {2, 3}, {-2, -3}, {-1, -2, -3}, {1, -2, 3}, {-1, 3}>>
LuckyClause(lits, red, garbage) == [lits |-> lits, red |-> red, garbage |-> garbage]
LuckyIrredundants(F) ==
  LET s == SelectSeq(LuckyPool, LAMBDA C : C \in F)
  IN  [n \in DOMAIN s |-> LuckyClause(s[n], FALSE, FALSE)]
LuckyFormulas ==
  {LuckyIrredundants(F) \o extra :
     F \in SUBSET {LuckyPool[n] : n \in DOMAIN LuckyPool},
     extra \in {<<>>, <<LuckyClause({1, 3}, TRUE, FALSE)>>, <<LuckyClause({-1, -3}, FALSE, TRUE)>>}}

\* Four variables: clauses that contradict an assumption on a low level once they
\* are added, and that make a literal of the constraint false.
AssumeFormulas == {{{-1, -2, -4}, {1, 3}, {-3, 4}, {-2, -4, 3}}, {{1, 4}, {-1, 4}, {2, 3}}}
AssumeAddable == {{-1, -4}, {-2, 4}, {-4}}
AssumeConstraints == {<<4, -1>>, <<4, 2, 4>>, <<4>>}

\* Four assumptions, three of them decided by the first call.
ReuseFormulas == {{{1, 2, 3, 4}}}
ReuseAddable == {{-1, -4}, {-2, -4}}

Watches == INSTANCE Watches WITH
  Vars <- 1..4, Formulas <- WatchedFormulas, Options <- {0, 1, 2}, Decidable <- {-1, -2, -3, 1},
  MaxLearned <- 1, MaxCalls <- 2
Analyze == INSTANCE Analyze WITH
  Vars <- 1..5, Formulas <- AnalyzeFormulas, Options <- AnalyzeOptions, Decidable <- {-1, -2, -3, -4, -5},
  MaxLearned <- 3
Finish == INSTANCE Analyze WITH
  Vars <- 1..5, Formulas <- Special, Options <- AnalyzeOptions, Decidable <- {-1, -2, -3, -4, -5},
  MaxLearned <- 10
Assuming == INSTANCE Assume WITH
  Vars <- 1..4, Formulas <- AssumeFormulas, Addable <- AssumeAddable, Constraints <- AssumeConstraints,
  Assumable <- 1..4, Decidable <- {-2, 3}, MaxAssumptions <- 2, MaxSolves <- 2, MaxAdded <- 1,
  Resetting <- TRUE
Concluding == INSTANCE Assume WITH
  Vars <- 1..4, Formulas <- AssumeFormulas, Addable <- AssumeAddable, Constraints <- AssumeConstraints,
  Assumable <- {1, 2}, Decidable <- {-4}, MaxAssumptions <- 2, MaxSolves <- 2, MaxAdded <- 1,
  Resetting <- FALSE
Reusing == INSTANCE Assume WITH
  Vars <- 1..4, Formulas <- ReuseFormulas, Addable <- ReuseAddable, Constraints <- {},
  Assumable <- 1..4, Decidable <- {}, MaxAssumptions <- 4, MaxSolves <- 2, MaxAdded <- 1,
  Resetting <- FALSE
Lucky == INSTANCE Lucky WITH Vars <- 1..3, Formulas <- LuckyFormulas, RootUnits <- {{}, {-2}, {3}}

ASSUME ConstantsAssumption == /\ Watches!OptionsAssumption /\ Analyze!OptionsAssumption
  /\ Finish!OptionsAssumption /\ Assuming!BoundsAssumption /\ Concluding!BoundsAssumption
  /\ Reusing!BoundsAssumption

\* Variables of the other parts, which stay 0.
WatchesOthers == <<opts, pc, conflict_size, resolved, at, seen, levels, root, vals, saved, strategy,
  pos, res, lrat, assumptions, eassumptions, constraint, econstraint, unsat_constraint, marked_failed,
  failed, conclusion, state, solves, added>>
AnalyzeOthers == <<chrono, watches, level, propagated, propergated, sat, calls, root, vals, saved,
  strategy, pos, res, lrat, assumptions, eassumptions, constraint, econstraint, unsat_constraint,
  marked_failed, failed, conclusion, state, solves, added>>
LuckyOthers == <<formula, chrono, watches, trail, control, propagated, propergated, unsat, sat, calls,
  opts, pc, conflict_size, resolved, at, seen, levels, lrat, assumptions, eassumptions, constraint,
  econstraint, unsat_constraint, marked_failed, failed, conclusion, state, solves, added>>
AssumeOthers == <<chrono, clauses, watches, level, propagated, propergated, conflict, sat, calls, opts,
  pc, conflict_size, resolved, at, seen, levels, root, vals, saved, strategy, pos, res>>

vars == <<part, formula, chrono, clauses, watches, trail, level, control, propagated, propergated,
  conflict, unsat, sat, calls, opts, pc, conflict_size, resolved, at, seen, levels, root, vals, saved,
  strategy, pos, res, lrat, assumptions, eassumptions, constraint, econstraint, unsat_constraint,
  marked_failed, failed, conclusion, state, solves, added>>

Init ==
  \/ /\ part = "propagate" /\ Watches!Init
     /\ opts = 0 /\ pc = 0 /\ conflict_size = 0 /\ resolved = 0 /\ at = 0 /\ seen = 0 /\ levels = 0
     /\ root = 0 /\ vals = 0 /\ saved = 0 /\ strategy = 0 /\ pos = 0 /\ res = 0 /\ lrat = 0
     /\ assumptions = 0 /\ eassumptions = 0 /\ constraint = 0 /\ econstraint = 0
     /\ unsat_constraint = 0 /\ marked_failed = 0 /\ failed = 0 /\ conclusion = 0 /\ state = 0
     /\ solves = 0 /\ added = 0
  \/ /\ \/ part = "analyze" /\ Analyze!Init
        \/ part = "finish" /\ Finish!Init
     /\ chrono = 0 /\ watches = 0 /\ level = 0 /\ propagated = 0 /\ propergated = 0 /\ sat = 0
     /\ calls = 0 /\ root = 0 /\ vals = 0 /\ saved = 0 /\ strategy = 0 /\ pos = 0 /\ res = 0
     /\ lrat = 0 /\ assumptions = 0 /\ eassumptions = 0 /\ constraint = 0 /\ econstraint = 0
     /\ unsat_constraint = 0 /\ marked_failed = 0 /\ failed = 0 /\ conclusion = 0 /\ state = 0
     /\ solves = 0 /\ added = 0
  \/ /\ \/ part = "assume" /\ Assuming!Init
        \/ part = "conclude" /\ Concluding!Init
        \/ part = "reuse" /\ Reusing!Init
     /\ chrono = 0 /\ clauses = 0 /\ watches = 0 /\ level = 0 /\ propagated = 0 /\ propergated = 0
     /\ conflict = 0 /\ sat = 0 /\ calls = 0 /\ opts = 0 /\ pc = 0 /\ conflict_size = 0
     /\ resolved = 0 /\ at = 0 /\ seen = 0 /\ levels = 0 /\ root = 0 /\ vals = 0 /\ saved = 0
     /\ strategy = 0 /\ pos = 0 /\ res = 0
  \/ /\ part = "lucky" /\ Lucky!Init
     /\ formula = 0 /\ chrono = 0 /\ watches = 0 /\ trail = 0 /\ control = 0 /\ propagated = 0
     /\ propergated = 0 /\ unsat = 0 /\ sat = 0 /\ calls = 0 /\ opts = 0 /\ pc = 0
     /\ conflict_size = 0 /\ resolved = 0 /\ at = 0 /\ seen = 0 /\ levels = 0 /\ lrat = 0
     /\ assumptions = 0 /\ eassumptions = 0 /\ constraint = 0 /\ econstraint = 0
     /\ unsat_constraint = 0 /\ marked_failed = 0 /\ failed = 0 /\ conclusion = 0 /\ state = 0
     /\ solves = 0 /\ added = 0

WatchesStep == part = "propagate" /\ Watches!Next /\ UNCHANGED <<part, WatchesOthers>>
AnalyzeStep == part = "analyze" /\ Analyze!Next /\ UNCHANGED <<part, AnalyzeOthers>>
FinishStep == part = "finish" /\ Finish!Next /\ UNCHANGED <<part, AnalyzeOthers>>
AssumeStep == part = "assume" /\ Assuming!Next /\ UNCHANGED <<part, AssumeOthers>>
ConcludeStep == part = "conclude" /\ Concluding!Next /\ UNCHANGED <<part, AssumeOthers>>
ReuseStep == part = "reuse" /\ Reusing!Next /\ UNCHANGED <<part, AssumeOthers>>
LuckyStep == part = "lucky" /\ Lucky!Next /\ UNCHANGED <<part, LuckyOthers>>

Next ==
  \/ WatchesStep \/ AnalyzeStep \/ FinishStep \/ LuckyStep
  \/ AssumeStep \/ ConcludeStep \/ ReuseStep

Spec == Init /\ [][Next]_vars /\ WF_vars(FinishStep)

-----------------------------------------------------------------------------
On(name, P) == part = name => P


\* Without a conflict propagation leaves no clause unit or false, whatever was assigned,
\* flipped or unassigned before.  It stays so when backtracking touches no watch: a clause
\* is in the watch lists of its first two literals only, and a false watch goes with a true
\* literal that is not unassigned before it, chronological backtracking included
\* (propagate.cpp, backtrack.cpp, flip.cpp).
PropagationComplete ==
  On("propagate", /\ Watches!TypeOK /\ Watches!WatchesExact
                  /\ Watches!PropagationComplete /\ Watches!WatchesStable)

\* Whatever is learned, minimized, shrunken or strengthened on the fly follows from the
\* formula, and irredundant clauses are only dropped for irredundant ones that imply them
\* (analyze.cpp, minimize.cpp, shrink.cpp).
DatabaseSound ==
  /\ On("analyze", Analyze!TypeOK /\ Analyze!DatabaseImplied /\ Analyze!NothingLost)
  /\ On("finish", Finish!TypeOK)

\* A reason forces its literal by literals assigned before and of no higher level, although
\* reasons are strengthened and subsumed during the analysis; a literal assigned out of order
\* follows from the decisions up to its level; the levels kept for the glue are those of the
\* clause (analyze.cpp, propagate.cpp, backtrack.cpp).
ReasonsValid ==
  /\ On("analyze", Analyze!ReasonsValid /\ Analyze!GlueExact)
  /\ On("propagate", Watches!LevelsSound)

\* What is called a model is one: after any number of flips (flip.cpp), and when a lucky
\* strategy succeeds, which does not check it; one that does not leaves the solver as it was,
\* and a formula that one truth value satisfies is not missed (lucky.cpp).  Under assumptions
\* and a constraint the answer is about exactly these: a trail kept from the call before has
\* the assumptions true on levels no higher than their number, decide moves the literals of
\* the constraint without losing one, a model satisfies all of it, failed assumptions suffice,
\* and the clauses that conclude the proof are there and follow (assume.cpp, decide.cpp).
AnswersRight ==
  /\ On("propagate", Watches!FlipsKeepModel)
  /\ On("lucky", Lucky!TypeOK /\ Lucky!LuckyModel /\ Lucky!UnluckyRestored /\ Lucky!ConstantFound)
  /\ On("assume", /\ Assuming!TypeOK /\ Assuming!AssumptionsHeld /\ Assuming!ConstraintKept
                  /\ Assuming!SatisfiesQuery /\ Assuming!QueryUnsatisfiable
                  /\ Assuming!CoreSufficient /\ Assuming!ConclusionImplied)
  /\ On("conclude", Concluding!ConclusionComplete)
  /\ On("reuse", Reusing!AssumptionsHeld)

\* The search comes to an end, with every option.
Termination == <>[]On("finish", Finish!Ended)
=============================================================================
