# Verification of serialisation-solver

serialisation-solver reads an abstract argumentation framework (arguments and
attacks between them) and prints serialisation sequences: sequences of initial
sets, each one an initial set of what the sets before it leave over (the
*reduct*).  It finds initial sets with the SAT solver CaDiCaL 1.9.5, which the
repository vendors under `lib/` and builds.  This directory holds TLA+ modules
for the program's own code (`src/*.cpp`, `include/*.h`) and for the core of
CaDiCaL, TLC configurations that check them on small instances, and proofs
checked by TLAPS.  Paths below are relative to the repository.

## The system

| part | state | operations | depends on |
|---|---|---|---|
| framework `AF` (`src/AF.cpp`, `include/AF.h`) | number of arguments, attackers and attacked lists | `set_arguments`, `add_attack`, variable numbering `accepted_var`, `rejected_var` | - |
| `IterableBitSet`, `get_reduct`, `get_cone` (`include/IterableBitSet.h`, `include/Algorithms.h`) | a set of arguments kept twice: `_array` for iteration, `_bitset` for membership | `get_reduct` removes a set and what it attacks (`get_cone` has no caller) | `AF` |
| SAT encoding (`src/Encodings.cpp`) | - | `admissible_nonempty` writes the clauses for one call | `AF`, `IterableBitSet`, wrapper |
| SAT wrapper (`src/CadicalSatSolver.cpp`) | CaDiCaL's clauses and pending assumptions, the last model | `add_clause*`, `assume`, `solve` | CaDiCaL |
| initial sets (`src/EE-IT.cpp`) | one solver, the model being shrunk, the result | `enumerate_initial` | encoding, wrapper |
| sequence searches (`src/ES-*.cpp`, `src/AS-AD.cpp`) | the C++ call stack: active arguments, sequence, loop position, flags | `enumerate_sequences_*`, `sequences_argument_admissible` | `enumerate_initial`, `get_reduct`, printing |
| i23 parser (`src/Parse.cpp`) | line variables, the framework under construction | `parse_i23` | `AF` |
| command line (`src/Main.cpp`) | options | `main`: options, dispatch, exit status | everything |
| CaDiCaL, what its user sees (`solver.cpp`, `external.cpp`, `restore.cpp`, `extend.cpp`, `assume.cpp`, `constrain.cpp`) | API state, the user's clauses, assumptions and constraint, extension stack | add, assume, constrain, solve, val, failed, flip | the search and the simplifiers |
| CaDiCaL, search (`propagate.cpp`, `backtrack.cpp`, `analyze.cpp`, `minimize.cpp`, `shrink.cpp`, `decide.cpp`, `lucky.cpp`) | trail, watch lists, learned clauses | propagate, analyze, backtrack | clause memory |
| CaDiCaL, simplifiers (`elim.cpp`, `block.cpp`, `cover.cpp`, `condition.cpp`, `decompose.cpp`, `ternary.cpp`, `subsume.cpp`, `vivify.cpp`, `probe.cpp`, `transred.cpp`, `deduplicate.cpp`) | the clause database, flags that remember what was tried | one phase each, with limits | extension stack, proof |
| CaDiCaL, memory (`compact.cpp`, `collect.cpp`, `reduce.cpp`, `arena.cpp`, `clause.cpp`, `queue.hpp`) | variables, clauses and everything that points to them | compact, reduce, collect, move | - |
| CaDiCaL, proofs (`proof.cpp`, `checker.cpp`, `lratbuilder.cpp`, `lratchecker.cpp`) | the clauses as the proof knows them | add original, add derived, delete, weaken, restore, conclude | - |

The program itself is one thread in one process.  What makes it hard is not
concurrency but

* a nondeterministic partner: the SAT solver may return any model, in any order,
  and the loops around it must return the same sets for all of them;
* state of the solver object that outlives a call: clauses for ever,
  assumptions until the next solve, the wrapper's model until the next
  *satisfiable* solve;
* one set in two representations that `get_reduct` updates separately;
* recursion over all orders of choices that prints on the way out;
* `while (true)` and recursion that end only by an argument about the data;
* in CaDiCaL, clauses that are removed although they are not implied and have to
  come back, in the right order, when the user says more; flags and caches that
  survive a phase which a limit has cut short; pointers into memory that moves;
  and `terminate`, which comes from another thread.

What makes each part correct:

* parser: a well-formed file becomes exactly the framework it states, the two
  adjacency lists mirror each other, nothing left over from another line enters;
* `IterableBitSet`, `get_reduct`: array and bitset describe the same set, the
  reduct by everything chosen so far (the array does, the bitset does not);
* encoding: its models are the non-empty admissible sets of the active arguments;
* wrapper: clauses accumulate, assumptions last for one solve, the model is that
  of the last satisfiable solve;
* `enumerate_initial`: all initial sets, each once, for every order of models;
* searches: end, print each sequence of their semantics once and nothing else;
* command line: an exit status of 0 exactly when the requested task was done;
* CaDiCaL: an answer is right for what the user has said up to now; what is
  removed can be repaired in every model that is found; what is learned or
  strengthened is implied; nothing points to memory that is gone; the proof
  checkers accept what is right and nothing else.

## Modules

### The program

The first part of `Argumentation` is the yardstick and models no code except that
the relation `R` stands for the two adjacency lists of `AF`: admissible and
initial sets, reduct, serialisation sequences, the classical semantics (defined
without sequences).

Its second part has `IterableBitSet` as a record of two sets and `get_reduct` line
by line: arguments are marked in a fresh bitset and the bit is flipped only for
members of the old array, so a marked argument outside the array keeps its bit.
Such bits are called *phantoms*.  It also has the clauses of
`admissible_nonempty` over integer literals with the `uint32_t` to `int32_t`
conversion of the variable numbers, and `EncodedAdmissible`, the sets these
clauses describe, phantoms included.

`EnumerateInitial` is one call of `enumerate_initial`: an action for each early
return, each answer of `solve` in each loop, and for the block that assumes and
adds the blocking clause.  `SolveUnknown` is the wrapper's `exit(1)`.  The
wrapper `CadicalSatSolver` is a record with one operator per method;
`transition_to_steady_state` is CaDiCaL's (`lib/cadical-1.9.5/src/solver.cpp`):
any call that follows a solve drops the assumptions of that solve.  The CDCL
search is a choice among the satisfying assignments (`Solutions`).

`Serialisation` is the searches.  A record of `stack` is one activation;
`Enter` reaches the loop (with the result of `enumerate_initial`), `Skip` is
`continue`, `Descend` extends the sequence and recurses, `Return` prints or not
and returns.  Each search has its own actions with the code's guards.
`enumerate_initial` is one step, `EncodedInitialSets`: that this is what the
call computes is what `EnumerateInitial` shows.  The order of its
result is the order in which pending sets are picked, so every order is
explored.

`Parse` is `parse_i23`, one action per kind of line.  A line is a kind and its
numbers; `Extract` is the stream's `>>`, which writes nothing once the stream has
failed or is at its end and 0 where there is no number.  Uninitialised
variables start with any value of `Garbage`, a write outside a list ends in
`undefined`, and a file that opens but cannot be read (a directory) never reaches
`eof()`.  For a well-formed file it ends in what `AllActive` of `Argumentation` starts the
searches with.

`Main` is `main`: one action per kind of option in the getopt loop, then the
flags in the order in which they are looked at, the outcome of the parser, the
dispatch, the conversion of the query (`std::stoi` and the `uint32_t`
subtraction), and how the process ends.

`Enumeration` is the abstract specification that `EnumerateInitial` and
`Serialisation` implement: elements of a target set are delivered one new
element at a time, and the enumeration completes only when all have been
delivered.

### CaDiCaL

`Clauses` is the yardstick: models, implication, resolution, unit propagation as
a fix-point; the extension stack with `External::extend`; and the contract
`Weakens` of a technique that removes clauses.

| module | code | state and actions |
|---|---|---|
| `SolverAPI` | `solver.cpp`, states of `Solver` | one action per API function; a solve is start, answer, `reset_solving`, return, with `terminate` from another thread between any two |
| `Incremental` | `external.cpp`, `restore.cpp`, `extend.cpp`, `flip.cpp` | clauses, extension stack, taint bits over several solves; simplifiers appear by what they owe: entries and chains of entries that satisfy `Weakens`, and any number of implied clauses, redundant or not |
| `Assume` | `assume.cpp`, `constrain.cpp`, `decide.cpp`, `restart.cpp` | assumptions decided one level each, the trail kept between calls, cores and concluding clauses |
| `Elim`, `Block`, `Cover`, `Condition`, `Decompose` | `elim.cpp` with `gates.cpp`, `backward.cpp`, `instantiate.cpp`; `block.cpp`; `cover.cpp`; `condition.cpp`; `decompose.cpp` | techniques that need the extension stack, one phase after another, with limits |
| `Ternary`, `Binaries`, `Subsume`, `Vivify`, `Probe` | `ternary.cpp`; `deduplicate.cpp`, `transred.cpp`; `subsume.cpp`; `vivify.cpp`; `probe.cpp` | techniques that keep the models, with the flags that decide what is tried next time |
| `Watches` | `propagate.cpp`, `backtrack.cpp`, `watch.hpp`, `flip.cpp` | two watched literals with blocking literals on a trail that need not be sorted by level |
| `Analyze` | `analyze.cpp`, `minimize.cpp`, `shrink.cpp` | one resolution a step, minimization and shrinking as the code orders them |
| `Lucky` | `lucky.cpp` | the eight strategies, each leaving the solver as it was unless it succeeds |
| `Compact` | `compact.cpp`, `external.cpp`, `flags.cpp`, `queue.hpp` | the map between the user's and the solver's variables through compacting and reactivation |
| `Collect` | `reduce.cpp`, `collect.cpp`, `arena.cpp`, `clause.cpp` | clauses at addresses, and watches, occurrences and reasons that point to them |
| `Checker` | `checker.cpp` | the forward checker with its hash table and watches |
| `Proof`, `LratChecker`, `Chains` | `lratbuilder.cpp`, `lratchecker.cpp`, `proof.cpp` | builder (in `Proof`) and checker as records with an operator per function; `Proof` drives both with the calls of a correct solver, `Chains` the checker alone with calls that may be wrong |

### Model checking modules

`MCEnumerateInitial` and `MCSerialisation` extend their component; `MCInterface`
extends `SolverAPI` and `Incremental`, `MCProof` extends `Chains`, and properties that
a theorem states there are the component's own.  The
`MC*` modules of more than one component put several components side by side: each is an instance, a
variable (`part` or `technique`) that the initial state chooses says which one
runs, and the variables of the others stay as they are.  `On(name, P)` says `P` of the
states in which that component runs, so that one property is asked of every
component it means something for: `DatabaseSound` is the conjunction of what each
technique states about its clauses (`DatabaseImplied`, `NothingLost`,
`ModelsExtend`, ...).  Components with the same variable share it.  Their
constants are operators of the MC module; it has the `ASSUME`s of its instances,
which name the assumptions of the components (`Block!FormulasAssumption`, ...).

Operators with a comment `Mutant:` are faulty variants of the operator below
them; no specification uses them.  They record which fault each property finds.

### Proof modules

`ArgumentationProofs` has the lemmas about frameworks, sequences and the encoding
that `EnumerateInitialProofs` and `SerialisationProofs` share.
`ProgramProofs` extends `MCProgram`, whose `Spec` composes parser and `main` for any
files and command lines.  `InterfaceProofs` extends `SolverAPI` and `Incremental`,
`WeakenProofs` extends `Cover` and instantiates `Condition`, `BlockProofs` and
`ChainsProofs` extend the module they are named after.

## Runs

| run | instance | what it shows |
|---|---|---|
| `initial_all` | `enumerate_initial` with 5 arguments: every framework of 3 arguments up to renaming and every active set a search reaches by up to 3 choices, 16 frameworks on a circle of 4, 64 with a phantom; the solver may give up | the clauses mean exactly `EncodedAdmissible` (`EncodingExact`); exactly the initial sets come out, each once (`InitialSetsExact`); the call implements `Enumeration` (`ImplementsEnumeration`); the nested loops end (`Terminates`) |
| `search_all` | all tasks and queries on frameworks of 4 arguments without re-attack | types (`TypeOK`); searches print nothing twice (`NeverReprinted`), print exactly the sequences of their semantics (`ImplementsEnumeration`), the unions are the classical extensions (`ExtensionsExact`), and they end (`Terminates`) |
| `search_reattack` | 5 arguments, frameworks in which a re-attack happens | what stays true with phantoms: the array is the reduct (`ActiveIsReduct`), sequences are never attacked from the front (`ForwardConsistent`), ES-SA/ES-GR are sound (`StrongSound`), sequences without re-attack are sound (`SoundUnlessReattack`) |
| `search_finding` | the chain 1→3, 2→3, 3→4, 4→5 | violated: ES-AD prints sequences that are not serialisation sequences |
| `program_all` | files of up to 3 lines over the numbers 0, 1, 2 and a word; command lines of up to 3 options out of 30 | a well-formed file is read exactly (`WellFormedExact`); with one header the lists mirror each other, and stale variables only repeat numbers of the file (`Mirrored`, with `NoGarbage`); options mean the same in every order and a query of 0 reaches no argument (`OrderIrrelevant`, with `WrappedQueryHarmless`); exit status 0 exactly with a complete answer (`SuccessMeansAnswer`); all of it ends unless the file is unreadable (`Terminates`) |
| `program_tgf` | two TGF files as in `examples/` | violated: the parser indexes empty lists |
| `interface_all` | the API over 3 variables, 1 clause of up to 2 literals, 1 assumption; incremental solving over 3 variables with 3 clauses from the user (two binary ones with a binary resolvent, a unit), 3 derived clauses, chains of up to 2 entries, 2 stack entries, 2 solves, `restoreall` at 0 and 2, `restoreflush` on and off | an answer that may be read is right for what the user has said (`AnswerCurrent`); restrictions last for one solve (`QueryFresh`); a search stops without an answer only for a request made after the previous search had stopped (`StoppedOnRequest`); restoring is complete (`RestoreComplete`), and after any number of solves a model satisfies, and UNSATISFIED refutes, the clauses ever added (`AnswerOfOriginal`: `ModelOfOriginal`, `UnsatOfOriginal`) |
| `eliminate_all` | elimination of 3 variables, gates of all kinds over 4, blocked clauses over several runs, covered clauses, conditioning over 5, substitution | what is added follows and what is removed is repaired by the extension stack, in the middle of a phase too (`DatabaseSound`: `DatabaseImplied`, `ModelsExtend`); every single removal keeps to the contract of the stack (`WeakenContract`); fix-points are what they are for (`FixPointsExact`: the bits that schedule literals miss nothing, `BlockComplete`; `ConditionalAutarky`, `ComponentsExact`) |
| `strengthen_all` | ternary resolution, binary clauses, subsumption (over 5 variables, clauses of 5 literals above its limit), vivification, probing over 2 to 4 rounds with limits | nothing invented, nothing lost (`DatabaseSound`), the flags that save work miss nothing (`NothingMissed`: `Saturated`, `Reduced`, `Complete`, `SkippedSound`), and what is reused between candidates is still justified (`StillJustified`: `ReasonsKept`, `ParentImplies`, `AncestorsFalse`) |
| `kernel_all` | watch lists over 4 variables with every backtracking option, conflict analysis over 5, lucky phases over 3, assumptions and constraint over 4 in 2 solves | watches stay exact and propagation complete over backtracking (`PropagationComplete`, with `WatchesExact`, `WatchesStable`), what is learned is implied (`DatabaseSound`), reasons and levels stay right while clauses are strengthened (`ReasonsValid`, with `GlueExact`, `LevelsSound`), answers are right (`AnswersRight`: flips and lucky phases give models and leave no trace otherwise, `FlipsKeepModel`, `LuckyModel`, `UnluckyRestored`, `ConstantFound`; a reused trail agrees with the query, cores and concluding clauses suffice and follow, `AssumptionsHeld`, `ConstraintKept`, `SatisfiesQuery`, `QueryUnsatisfiable`, `CoreSufficient`, `ConclusionImplied`, `ConclusionComplete`), and the search ends (`Termination`) |
| `memory_all` | two compactings of 3 variables; two collections among clauses over 3 variables, in each arena order | neither user nor search notices compacting and collecting (`UserUnaware`: `ValuesKept`, `ClausesKept`, `DecisionsKept`, `QueryKept`, ...), nothing points to freed memory (`NoDangling`), counters and the arena are exact afterwards (`CountsExact`) |
| `proof_all` | the forward checker, builder and checker together with and without queries, the checker alone with any chain of up to 3 ids | what is accepted is implied (`CheckerSound`), what is right is accepted (`RightAccepted`: `RupAccepted`, `DeletedFound`, `CheckerAccepts`, `BuilderComplete`), and the root assignment, watches and inconsistency the checkers keep are exact (`RootExact`) |

**Bounds.**  They are the constants of the configurations and the instances in
the `MC*` modules.  Three lines are a header, a complete attack and one line that can go
wrong in every way, or two headers around an attack.  With three arguments every shape of conflict, self-attack,
defence and odd cycle occurs, and no phantom can influence a later choice: that
needs two choosers, a common victim, something the victim attacks and something
that attacks, hence five arguments.  An even cycle with two-element initial
sets needs four.  `UINT_MODULUS` replaces 2^32 by a power of two that
satisfies `WidthAssumption`, so that an off-by-one in the numbering would wrap.
Three options are an unknown one, a flag and a value, or a value given twice.
For CaDiCaL two solves are the least in which something of the first can be
stale in the second, two rounds the least in which a flag of one decides about
the other; formulas are chosen so that the technique applies (three clauses for
an elimination with two resolvents, a gate of each kind, a chain of equivalences
with both phases) and taken up to renaming.  Limits and budgets are any choice
between hit and not hit.

`CHECK_DEADLOCK` is off where the modelled call simply returns.

**Fairness.**  Weak fairness of the steps of a component, for the liveness
properties only: a single thread that can take a step takes one, and
CaDiCaL's `solve`, called without limits or a terminator, comes back.  No
fairness between components is used, since one behaviour runs one of them.

## Findings

**The reduct's bitset** (`search_finding`).  `get_reduct` (`include/Algorithms.h:32-39`) clears the mark of an attacked
argument only if the argument is in the array it was given.  When two sets of
a sequence attack the same argument, the second call leaves its bit set in the
returned bitset.  `admissible_nonempty` then generates clauses with the
variables of an argument that is gone: it may be accepted freely and so
"defends" what it attacks back; ES-GR and ES-CO take it for a live attacker.
For the framework of `search_finding` ES-AD prints `([1],[2],[5],[4])`
although 4 attacks 5, ES-GR stops at `([1],[2])` although 4 is unattacked by
then, ES-ST prints a sequence whose union is not stable.

**TGF** (`program_tgf`).  The README's example passes `-fo tgf`, `main` ignores the format
(`src/Main.cpp:150-157`), and `parse_i23` takes the first line of a TGF file for
an attack: it has no framework yet and no second number, so it indexes an empty
list with an uninitialised variable.

### Observations

Met while modelling, where code and comment disagree; the models follow the
code.  Paths are relative to `lib/cadical-1.9.5/src/` unless they name
`Main.cpp`.

* `src/Main.cpp:71`: `--problems` does not list ES-UC and AS-AD, which are solved.
* `solver.cpp:619`: `assume` and other functions accept the state ADDING and make it
  STEADY, so a following `solve` does not notice an open clause
  (`cadical.hpp:268` says they require READY).  `SolverAPI` has the constant
  `Disciplined` for clients that keep to the comment.
* `internal.cpp:765`: a `terminate` that comes after `reset_solving` and before the
  return of `solve` is not taken back and stops the next solve; one that comes between the
  end of the search and `reset_solving` is lost.  The comment there announces the race.
* `external.cpp:211`: `flip` refuses a witness literal but not its negation
  (`cadical.hpp:302`).  Models stay models all the same (`ModelOfOriginal`).
* `backward.cpp:85`: `satisfied` is not reset between the clauses of an occurrence
  list (declared at line 49).  It matters only when units are pending, which the
  default options exclude; the runs use those.
* `block.cpp:159`: the flag set by `mark_skip` is never cleared.
* `cover.cpp:370`: a clause that propagation alone falsifies is counted as
  eliminated but kept.
* `ternary.cpp:437`: the result of `ternary_round` ("variables remain") is stored as
  `completed`, so that marked variables may not be tried again; `ternary.cpp:66`: a
  ternary resolvent that a binary clause subsumes may be added (comment at line 11).
* `subsume.cpp:462`: a clause added while a round was cut short is not tried in the next
  phase (`clause.cpp:50`); `Complete` is stated for rounds that were not.
  `subsume.cpp:419`, `:421`: a clause that is too large, or redundant and not likely to be kept, is
  passed over, while line 623 resets the bits of its variables all the same; it is not
  tried later on account of the clauses added before then.  `Complete` speaks of the
  clauses that were never passed over.
* `vivify.cpp:339`: the order puts a clause before its own prefixes, so that the scan
  removes only identical clauses (comment at line 323).
* `assume.cpp:515`: `reset_assumptions` marks failure as done while an unsatisfiable
  constraint is kept, so `conclude_unsat` passes no clause; `ConclusionComplete`
  is checked for clients that do not reset.  `assume.cpp:524`: the rank of an
  assumption loses its upper 32 bits (`typedef int Type`).
* `walk.cpp:150`: the break count also counts a clause whose second satisfying literal
  comes last; `stats.walk.minimum` is global.  `walk.cpp` is not modelled.

## Proofs

TLAPS checks the theorems below for every value of the constants that satisfies
the assumptions named with them; "every framework" is not "every framework of five
arguments".  The components that only the `MC*` modules instantiate state their
assumptions as plain definitions, which the theorems take as hypotheses and the
`MC*` modules assume of their instances, so that TLC evaluates each of them.

| theorem | hypotheses | statement |
|---|---|---|
| `EnumerateInitialProofs!EncodingCorrect` | `ArgsAssumption`, `WidthAssumption`, `CallsAssumption` | the models of the clauses in the solver before the first solve are the sets `EncodedAdmissible` describes (`EncodingExact`) |
| `InitialSetsCorrect`, `EnumerationImplemented` | same | whatever models come back: exactly the minimal encoded sets, each once (`InitialSetsExact`); refinement of `Enumeration` |
| `OuterSolveCorrect`, `NothingLostCorrect` | same | no assumption of the shrinking loop reaches the outer solve; no blocking clause excludes a set that is still to come |
| `SerialisationProofs!TypeCorrect`, `ReductCorrect` | `ArgsAssumption`, `InputAssumption` | types; the array is the reduct by the sequence and the phantoms are the re-attacked arguments |
| `PrintedForward`, `PrintedStrong`, `PrintedSound` | same | what holds of printed sequences although phantoms occur |
| `PrintedOnce` | same | no sequence is printed twice, phantoms or not |
| `SearchImplemented`, `ExtensionsCorrect` | and `NeverReattacks` of every framework | each search refines the enumeration of the sequences of its semantics; their unions are the extensions of the classical semantics |
| `ProgramProofs!WellFormedRead`, `ListsMirror` | `MCProgram!ConstantsAssumption` | files of any length, numbers of any size, any values in uninitialised variables |
| `OrderIsIrrelevant`, `SuccessIsAnswer` | same | command lines of any length, every width of `int` |
| `InterfaceProofs!AnswerStaysCurrent`, `QueryStaysFresh`, `StopsOnRequest` | `BoundsAssumption` | every sequence of API calls, disciplined client or not, with `terminate` between any two steps of a solve |
| `UnsatRight` | `ExternalAssumption` | UNSATISFIED is only answered if the clauses ever added say so (`UnsatOfOriginal`), with every option |
| `RestoreRight`, `ModelRight`, `AnswerRight` | and `~opts.restoreflush` (the default) | `RestoreComplete`, `ModelOfOriginal`, `AnswerOfOriginal`: any number of solves, weakenings and restorations, stacks and chains of any length, any number of derived clauses |
| `BlockProofs!ContractKept`, `NothingBlocked` | `FormulasAssumption`, `OptionsAssumption` | what blocked clause elimination removes keeps to the contract of the extension stack; its bits leave no blocked clause behind |
| `WeakenProofs!CoverContract` | `Cover!FormulasAssumption` | the same contract for covered clauses, whose entries were never clauses of the formula |
| `ConditionContract`, `ConditionFixPoint` | `Condition!FormulasAssumption` | the same contract for globally blocked clauses; what the refinement ends with is a conditional autarky |
| `ChainsProofs!CheckerIsSound` | `ChainsAssumption`, `strict_lrat` | every clause of the LRAT checker follows from the original ones |

The theorems about `Block`, `Cover` and `Condition` state the component's own
`WeakenContract`, `BlockComplete` and `ConditionalAutarky`; `eliminate_all` asks the first of
four techniques in one property and the others as parts of `FixPointsExact`.

**Assumptions.**  `ArgsAssumption`: a natural number of arguments.
`WidthAssumption`: the variables fit `int32_t`; `Encodings.cpp` does not check
this, and beyond 2^30 arguments the numbering would wrap.  `InputAssumption`,
`CallsAssumption`, `FilesAssumption`, `CommandLinesAssumption`,
`FormulasAssumption`, `ExternalAssumption`, `ChainsAssumption`: the inputs have the type that the code
gives them; `CallsAssumption` adds that the array is part of the bitset, which
`ReductCorrect` and its invariant show of every call the searches make.
`MCProgram!ConstantsAssumption` is the conjunction of the assumptions of `Parse` and
`Main`: `FilesAssumption`, `GarbageAssumption`, `CommandLinesAssumption` and
`ConversionAssumption` (the `int` range is half the `uint32_t` range).
`NeverReattacks(R)`: in no serialisation sequence of `R` does a set attack an argument
that the sets before it have already taken out of the framework.  It is needed: without it
`search_finding` refutes the statement.  `strict_lrat` is the setting in which
CaDiCaL makes the chains itself; without it `restore_clause` lets a clause in that the
checker does not know (`lratchecker.cpp:625`).

**`enumerate_initial`.**  `InitialSetsExact` speaks of the end only, so `IInv` says
what the loops maintain: which sets the clauses still allow (`Blocking`: all encoded
sets but those above a delivered set or above the current one), that no assumption
survives between rounds (`Outer`), that within a round the solver looks strictly below
the current set, which is already blocked (`Inner`), and that what was delivered is
minimal (`Delivered`).  `EncodingModels` turns clauses into sets, `BlockedModels`
says what a blocking clause removes, `FreeSolutions` and `RestrictedSolutions` what
`solve` may answer with and without assumptions.

**Searches, soundness.**  What is printed is the sequence of an activation whose sets
were chosen many steps earlier, so `IInv` says of every activation that its array
is the reduct by its sequence, that the array is part of the bitset, which bits
are in excess, that its sequence already has the properties claimed of printed
ones, and that its pending sets come from `enumerate_initial` on its own active
arguments (or, for ES-SA/ES-GR, are single listed arguments).  `SequenceExtends`
is the step that matters: a chosen set extends such a sequence.  It rests on
`EncodedIsInitial` (without phantoms the encoding describes the initial
sets), `AdmissibleUnion` (an admissible set of the reduct extends an admissible
set) and `ReductStep`.

**Searches, nothing twice.**  A printed sequence is gone from the stack, so `Once`
says that the sequence of an activation continues those below it, by a set that
these have taken out of their loop, and that everything printed differs from what an
activation and its pending sets can still lead to.

**Searches, nothing forgotten.**  `ExactInv` has `Accounted`: every sequence a task
asks for is printed or still `Open`, which means that it is the sequence of an activation or
continues it by a set the loop has not taken out; and it ties the flags `is_maximal` and
`has_unattacked_initialset` to what has been taken out so far.  When the stack is
empty nothing is open.  `NoPhantoms` uses `NeverReattacks` to make bitset and
array agree.  That the target of the refinement, defined by levels of a recursive
function, is the set of all serialisation sequences is `SerialisationsAre`; that
the unions are the classical extensions is `WantedCover`, from
`AdmissibleCovered` (every admissible set is the union of a sequence: a longest one
inside it leaves nothing over), `PreferredReduct`, `CompleteReduct`,
`StronglyAdmissibleAre` (the recursive definition of strong admissibility has one
solution, that of the sequences of unattacked arguments) and `GroundedBySequences`.

**Program.**  `Consumed` says that the variables of `main` hold what the options
so far say, the last one of each name; from there the order cannot matter.  In
the parser's part, `AsStated` counts the members of each list against the attack lines
read so far, and `FromLines` says where the variables that a broken line falls back on
came from; the latter includes lists that a smaller second header has cut off.

**API.**  `AnswerCurrent` is not inductive without `Entered`: what the next solve will
be asked is what was said since the last answer, although assumptions are dropped only by the
first call after it.  While a solve is on its way out the answer is there but not yet
readable: `AnswerOK` says it is right from the end of the search on, for the query that search had
(`asked`), whatever flag the other thread sets meanwhile.  Flips change the values of literals that
are remembered (`flipped`); of assumptions and constraint only what was not flipped is claimed, since `flip` looks
at clauses only.  `StoppedOnRequest` needs `InForce`: a flag or a limit that is set was asked
for after the last search had ended, unless it is still to be cleared by `reset_solving` or `Return`.

**Incremental solving.**  Between two solves the extension stack is wrong: it
repairs models of the clauses it knows, while the user adds clauses that a
repair may falsify.  `SoundInv` has the easy half, that clauses, learned clauses and stack follow
from what was added, which gives `UnsatRight`.  `RepairInv` has the other.  It says that
there are sets of assignments, one before each entry of the stack, such that an entry
takes every assignment of the set above it into the set below it (`Chain`): the uppermost
contains the models of the formula, and the lowest, apart from a set `U` of clauses added since,
consists of models of everything.  Of `U` it says that each literal that a witness could
flip is tainted.  `restore_clauses` walks the stack from
the oldest entry; one that it keeps has no tainted negation of its witness, so it falsifies
no clause of `U` and none that was restored before, and one that it restores taints in turn
its own literals, for the entries that follow (`RestoreEntryRepairs`).  At the end `U` is part of the
formula and empty again.  Weakening extends the chain by one
set for each entry it pushes, and `Weakens` is exactly what this needs: entries of one step repair each other in
their order, and need not have been clauses of the formula.  A derived clause that is implied leaves the models
as they are, whether it is redundant or not.  Assumptions are the
same argument: a tainted assumption has its entries restored, so that no entry left
changes one (`Untouched`).  With `restoreflush` entries whose clause a root-level unit satisfies are
dropped from the stack; that variant is only model-checked.

**Blocked clauses.**  `BlockedRedundant`: a model that falsifies a blocked clause
satisfies all other clauses when the blocked literal is flipped.  A phase pushes
several clauses in a row, and a clause pushed early has to be redundant in what is left
together with those pushed after it (`PushedWeakens`).  `BlockComplete` speaks of
finished runs, but a run tries only literals whose bit is set: `Remembered` says
across runs that a literal without a bit is `Spent` (every clause with it has a partner
it does not clash with, or a limit protects it), and `Tried` says the same within a run, where
a literal that is still scheduled is excepted.  Removing a clause can make a literal
blocked, so the removal step has to show that the bits it sets are exactly enough.

**Covered clauses.**  `cover_clause` extends a clause by literals that every
resolution partner has, until it is blocked or a tautology, and pushes one entry
for each extension.  None of these clauses was ever part of the formula, so `ExtendOK`
keeps of each entry what pushing will need: its literal is not frozen and in its clause
(`EntryOK`), and flipping it repairs every model of the other clauses that falsifies
the entry but has a literal added after it (`Repairs`).  `ClauseOK` adds that a model
without a covered literal has no literal added by propagation either, and `LastOK`
that the last entry repairs everything.  The
contract speaks of the entries as a set of clauses, so it also matters that no two of
them are equal: something new is added after each push.

**Conditioning.**  The code watches one true literal per clause and refines a conditional part
of the assignment.  `RoundOK` says that the watch lists have every
clause the assignment could leave without a true literal, and `RefineOK` that, at each moment of
the refinement, every clause in which a literal that is still to be flipped occurs
negated keeps a true one.  At the fix-point the rest is an autarky under the condition,
which the candidate negates, so that flipping repairs a model that falsifies the candidate
(`ConditionContract`).

Together with `BlockProofs` these theorems show of three simplifiers what
`Incremental` takes for granted of a weakening step (`Weakens`); for elimination and
substitution the runs do.

**LRAT checker.**  `Sound` includes the clauses that were weakened away: they come back
unchecked when the solver restores them.  `Check` walks a chain with a recursive
function; `LoopExists` and `LoopWithin` give it its value at every position and
show that it stays within the literals that the negated clause and the chain so far imply.

Inductions over numbers are carried out by the least counterexample (`LeastNumber`),
since the induction theorems of the library cannot be instantiated here.

### Only model-checked

* `Terminates` and `Termination`: liveness under fairness is out of the prover's reach.
* `RestoreComplete` and `ModelOfOriginal` with `restoreflush` on.
* The other components of CaDiCaL (`Assume`, `Elim`, `Decompose`, `Ternary`, `Binaries`, `Subsume`, `Vivify`, `Probe`,
  `Watches`, `Analyze`, `Lucky`, `Compact`, `Collect`, `Checker`, `Proof`): their
  properties hold on the instances of the runs.  Several rest on fix-points over the clauses (unit
  propagation), recursive operators, or on folds, about which nothing can be proved for
  every input.
* `search_finding` and `program_tgf` are counterexamples and need no proof.

## Not modelled

* Output layout (`print_extension`, `print_sequence`): which sequences are
  printed is modelled, not how.
* Exhaustion of memory or of the C++ stack.
* Methods of the wrapper that nothing calls (`add_clause_1`, `add_clause_3`,
  `solve_extension`, `solve(assumptions)`).
* Of `flip`, that it refuses witness literals is left out of `SolverAPI`, where there are none (`Incremental` has it).
* The exit on an unknown solver result is modelled in `EnumerateInitial` but not
  again in `Serialisation`.
* Of CaDiCaL: the test generator `mobical.cpp`, the stand-alone application and
  DIMACS parser (`cadical.cpp`, `parse.cpp`, `file.cpp`), lookahead and cubing,
  local search (`walk.cpp`), external propagators, tracers that write a proof to a
  file, options, statistics, logging and reporting, scores and other heuristics
  (their choices are nondeterministic here), LRAT chains inside the simplifiers.
* Build files and examples.
