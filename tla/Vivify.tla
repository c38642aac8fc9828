------------------------------- MODULE Vivify -------------------------------
(***************************************************************************)
(* Vivification (vivify.cpp): assume the negations of the literals of a    *)
(* clause one after the other and propagate without the clause.  What is   *)
(* found then removes the clause, or some of its literals.  Decisions are  *)
(* kept for the next candidate as far as they fit.                         *)
(*                                                                         *)
(* Watches are abstracted to the clauses: a propagation finds the clauses  *)
(* that are unit or false, binary ones first.  The literal order that the  *)
(* scores give is one of the given orders.                                 *)
(***************************************************************************)
EXTENDS Clauses, SequencesExt

CONSTANTS
  Databases,           \* sequences of clauses [lits, red]
  Orders,              \* sequences of all literals
  MaxRounds,           \* bound on the number of rounds
  vivifyinst           \* option

OptionsAssumption == MaxRounds \in Nat /\ vivifyinst \in BOOLEAN

VARIABLES
  original,            \* ghost: the irredundant clauses at the beginning
  clauses,             \* sequence of clauses with flags
  units, unsat,
  order,               \* the literal order of the round
  pc, rounds,
  redundant_mode,
  schedule,
  trail,               \* assignments above the root level: [lit, level, reason]
  cand, sorted,        \* the candidate, its literals still to be assumed
  subsume,             \* how the candidate was found to be subsumed: no, remove, strengthen
  remove,              \* a literal that can be removed, or 0
  learned              \* literals of the clause that replaces the candidate; {} for none

vars == <<original, clauses, units, unsat, order, pc, rounds, redundant_mode, schedule,
          trail, cand, sorted, subsume, remove, learned>>

Kept == {k \in DOMAIN clauses : ~clauses[k].garbage}

Size(k) == Cardinality(clauses[k].lits)

Irredundant == {clauses[k].lits : k \in {j \in Kept : ~clauses[j].red}}

NewClause(C, red) == [lits |-> C, red |-> red, vivify |-> FALSE, garbage |-> FALSE]

Init ==
  /\ \E D \in Databases :
       /\ clauses = [k \in DOMAIN D |-> NewClause(D[k].lits, D[k].red)]
       /\ original = {D[k].lits : k \in {j \in DOMAIN D : ~D[j].red}}
  /\ units = {} /\ unsat = FALSE /\ order \in Orders
  /\ pc = "idle" /\ rounds = 0 /\ redundant_mode = FALSE /\ schedule = {}
  /\ trail = <<>> /\ cand = 0 /\ sorted = <<>> /\ subsume = "no" /\ remove = 0 /\ learned = {}

-----------------------------------------------------------------------------
(* The trail.                                                              *)

Assigned(t) == units \cup {t[i].lit : i \in DOMAIN t}

Level(t) == IF t = <<>> THEN 0 ELSE Last(t).level

\* The entry of a variable that is assigned above the root level.
AssignedAt(t, lit) == t[CHOOSE i \in DOMAIN t : Var(t[i].lit) = Var(lit)]

Backtrack(t, level) == SelectSeq(t, LAMBDA e : e.level <= level)

\* The clauses that are watched: irredundant ones only, unless in redundant
\* mode, and never the candidate.
Watching(k) == (redundant_mode \/ ~clauses[k].red) /\ k # cand

\* vivify_propagate, with the candidate ignored.
RECURSIVE VivifyPropagate(_)
VivifyPropagate(t) ==
  LET A == Assigned(t)
      open(k) == clauses[k].lits \ Neg(A)
      live == {k \in Kept : Watching(k) /\ clauses[k].lits \cap A = {}}
      unit == {k \in live : Cardinality(open(k)) = 1}
  IN  IF unit = {} \/ \E k \in live : open(k) = {} THEN t
      ELSE LET k == CHOOSE k \in unit : \A j \in unit : Size(k) <= Size(j)
           IN  VivifyPropagate(Append(t, [lit |-> CHOOSE l \in open(k) : TRUE,
                                          level |-> Level(t), reason |-> k]))

Falsified(t) == {k \in Kept : Watching(k) /\ clauses[k].lits \subseteq Neg(Assigned(t))}

Decide(t, lit) == VivifyPropagate(Append(t, [lit |-> lit, level |-> Level(t) + 1, reason |-> 0]))

\* assign_unit and propagate at the root level.
Root(D, L) ==
  LET F == {D[k].lits : k \in {j \in DOMAIN D : ~D[j].garbage}}
  IN  /\ unsat' = Conflicting(F, units \cup L)
      /\ units' = IF unsat' THEN units ELSE UnitPropagate(F, units \cup L)

-----------------------------------------------------------------------------
(* vivify_round                                                            *)

Position(lit) == CHOOSE i \in DOMAIN order : order[i] = lit

Sort(C) == SetToSortSeq(C, LAMBDA a, b : Position(a) < Position(b))

Considered(k, mode) == clauses[k].red = mode /\ Size(k) > 2

\* flush_vivification_schedule.  The sort puts a clause behind those it is a
\* prefix of, so that only copies are found.
Flushed(S) == {k \in S : \E j \in S : j < k /\ clauses[j].lits = clauses[k].lits}

\* Fill the schedule, flush it, connect the watches and propagate.
StartRound ==
  /\ pc = "idle" /\ ~unsat /\ rounds < MaxRounds
  /\ LET mode == rounds % 2 = 1
         S == {k \in Kept : Considered(k, mode)}
         D == [k \in DOMAIN clauses |-> [clauses[k] EXCEPT !.garbage = @ \/ k \in Flushed(S)]]
     IN  /\ redundant_mode' = mode
         /\ schedule' = S \ Flushed(S)
         /\ clauses' = D
         /\ Root(SelectSeq(D, LAMBDA c : mode \/ ~c.red), {})
  /\ rounds' = rounds + 1 /\ pc' = "next"
  /\ UNCHANGED <<original, order, trail, cand, sorted, subsume, remove, learned>>

\* The next candidate: clauses left over from the last time, then short ones.
\* Among redundant ones glue goes first, which may be anything.
NextCandidate(k) ==
  /\ k \in schedule
  /\ \A j \in schedule : \/ clauses[k].vivify /\ ~clauses[j].vivify
                         \/ clauses[k].vivify = clauses[j].vivify /\ (redundant_mode \/ Size(k) <= Size(j))

\* Mutant: what the candidate forced is reused.
Unforced_none(k) == trail

\* Backtrack before the level on which the candidate forced a literal.
Unforced(k) ==
  IF \E i \in DOMAIN trail : trail[i].reason = k
  THEN Backtrack(trail, (CHOOSE e \in ToSet(trail) : e.reason = k).level - 1)
  ELSE trail

Decisions(t) == SelectSeq(t, LAMBDA e : e.reason = 0)

\* Keep the decisions that are the negations of the first literals.
Reused(t, lits) ==
  LET d == Decisions(t)
      fits == {l \in 0..Len(d) : l <= Len(lits) /\ \A i \in 1..l : d[i].lit = -lits[i]}
      l == Max(fits)
  IN  IF l = Len(lits) THEN t ELSE Backtrack(t, l)

Flag(k) == [clauses EXCEPT ![k].vivify = FALSE]

\* The start of vivify_clause: a satisfied clause is removed.
Satisfied(k) ==
  /\ pc = "next" /\ ~unsat /\ NextCandidate(k)
  /\ clauses[k].garbage \/ clauses[k].lits \cap units # {}
  /\ clauses' = [Flag(k) EXCEPT ![k].garbage = TRUE]
  /\ schedule' = schedule \ {k}
  /\ UNCHANGED <<original, units, unsat, order, pc, rounds, redundant_mode, trail, cand, sorted,
                 subsume, remove, learned>>

Start(k) ==
  /\ pc = "next" /\ ~unsat /\ NextCandidate(k)
  /\ ~clauses[k].garbage /\ clauses[k].lits \cap units = {}
  /\ clauses' = Flag(k)
  /\ schedule' = schedule \ {k}
  /\ cand' = k
  /\ sorted' = Sort(clauses[k].lits \ Neg(units))
  /\ trail' = Reused(Unforced(k), sorted')
  /\ pc' = "assume" /\ subsume' = "no" /\ remove' = 0 /\ learned' = {}
  /\ UNCHANGED <<original, units, unsat, order, rounds, redundant_mode>>

-----------------------------------------------------------------------------
(* vivify_clause                                                           *)

\* vivify_analyze_redundant: the clauses that are met from those of R.
RECURSIVE Analyzed(_, _)
Analyzed(t, R) ==
  LET S == R \cup {e.reason : e \in {f \in ToSet(t) : f.reason # 0 /\
                     \E k \in R : -f.lit \in clauses[k].lits}}
  IN  IF S = R THEN R ELSE Analyzed(t, S)

OnlyBinary(R) == \A k \in R : Size(k) = 2

SeenLits(R) == UNION {clauses[k].lits : k \in R}

\* Literals of the candidate that are false by a decision.
DecidedFalse(t) == {lit \in clauses[cand].lits : \E e \in ToSet(t) : e.lit = -lit /\ e.reason = 0}

\* vivify_post_process_analysis: keep the decisions that were met and the
\* implied literal; nothing if that is the whole clause.
PostProcess(t, implied, R) ==
  LET D == implied \cup (DecidedFalse(t) \cap SeenLits(R))
  IN  IF clauses[cand].lits \ Neg(units) \subseteq D THEN {} ELSE D

\* The candidate is subsumed.  It is to be removed, but in redundant mode only
\* if the reasons are binary clauses; otherwise it is strengthened.
Subsume(t, implied, R) ==
  /\ pc' = "finish"
  /\ IF ~redundant_mode \/ OnlyBinary(R) THEN subsume' = "remove" /\ learned' = {}
     ELSE subsume' = "strengthen" /\ learned' = PostProcess(t, implied, R)

Assuming(lit) ==
  /\ pc = "assume" /\ sorted # <<>> /\ lit = Head(sorted)
  /\ sorted' = Tail(sorted)
  /\ UNCHANGED <<original, clauses, units, unsat, order, rounds, redundant_mode, schedule, cand>>

\* The literal is false, by a decision that is reused or by propagation.
False(lit) ==
  /\ Assuming(lit) /\ -lit \in Assigned(trail)
  /\ remove' = IF AssignedAt(trail, lit).reason # 0 THEN lit ELSE remove
  /\ UNCHANGED <<pc, trail, subsume, learned>>

\* The literal is implied: the candidate is subsumed.
Implied(lit) ==
  /\ Assuming(lit) /\ lit \in Assigned(trail)
  /\ Subsume(trail, {lit}, Analyzed(trail, {AssignedAt(trail, lit).reason}))
  /\ trail' = IF redundant_mode THEN Backtrack(trail, Level(trail) - 1) ELSE trail
  /\ UNCHANGED remove

\* The negation of the literal is assumed; a conflict subsumes the candidate.
Assume(lit) ==
  /\ Assuming(lit) /\ {lit, -lit} \cap Assigned(trail) = {}
  /\ LET t == Decide(trail, -lit)
     IN  IF Falsified(t) = {} THEN trail' = t /\ UNCHANGED <<pc, subsume, learned>>
         ELSE /\ Subsume(t, {}, Analyzed(t, {CHOOSE k \in Falsified(t) : TRUE}))
              /\ trail' = Backtrack(t, Level(t) - 1)
  /\ UNCHANGED remove

Instance(lit) == Decide(Backtrack(trail, Level(trail) - 1), lit)

\* All literals are false.  The last one, if it was decided, is assumed to be
\* true: a conflict shows that it can be removed.
Instantiate ==
  /\ pc = "assume" /\ sorted = <<>>
  /\ LET last == Last(Sort(clauses[cand].lits \ Neg(units)))
     IN  IF ~vivifyinst \/ remove = last THEN UNCHANGED <<trail, remove>>
         ELSE LET t == Instance(last)
              IN  IF Falsified(t) = {} THEN trail' = t /\ UNCHANGED remove
                  ELSE trail' = Backtrack(t, Level(t) - 1) /\ remove' = last
  /\ pc' = "finish"
  /\ UNCHANGED <<original, clauses, units, unsat, order, rounds, redundant_mode, schedule,
                 cand, sorted, subsume, learned>>

-----------------------------------------------------------------------------
(* What becomes of the candidate.                                          *)

\* The literals that stay if 'remove' goes: those that are not implied.
Remaining ==
  {lit \in clauses[cand].lits \ (Neg(units) \cup {remove}) :
     ~\E e \in ToSet(trail) : Var(e.lit) = Var(lit) /\ e.reason # 0}

\* Non-false literals first, then the ones that became false last.
BetterWatch(C) ==
  LET t == trail
      at(lit) == IF -lit \in Assigned(t)
                 THEN CHOOSE i \in DOMAIN t : t[i].lit = -lit ELSE Len(t) + 1
  IN  SetToSortSeq(C, LAMBDA a, b : at(a) > at(b) \/ (at(a) = at(b) /\ a < b))

\* vivify_strengthen: the level on which the first two literals can be watched.
WatchLevel(C) ==
  LET lit0 == BetterWatch(C)[1]
      lit1 == BetterWatch(C)[2]
      false(lit) == -lit \in Assigned(trail)
      level(lit) == AssignedAt(trail, lit).level
  IN  IF false(lit1) /\ ~(lit0 \in Assigned(trail) /\ level(lit0) <= level(lit1))
      THEN level(lit1) - 1
      ELSE IF false(lit0) THEN level(lit0) - 1 ELSE Level(trail)

Strengthen(C) ==
  IF Cardinality(C) = 1
  THEN /\ trail' = <<>>
       /\ clauses' = [clauses EXCEPT ![cand].garbage = TRUE]
       /\ Root(SelectSeq(clauses', LAMBDA c : redundant_mode \/ ~c.red), C)
  ELSE /\ trail' = Backtrack(trail, WatchLevel(C))
       /\ clauses' = Append([clauses EXCEPT ![cand].garbage = TRUE],
                            NewClause(C, clauses[cand].red))
       /\ UNCHANGED <<units, unsat>>

Finishing == pc = "finish" /\ pc' = "next" /\ cand' = 0 /\ sorted' = <<>> /\ learned' = {}
               /\ subsume' = "no" /\ remove' = 0
               /\ UNCHANGED <<original, order, rounds, redundant_mode, schedule>>

\* The candidate is subsumed: it is removed, strengthened, or stays.
FinishSubsumed ==
  /\ Finishing /\ subsume # "no"
  /\ \/ /\ subsume = "remove"
        /\ clauses' = [clauses EXCEPT ![cand].garbage = TRUE]
        /\ UNCHANGED <<units, unsat, trail>>
     \/ subsume = "strengthen" /\ learned # {} /\ Strengthen(learned)
     \/ subsume = "strengthen" /\ learned = {} /\ UNCHANGED <<clauses, units, unsat, trail>>

FinishRemove ==
  /\ Finishing /\ subsume = "no" /\ remove # 0
  /\ Strengthen(Remaining)

FinishFailed ==
  /\ Finishing /\ subsume = "no" /\ remove = 0
  /\ UNCHANGED <<clauses, units, unsat, trail>>

\* The end of the round, at the limit or with an empty schedule.  Clauses that
\* were not tried are flagged, unless flagged ones are left.
EndRound ==
  /\ pc = "next" /\ ~unsat
  /\ clauses' = [k \in DOMAIN clauses |->
                   IF k \in schedule /\ \A j \in schedule : ~clauses[j].vivify
                   THEN [clauses[k] EXCEPT !.vivify = TRUE] ELSE clauses[k]]
  /\ Root(clauses, {})
  /\ trail' = <<>> /\ schedule' = {} /\ pc' = "idle"
  /\ UNCHANGED <<original, order, rounds, redundant_mode, cand, sorted, subsume, remove, learned>>

Next ==
  \/ StartRound \/ Instantiate \/ FinishSubsumed \/ FinishRemove \/ FinishFailed \/ EndRound
  \/ \E k \in schedule : Satisfied(k) \/ Start(k)
  \/ \E lit \in Lits : False(lit) \/ Implied(lit) \/ Assume(lit)

Spec == Init /\ [][Next]_vars

-----------------------------------------------------------------------------
\* Type invariant: all decisions are literals of the candidate, negated but
\* for the one that is instantiated.
TypeOK ==
  /\ (~unsat => Consistent(Assigned(trail))) /\ schedule \subseteq DOMAIN clauses
  /\ pc = "assume" => \A e \in ToSet(Decisions(trail)) : -e.lit \in clauses[cand].lits
  /\ pc = "finish" => \A e \in ToSet(Decisions(trail)) : {e.lit, -e.lit} \cap clauses[cand].lits # {}
  /\ pc = "idle" => trail = <<>> /\ cand = 0
  /\ pc \in {"idle", "next", "assume", "finish"}

\* Clauses and units follow from the formula.
DatabaseImplied ==
  IF unsat THEN Models(original) = {}
  ELSE \A C \in {clauses[k].lits : k \in Kept} \cup Units(units) : Implies(original, C)

\* The irredundant clauses and the units still say what the formula said: an
\* irredundant clause is only removed on account of others.
NothingLost == ~unsat => \A C \in original : Implies(Irredundant \cup Units(units), C)

\* Decisions are reused over several candidates: what they imply is implied by
\* clauses that are still there and that were unit then.
ReasonsKept ==
  \A i \in DOMAIN trail : trail[i].reason # 0 =>
    LET C == clauses[trail[i].reason].lits
    IN  /\ trail[i].reason \in Kept \ {cand} /\ trail[i].lit \in C
        /\ C \ {trail[i].lit} \subseteq Neg(Assigned(SubSeq(trail, 1, i - 1)))

=============================================================================
