------------------------------ MODULE Ternary ------------------------------
(***************************************************************************)
(* Hyper ternary resolution (ternary.cpp): resolvents of ternary clauses   *)
(* with at most three literals, tried for the variables whose flag         *)
(* 'ternary' is set, over several rounds and several calls.                *)
(*                                                                         *)
(* The two effort limits are one budget of resolutions that each call      *)
(* draws.  The order of the occurrence lists is left open.                 *)
(***************************************************************************)
EXTENDS Clauses, SequencesExt

CONSTANTS
  Formulas,            \* sets of clauses, without units
  Learnable,           \* clauses that search may learn, if they are implied
  Budgets,             \* efforts a call may have
  MaxCalls,            \* bound on the number of calls
  ternaryocclim, ternaryrounds   \* options

OptionsAssumption ==
  Budgets \subseteq Nat /\ MaxCalls \in Nat /\ ternaryocclim \in Nat /\ ternaryrounds \in Nat

VARIABLES
  original,            \* ghost: the formula
  clauses,             \* clauses that are not garbage
  clause_id,
  occs,                \* the clauses connected in this round, garbage included
  ternary,             \* the flags: variables to be tried
  marked, last,        \* stats.mark.ternary, last.ternary.marked
  pc, calls, round, budget,
  idx, pairs,          \* the variable and the pairs still to be resolved on it
  derived,             \* a ternary resolvent was derived in this round
  aborted              \* ghost: some variable had too many occurrences, or the budget ran out

vars == <<original, clauses, clause_id, occs, ternary, marked, last, pc, calls, round,
          budget, idx, pairs, derived, aborted>>

Clause(id, lits, red) == [id |-> id, lits |-> lits, red |-> red]

Ternaries(D) == {c \in D : Cardinality(c.lits) = 3}

VarsOf(C) == {Var(lit) : lit \in C}

Init ==
  /\ original \in Formulas
  /\ clauses = {Clause(i, SetToSeq(original)[i], FALSE) : i \in 1..Cardinality(original)}
  /\ clause_id = Cardinality(original)
  /\ occs = {}
  /\ ternary = UNION {VarsOf(c.lits) : c \in Ternaries(clauses)}
  /\ marked = Cardinality(ternary) /\ last = -1
  /\ pc = "idle" /\ calls = 0 /\ round = 0 /\ budget = 0
  /\ idx = 0 /\ pairs = {} /\ derived = FALSE /\ aborted = FALSE

\* mark_added: a ternary clause marks its variables, and only new marks count.
MarkAdded(C) ==
  LET new == IF Cardinality(C) = 3 THEN VarsOf(C) ELSE {}
  IN  ternary' = ternary \cup new /\ marked' = marked + Cardinality(new \ ternary)

\* Search learns a clause.
Learn(C) ==
  /\ pc = "idle" /\ calls > 0 /\ calls < MaxCalls /\ Implies(original, C)
  /\ \A c \in clauses : ~(c.lits \subseteq C)
  /\ clause_id' = clause_id + 1
  /\ clauses' = clauses \cup {Clause(clause_id', C, TRUE)}
  /\ MarkAdded(C)
  /\ UNCHANGED <<original, occs, last, pc, calls, round, budget, idx, pairs, derived, aborted>>

\* A call without new ternary clauses since the last one returns.
Return ==
  /\ pc = "idle" /\ calls < MaxCalls /\ last = marked
  /\ calls' = calls + 1
  /\ UNCHANGED <<original, clauses, clause_id, occs, ternary, marked, last, pc, round, budget,
                 idx, pairs, derived, aborted>>

Call ==
  /\ pc = "idle" /\ calls < MaxCalls /\ last # marked
  /\ calls' = calls + 1
  /\ pc' = "round" /\ round' = 0 /\ budget' \in Budgets
  /\ UNCHANGED <<original, clauses, clause_id, occs, ternary, marked, last, idx, pairs, derived, aborted>>

Connected(c) ==
  \/ Cardinality(c.lits) = 2
  \/ Cardinality(c.lits) = 3 /\ VarsOf(c.lits) \cap ternary # {}

\* The start of ternary_round: connect binary clauses, and the ternary ones
\* with a marked variable.
Round ==
  /\ pc = "round"
  /\ occs' = {c \in clauses : Connected(c)}
  /\ pc' = "vars" /\ idx' = 0 /\ derived' = FALSE
  /\ UNCHANGED <<original, clauses, clause_id, ternary, marked, last, calls, round, budget,
                 pairs, aborted>>

Occurrences(lit) == {c \in occs : lit \in c.lits}

Many(lit) == Cardinality(Occurrences(lit)) > ternaryocclim

Cleared(v) == {v}

\* ternary_idx, for the next marked variable.
Idx(v) ==
  /\ pc = "vars" /\ pairs = {} /\ budget > 0
  /\ v \in ternary /\ v > idx /\ \A u \in ternary : u > idx => v <= u
  /\ idx' = v
  /\ pairs' = IF Many(v) \/ Many(-v) THEN {}
              ELSE Ternaries(Occurrences(v) \cap clauses) \X Ternaries(Occurrences(-v) \cap clauses)
  /\ ternary' = ternary \ Cleared(v)
  /\ aborted' = (aborted \/ Many(v) \/ Many(-v))
  /\ UNCHANGED <<original, clauses, clause_id, occs, marked, last, pc, calls, round, budget, derived>>

Fewest(C) == {lit \in C : \A other \in C : Cardinality(Occurrences(lit)) <= Cardinality(Occurrences(other))}

\* ternary_find_binary_clause, ternary_find_ternary_clause, which look at the
\* clauses of a literal with fewest occurrences: the resolvent is there, a
\* binary clause subsumes it, or the occurrences are too many.
Found(C, lit) == Many(lit) \/ \E c \in Occurrences(lit) : c.lits \subseteq C

\* Mutant: the opposite of a literal is skipped like the literal.
Resolved_skip(c, d) == (c.lits \ {idx}) \cup (d.lits \ ({-idx} \cup Neg(c.lits)))

Resolved(c, d) == Resolvent(c.lits, d.lits, idx)

Redundant(R, c, d) == Cardinality(R) = 3 \/ (c.red /\ d.red)

\* A binary resolvent replaces its antecedents.
Subsumed(R, c, d) == IF Cardinality(R) = 2 THEN {c, d} ELSE {}

\* The loops skip clauses that became garbage.
Live(gone) == {p \in pairs : p[1] \notin gone /\ p[2] \notin gone}

\* hyper_ternary_resolve and what ternary_lit does with its result.
Resolve(c, d) ==
  /\ pc = "vars" /\ budget > 0
  /\ LET R == Resolved(c, d)
     IN  \E lit \in Fewest(R) :
         /\ aborted' = (aborted \/ Many(lit))
         /\ IF Tautological(R) \/ Cardinality(R) > 3 \/ Found(R, lit)
            THEN /\ pairs' = pairs \ {<<c, d>>}
                /\ UNCHANGED <<clauses, clause_id, occs, ternary, marked, derived>>
           ELSE LET r == Clause(clause_id + 1, R, Redundant(R, c, d))
                IN  /\ clause_id' = clause_id + 1
                    /\ clauses' = (clauses \ Subsumed(R, c, d)) \cup {r}
                    /\ occs' = occs \cup {r}
                    /\ pairs' = Live(Subsumed(R, c, d)) \ {<<c, d>>}
                    /\ derived' = (derived \/ Cardinality(R) = 3)
                    /\ MarkAdded(R)
  /\ budget' = budget - 1
  /\ UNCHANGED <<original, last, pc, calls, round, idx>>

Again == derived /\ budget > 0 /\ round + 1 < ternaryrounds

\* 'completed' is what ternary_round returns: that variables remain.
LastMarked == IF ternary # {} THEN marked ELSE last

\* The end of a round, and of the call unless there is another one.
EndRound ==
  /\ pc = "vars"
  /\ budget = 0 \/ (pairs = {} /\ \A v \in ternary : v <= idx)
  /\ aborted' = (aborted \/ budget = 0)
  /\ round' = round + 1
  /\ occs' = {} /\ pairs' = {} /\ idx' = 0
  /\ IF Again THEN pc' = "round" /\ UNCHANGED last
     ELSE pc' = "idle" /\ last' = LastMarked
  /\ UNCHANGED <<original, clauses, clause_id, ternary, marked, calls, budget, derived>>

Next ==
  \/ Return \/ Call \/ Round \/ EndRound
  \/ \E C \in Learnable : Learn(C)
  \/ \E v \in Vars : Idx(v)
  \/ \E p \in pairs : Resolve(p[1], p[2])

Spec == Init /\ [][Next]_vars

-----------------------------------------------------------------------------
\* Type invariant: the loops only meet clauses of the database.
TypeOK ==
  /\ \A c \in clauses : c.lits \in ProperClauses /\ c.id \in 1..clause_id
  /\ ternary \subseteq Vars /\ last <= marked
  /\ pairs \subseteq clauses \X clauses
  /\ pc \in {"idle", "round", "vars"}

\* Resolvents follow from the formula.
DatabaseImplied == \A c \in clauses : Implies(original, c.lits)

\* No irredundant clause is lost: what replaces one is irredundant, so the
\* redundant clauses can be dropped at any time.
NothingLost ==
  \A C \in original : Implies({c.lits : c \in {d \in clauses : ~d.red}}, C)

\* The flags tell what is left to do: while no limit was hit, all resolvents
\* with up to three literals on a variable that is not marked are there or subsumed.
Saturated ==
  (pairs = {} /\ ~aborted) =>
    \A v \in Vars \ ternary : \A c, d \in Ternaries(clauses) :
      (v \in c.lits /\ -v \in d.lits) =>
        LET R == Resolvent(c.lits, d.lits, v)
        IN  Tautological(R) \/ Cardinality(R) > 3 \/ \E e \in clauses : e.lits \subseteq R
=============================================================================
