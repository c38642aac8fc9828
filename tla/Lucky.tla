------------------------------- MODULE Lucky -------------------------------
(***************************************************************************)
(* lucky.cpp: before the search, eight simple ways to satisfy the formula  *)
(* are tried one after the other, each leaving the solver as it was unless *)
(* it succeeds.                                                            *)
(***************************************************************************)
EXTENDS Clauses, Sequences

CONSTANTS
  Formulas,    \* sequences of [lits, red, garbage]
  RootUnits    \* sets of literals that may be fixed before

VARIABLES
  clauses,
  root,        \* ghost: the literals true on the root level
  vals,        \* the literals that are true
  level, conflict,
  saved,       \* variable -> saved phase
  strategy,    \* index in Strategies
  pos,         \* [kind, next]: clauses or variables, and the index of the next one
  res          \* result, or -2 while the strategies are tried

vars == <<clauses, root, vals, level, conflict, saved, strategy, pos, res>>

\* The calls of lucky_phases. A trivial one looks at all clauses first, a horn one decides
\* on the way; then the variables left are assigned in the order with the given sign.
Strategies ==
  <<[check |-> "trivial", order |-> "forward", sign |-> -1], [check |-> "trivial", order |-> "forward", sign |-> 1],
    [check |-> "none", order |-> "forward", sign |-> 1], [check |-> "none", order |-> "forward", sign |-> -1],
    [check |-> "none", order |-> "backward", sign |-> -1], [check |-> "none", order |-> "backward", sign |-> 1],
    [check |-> "horn", order |-> "forward", sign |-> -1], [check |-> "horn", order |-> "forward", sign |-> 1]>>

Start(k) == [kind |-> IF Strategies[k].check = "none" THEN "vars" ELSE "clauses", next |-> 1]

Irredundant(F) == {F[i].lits : i \in {j \in DOMAIN F : ~F[j].red /\ ~F[j].garbage}}
Propagating(F) == {F[i].lits : i \in {j \in DOMAIN F : ~F[j].garbage}}

Init ==
  /\ clauses \in Formulas
  /\ \E U \in RootUnits : root = UnitPropagate(Propagating(clauses), U)
  /\ Consistent(root) /\ ~Conflicting(Propagating(clauses), root)
  /\ vals = root /\ level = 0 /\ conflict = FALSE
  /\ saved = [v \in Vars |-> 1]
  /\ strategy = 1 /\ pos = Start(1) /\ res = -2

Now == Strategies[strategy]
Ordered == [i \in 1..Cardinality(Vars) |-> IF Now.order = "forward" THEN i ELSE Cardinality(Vars) + 1 - i]

\* While lucky phases are searched, search_assign does not save phases.
Saved(new) == saved

\* search_assume_decision and propagate, through redundant clauses too.
Decided(lit) ==
  LET new == UnitPropagate(Propagating(clauses), vals \cup {lit})
      consistent == {l \in new : -l \notin new}
  IN  /\ level' = level + 1
      /\ conflict' = Conflicting(Propagating(clauses), vals \cup {lit})
      /\ vals' = IF Tautological(new) THEN consistent ELSE new
      /\ saved' = Saved(vals')

\* unlucky
Reset == vals' = root /\ level' = 0 /\ conflict' = FALSE

Unlucky ==
  /\ Reset /\ UNCHANGED saved
  /\ IF strategy = Len(Strategies)
     THEN res' = 0 /\ UNCHANGED <<strategy, pos>>
     ELSE strategy' = strategy + 1 /\ pos' = Start(strategy + 1) /\ UNCHANGED res

\* The strategy has come to a conflict.
Failed == conflict /\ Unlucky /\ UNCHANGED <<clauses, root>>

Running == res = -2 /\ ~conflict
Advance == pos' = [pos EXCEPT !.next = @ + 1] /\ UNCHANGED <<strategy, res>>
Skip == Advance /\ UNCHANGED <<vals, level, conflict, saved>>

Free(lit) == lit \notin vals /\ -lit \notin vals

\* The literals of C that are not assigned and have the sign of the strategy (the
\* horn functions decide literals of the other sign).
Found(C) == {lit \in C : Free(lit) /\ lit * Now.sign > 0}

\* A clause, in the first loop of the trivial functions.
CheckClause ==
  LET c == clauses[pos.next]
  IN  /\ Running /\ Now.check = "trivial" /\ pos.kind = "clauses" /\ pos.next <= Len(clauses)
      /\ \/ (c.garbage \/ c.red \/ c.lits \cap vals # {} \/ Found(c.lits) # {}) /\ Skip
         \/ ~c.garbage /\ ~c.red /\ c.lits \cap vals = {} /\ Found(c.lits) = {} /\ Unlucky
      /\ UNCHANGED <<clauses, root>>

\* A clause, in the first loop of the horn functions: its first literal is decided.
HornClause ==
  LET c == clauses[pos.next]
      lits == {lit \in c.lits : Free(lit) /\ lit * Now.sign < 0}
  IN  /\ Running /\ Now.check = "horn" /\ pos.kind = "clauses" /\ pos.next <= Len(clauses)
      /\ \/ (c.garbage \/ c.red \/ c.lits \cap vals # {}) /\ Skip
         \/ /\ ~c.garbage /\ ~c.red /\ c.lits \cap vals = {}
            /\ \/ lits = {} /\ Unlucky
               \/ \E lit \in lits : Decided(lit) /\ Advance
      /\ UNCHANGED <<clauses, root>>

ClausesDone ==
  /\ Running /\ pos.kind = "clauses" /\ pos.next > Len(clauses)
  /\ pos' = [kind |-> "vars", next |-> 1]
  /\ UNCHANGED <<clauses, root, vals, level, conflict, saved, strategy, res>>

Variable ==
  LET lit == Now.sign * Ordered[pos.next]
  IN  /\ Running /\ pos.kind = "vars" /\ pos.next <= Cardinality(Vars)
      /\ IF Free(lit) THEN Decided(lit) /\ Advance ELSE Skip
      /\ UNCHANGED <<clauses, root>>

AllTried == pos.next > Cardinality(Vars)

Lucky ==
  /\ Running /\ pos.kind = "vars" /\ AllTried
  /\ res' = 10
  /\ UNCHANGED <<clauses, root, vals, level, conflict, saved, strategy, pos>>

\* terminated_asynchronously: all strategies are given up.
Terminated ==
  /\ Running /\ (pos.kind = "clauses" => pos.next <= Len(clauses)) /\ (pos.kind = "vars" => pos.next <= Cardinality(Vars))
  /\ Reset /\ res' = 0
  /\ UNCHANGED <<clauses, root, saved, strategy, pos>>

Next == Failed \/ CheckClause \/ HornClause \/ ClausesDone \/ Variable \/ Lucky \/ Terminated

Spec == Init /\ [][Next]_vars

-----------------------------------------------------------------------------
(* Properties.                                                             *)

TypeOK ==
  /\ Consistent(vals) /\ root \subseteq vals /\ vals \subseteq Lits /\ level \in 0..Cardinality(Vars)
  /\ strategy \in DOMAIN Strategies /\ res \in {-2, 0, 10}
  /\ (pos.kind = "clauses" => Now.check # "none")

\* What is called lucky is a model: all variables have a value and every irredundant
\* clause is satisfied, which the functions do not check.
LuckyModel ==
  res = 10 => vals \in Models(Irredundant(clauses))

\* Before each strategy and after the last one the solver is on the root level as it
\* was, without a conflict, and the saved phases are those of the search.
UnluckyRestored ==
  /\ res = 0 \/ (res = -2 /\ pos = Start(strategy)) => vals = root /\ level = 0 /\ ~conflict
  /\ saved = [v \in Vars |-> 1]

Constant(sign) == {sign * v : v \in Vars}

\* The literals of sign and, for variables fixed on the root level, their value.
ConstantModel(sign) == root \cup {lit \in Constant(sign) : -lit \notin root}

\* If all variables set to the same truth value satisfy all clauses, the trivial functions
\* find it: no decision on the way there leads to a conflict. A redundant clause that no
\* longer follows may spoil it ("propagation failed including redundant clauses").
ConstantFound ==
  /\ strategy > 1 => ~Satisfies(ConstantModel(-1), Propagating(clauses))
  /\ strategy > 2 => ~Satisfies(ConstantModel(1), Propagating(clauses))
=============================================================================
