------------------------------ MODULE Binaries ------------------------------
(***************************************************************************)
(* What is done to binary clauses alone: the removal of duplicates with    *)
(* hyper unary resolution (deduplicate.cpp) and transitive reduction of    *)
(* the implication graph (transred.cpp), called in any order.              *)
(*                                                                         *)
(* Watch lists hold the clauses in the order of the database when          *)
(* duplicates are looked for; transitive reduction may meet them in any    *)
(* order and from either end of the clause.                                *)
(***************************************************************************)
EXTENDS Clauses, SequencesExt

CONSTANTS
  Databases,           \* sequences of clauses [lits, red]
  MaxCalls             \* bound on the number of calls

CallsAssumption == MaxCalls \in Nat

VARIABLES
  original,            \* ghost: the irredundant clauses at the beginning
  clauses,             \* the database, a sequence of clauses with their flags
  units, unsat,
  pc, calls,
  lit, i, marks,       \* deduplication: the literal, the clause, the clause of a marked literal
  src, dst, work       \* transitive reduction of clauses[i]: the literals reached

vars == <<original, clauses, units, unsat, pc, calls, lit, i, marks, src, dst, work>>

Kept(c) == ~c.garbage

Irredundant == {clauses[k].lits : k \in {j \in DOMAIN clauses : Kept(clauses[j]) /\ ~clauses[j].red}}

Active(l) == {l, -l} \cap units = {}

NoMarks == [l \in Lits |-> 0]

Init ==
  /\ \E D \in Databases :
       /\ clauses = [k \in DOMAIN D |-> [lits |-> D[k].lits, red |-> D[k].red, hyper |-> D[k].hyper,
                                         transred |-> FALSE, garbage |-> FALSE]]
       /\ original = {D[k].lits : k \in {j \in DOMAIN D : ~D[j].red}}
  /\ units = {} /\ unsat = FALSE
  /\ pc = "idle" /\ calls = 0
  /\ lit = 0 /\ i = 0 /\ marks = NoMarks /\ src = 0 /\ dst = 0 /\ work = {}

Idle(next) == pc = "idle" /\ ~unsat /\ calls < MaxCalls /\ calls' = calls + 1 /\ pc' = next

MarkGarbage(k) == clauses' = [clauses EXCEPT ![k].garbage = TRUE]

\* assign_unit and propagate.
Assign(l) ==
  LET F == {clauses[k].lits : k \in DOMAIN clauses}
  IN  /\ unsat' = Conflicting(F, units \cup {l})
      /\ units' = IF unsat' THEN units ELSE UnitPropagate(F, units \cup {l})

-----------------------------------------------------------------------------
(* mark_duplicated_binary_clauses_as_garbage                               *)

\* The literals in the order of the loops: by variable, the negative one first.
NextLit(l) == IF l < 0 THEN -l ELSE -(l + 1)

Deduplicate ==
  /\ Idle("deduplicate")
  /\ lit' = -1 /\ i' = 1 /\ marks' = NoMarks
  /\ UNCHANGED <<original, clauses, units, unsat, src, dst, work>>

\* The next literal, or the end.
Advance(l) ==
  /\ marks' = NoMarks
  /\ IF Var(l) \in Vars THEN lit' = l /\ i' = 1 /\ pc' = pc ELSE lit' = 0 /\ i' = 0 /\ pc' = "idle"

SkipLit ==
  /\ pc = "deduplicate" /\ ~unsat
  /\ ~Active(lit) \/ i > Len(clauses)
  /\ Advance(NextLit(lit))
  /\ UNCHANGED <<original, clauses, units, unsat, calls, src, dst, work>>

Watched(k, l) == l \in clauses[k].lits /\ Cardinality(clauses[k].lits) = 2

Other(k, l) == CHOOSE other \in clauses[k].lits : other # l

\* Of two copies the later one is removed unless it is irredundant.
Duplicate(k, first) == IF clauses[k].red THEN k ELSE first

Marks(k, other) == Kept(clauses[k])

\* One watch of the literal.  Both phases of another literal give a unit.
Scan ==
  /\ pc = "deduplicate" /\ ~unsat /\ Active(lit) /\ i <= Len(clauses)
  /\ IF ~Watched(i, lit)
     THEN i' = i + 1 /\ UNCHANGED <<clauses, units, unsat, lit, marks, pc>>
     ELSE LET other == Other(i, lit)
          IN  \/ /\ marks[other] # 0
                 /\ IF Kept(clauses[i])
                    THEN /\ MarkGarbage(Duplicate(i, marks[other]))
                         /\ marks' = [marks EXCEPT ![other] = IF clauses[i].red THEN @ ELSE i]
                    ELSE UNCHANGED <<clauses, marks>>
                 /\ i' = i + 1
                 /\ UNCHANGED <<units, unsat, lit, pc>>
              \/ /\ marks[other] = 0 /\ marks[-other] # 0
                 /\ Assign(lit)
                 /\ Advance(-(Var(lit) + 1))
                 /\ UNCHANGED clauses
              \/ /\ marks[other] = 0 /\ marks[-other] = 0
                 /\ marks' = IF Marks(i, other) THEN [marks EXCEPT ![other] = i] ELSE marks
                 /\ i' = i + 1
                 /\ UNCHANGED <<clauses, units, unsat, lit, pc>>
  /\ UNCHANGED <<original, calls, src, dst, work>>

-----------------------------------------------------------------------------
(* transred                                                                *)

Candidate(c) == Kept(c) /\ Cardinality(c.lits) = 2 /\ ~(c.red /\ c.hyper)

\* Find the first clause that has not been tried; if there is none, all are
\* tried again.
Transred ==
  /\ Idle("transred")
  /\ LET untried == {k \in DOMAIN clauses : Candidate(clauses[k]) /\ ~clauses[k].transred}
     IN  IF untried # {} THEN i' = Min(untried) /\ UNCHANGED clauses
         ELSE i' = 1 /\ clauses' = [k \in DOMAIN clauses |-> [clauses[k] EXCEPT !.transred = FALSE]]
  /\ UNCHANGED <<original, units, unsat, lit, marks, src, dst, work>>

\* The clause is no candidate, was tried or has a value.
Pass ==
  /\ pc = "transred" /\ ~unsat /\ src = 0 /\ i <= Len(clauses)
  /\ LET c == clauses[i]
     IN  /\ ~Candidate(c) \/ c.transred \/ \E l \in c.lits : ~Active(l)
         /\ clauses' = IF Candidate(c) THEN [clauses EXCEPT ![i].transred = TRUE] ELSE clauses
  /\ i' = i + 1
  /\ UNCHANGED <<original, units, unsat, pc, calls, lit, marks, src, dst, work>>

\* Try a clause: does its implication have another path?
Try(l) ==
  /\ pc = "transred" /\ ~unsat /\ src = 0 /\ i <= Len(clauses)
  /\ LET c == clauses[i]
     IN  /\ Candidate(c) /\ ~c.transred /\ \A k \in c.lits : Active(k)
         /\ l \in c.lits
         /\ src' = -l /\ dst' = Other(i, l)
  /\ clauses' = [clauses EXCEPT ![i].transred = TRUE]
  /\ work' = {[lit |-> -l, done |-> FALSE]}
  /\ UNCHANGED <<original, units, unsat, pc, calls, lit, i, marks>>

\* Implications of binary clauses other than the one that is tried; for an
\* irredundant one, of irredundant clauses.
Edge(k, from, to) ==
  /\ k # i /\ Kept(clauses[k]) /\ clauses[k].lits = {-from, to}
  /\ clauses[i].red \/ ~clauses[k].red

Successors(from) == {to \in Lits : \E k \in DOMAIN clauses : Edge(k, from, to)}

Reached == {w.lit : w \in work}

\* The end of a try.
Done == src' = 0 /\ dst' = 0 /\ work' = {} /\ i' = i + 1

Trying(from) ==
  /\ pc = "transred" /\ src # 0 /\ ~unsat
  /\ [lit |-> from, done |-> FALSE] \in work
  /\ UNCHANGED <<original, pc, calls, lit, marks>>

\* The other literal is reached: the clause is transitive.
Transitive(from) ==
  /\ Trying(from) /\ dst \in Successors(from)
  /\ MarkGarbage(i) /\ Done
  /\ UNCHANGED <<units, unsat>>

FailedLiteral(to) == src

\* A literal is reached in both phases: the source fails.
Failed(from, to) ==
  /\ Trying(from) /\ to \in Successors(from) \ {dst} /\ -to \in Reached
  /\ Assign(-FailedLiteral(to)) /\ Done
  /\ UNCHANGED clauses

Expand(from) ==
  /\ Trying(from) /\ dst \notin Successors(from)
  /\ \A to \in Successors(from) : -to \notin Reached
  /\ work' = (work \ {[lit |-> from, done |-> FALSE]})
               \cup {[lit |-> from, done |-> TRUE]}
               \cup {[lit |-> to, done |-> FALSE] : to \in Successors(from) \ Reached}
  /\ UNCHANGED <<clauses, units, unsat, i, src, dst>>

\* Everything is reached and the clause is kept.
Keep ==
  /\ pc = "transred" /\ src # 0 /\ \A w \in work : w.done
  /\ Done
  /\ UNCHANGED <<original, clauses, units, unsat, pc, calls, lit, marks>>

\* All clauses were tried, or the limit on propagations is reached.
Stop ==
  /\ pc = "transred" /\ src = 0
  /\ pc' = "idle" /\ i' = 0
  /\ UNCHANGED <<original, clauses, units, unsat, calls, lit, marks, src, dst, work>>

Next ==
  \/ Deduplicate \/ SkipLit \/ Scan \/ Transred \/ Pass \/ Keep \/ Stop
  \/ \E l \in Lits : Try(l) \/ Transitive(l) \/ Expand(l) \/ \E to \in Lits : Failed(l, to)

Spec == Init /\ [][Next]_vars

-----------------------------------------------------------------------------
\* Type invariant: marks are kept clauses with the literals that are looked at.
TypeOK ==
  /\ Consistent(units) /\ units \subseteq Lits
  /\ \A l \in Lits : marks[l] # 0 => Kept(clauses[marks[l]]) /\ clauses[marks[l]].lits = {lit, l}
  /\ pc \in {"idle", "deduplicate", "transred"} /\ calls \in 0..MaxCalls
  /\ i \in 0..(Len(clauses) + 1)

\* Units follow from the formula, and it is refuted only if it is unsatisfiable.
UnitsImplied ==
  IF unsat THEN Models(original) = {} ELSE \A l \in units : Implies(original, {l})

\* The irredundant clauses that are kept and the units still say all the formula
\* said: an irredundant clause is never dropped for the sake of a redundant one.
NothingLost == ~unsat => \A C \in original : Implies(Irredundant \cup Units(units), C)

Unassigned == {k \in DOMAIN clauses : Kept(clauses[k]) /\ \A l \in clauses[k].lits : Active(l)}

\* What the flag 'transred' says: the clause was tried, and no other path
\* replaces it.
RECURSIVE Reach(_, _)
Reach(S, k) ==
  LET T == S \cup {to \in Lits : \E from \in S, j \in DOMAIN clauses :
                     /\ j # k /\ Kept(clauses[j]) /\ clauses[j].lits = {-from, to}
                     /\ clauses[k].red \/ ~clauses[j].red}
  IN  IF T = S THEN S ELSE Reach(T, k)

Reduced ==
  ~unsat => \A k \in Unassigned : (clauses[k].transred /\ ~(src # 0 /\ k = i)) =>
     \A l \in clauses[k].lits : Other(k, l) \notin Reach({-l}, k)
=============================================================================
