------------------------------ MODULE Checker ------------------------------
(***************************************************************************)
(* checker.cpp: the proof checker that runs along with the solver. It gets *)
(* every clause that is added, derived or deleted, keeps its own watches,  *)
(* root assignment and hash table, and stops the program when a derived    *)
(* clause does not follow by propagation or a deleted one is unknown.      *)
(*                                                                         *)
(* One action per call of the Tracer interface; the solver, which makes    *)
(* the calls, deletes only what it has added.                              *)
(***************************************************************************)
EXTENDS Clauses, SequencesExt

CONSTANTS
  Pool,                    \* literal vectors of the clauses that are added
  Nonce,                   \* id -> hash
  MaxId, MaxDeleted        \* bounds

CheckerAssumption == {MaxId, MaxDeleted} \subseteq Nat \ {0} /\ \A id \in 1..MaxId : Nonce[id] \in Nat

VARIABLES
  mem,                     \* id -> [lits, garbage] for what is allocated
  table,                   \* sequence of chains, each a sequence of ids; its length is size_clauses
  garbage,                 \* ids on the garbage list
  num_clauses, num_garbage,
  size_vars, watchers,     \* literal -> sequence of [blit, size, clause]
  trail,
  inconsistent,
  fatal,                   \* "no", or the call that stopped the program
  last_id, deleted,
  original, live,          \* ghosts: original clauses; id -> clause, what is not deleted
  derived                  \* ghost: [ok, lits, from]: the last derived clause that was checked

vars == <<mem, table, garbage, num_clauses, num_garbage, size_vars, watchers, trail, inconsistent, fatal,
          last_id, deleted, original, live, derived>>

None == [ok |-> TRUE, lits |-> {}, from |-> {}]

Init ==
  /\ mem = <<>> /\ table = <<>> /\ garbage = {} /\ num_clauses = 0 /\ num_garbage = 0
  /\ size_vars = 0 /\ watchers = [lit \in Lits |-> <<>>] /\ trail = <<>>
  /\ inconsistent = FALSE /\ fatal = "no" /\ last_id = 0 /\ deleted = 0
  /\ original = {} /\ live = <<>> /\ derived = None

-----------------------------------------------------------------------------
(* Propagation, on a record s with the fields mem, watchers, trail, next,  *)
(* res and kept.                                                           *)

State == [mem |-> mem, watchers |-> watchers, trail |-> trail, next |-> Len(trail) + 1, res |-> TRUE, kept |-> <<>>]

True(s, lit) == Contains(s.trail, lit)
False(s, lit) == Contains(s.trail, -lit)

Keep(s, w) == [s EXCEPT !.kept = Append(@, w)]
Assign(s, lit) == [s EXCEPT !.trail = Append(@, lit)]

\* One watch w of the false literal lit.
Visit(lit, s, w) ==
  LET c == s.mem[w.clause]
      other == IF c.lits[1] = lit THEN c.lits[2] ELSE c.lits[1]
      lits == [c.lits EXCEPT ![1] = other, ![2] = lit]
      open == {k \in 3..Len(lits) : ~False(s, lits[k])}
      k == Min(open)
      ordered == [s EXCEPT !.mem[w.clause].lits = lits]
  IN  CASE ~s.res \/ True(s, w.blit)            -> Keep(s, w)
        [] OTHER ->
      CASE w.size = 2 /\ False(s, w.blit)       -> [Keep(s, w) EXCEPT !.res = FALSE]
        [] w.size = 2 /\ ~False(s, w.blit)      -> Assign(Keep(s, w), w.blit)
        [] w.size > 2 /\ c.garbage              -> s
        [] OTHER ->
      CASE True(s, other)                       -> Keep(s, [w EXCEPT !.blit = other])
        [] ~True(s, other) /\ open # {}         ->
             [s EXCEPT !.mem[w.clause].lits = [lits EXCEPT ![2] = lits[k], ![k] = lit],
                       !.watchers[lits[k]] = Append(@, [blit |-> lit, size |-> Len(lits), clause |-> w.clause])]
        [] open = {} /\ ~True(s, other) /\ ~False(s, other) -> Assign(Keep(ordered, w), other)
        [] open = {} /\ False(s, other)         -> [Keep(ordered, w) EXCEPT !.res = FALSE]

RECURSIVE Propagate(_)
Propagate(s) ==
  IF ~s.res \/ s.next > Len(s.trail) THEN s
  ELSE LET lit == -s.trail[s.next]
           t == FoldLeft(LAMBDA u, w : Visit(lit, u, w), [s EXCEPT !.kept = <<>>], s.watchers[lit])
       IN  Propagate([t EXCEPT !.watchers[lit] = t.kept, !.next = @ + 1])

\* backtrack: the trail is cut, watches that have been moved stay there.
Backtrack(s, size) == [s EXCEPT !.trail = SubSeq(@, 1, size)]

\* Mutant: the last literal is not assumed.
Checked_short(lits) ==
  LET assumed == FoldLeft(LAMBDA s, lit : IF False(s, lit) THEN s ELSE Assign(s, -lit), State, Front(lits))
  IN  Backtrack(Propagate(assumed), Len(trail))

\* check: the negated literals lead to a conflict.
Checked(lits) ==
  LET assumed == FoldLeft(LAMBDA s, lit : IF False(s, lit) THEN s ELSE Assign(s, -lit), State, lits)
  IN  Backtrack(Propagate(assumed), Len(trail))

-----------------------------------------------------------------------------
(* Hash table.                                                             *)

\* Sizes are powers of two.
ReduceHash(id, size) == Nonce[id] % size

\* enlarge_clauses: every clause is put in front of its new chain.
Enlarged ==
  LET size == IF table = <<>> THEN 1 ELSE 2 * Len(table)
      empty == [h \in 1..size |-> <<>>]
  IN  FoldLeft(LAMBDA t, id : [t EXCEPT ![ReduceHash(id, size) + 1] = <<id>> \o @], empty, FlattenSeq(table))

\* find: the clause of the chain of this id that has the same literals.
Find(id, lits) ==
  LET chain == table[ReduceHash(id, Len(table)) + 1]
  IN  {d \in Range(chain) : Nonce[d] = Nonce[id] /\ Len(mem[d].lits) = Len(lits) /\ Range(mem[d].lits) = Range(lits)}

\* new_clause: the first two literals are exchanged for unassigned ones.
Ordered(s, lits) ==
  LET assigned(lit) == True(s, lit) \/ False(s, lit)
      exchange(l, i) ==
        LET js == {j \in i + 1..Len(l) : ~assigned(l[j])}
        IN  IF ~assigned(l[i]) \/ js = {} THEN l ELSE [l EXCEPT ![i] = l[Min(js)], ![Min(js)] = l[i]]
  IN  exchange(exchange(lits, 1), 2)

\* insert, for a record s of propagation.
Insert(s, id, lits) ==
  LET t == IF num_clauses = Len(table) THEN Enlarged ELSE table
      l == Ordered(s, lits)
      watch(blit) == [blit |-> blit, size |-> Len(l), clause |-> id]
  IN  /\ table' = [t EXCEPT ![ReduceHash(id, Len(t)) + 1] = <<id>> \o @]
      /\ mem' = id :> [lits |-> l, garbage |-> FALSE] @@ s.mem
      /\ watchers' = [s.watchers EXCEPT ![l[1]] = Append(@, watch(l[2])), ![l[2]] = Append(@, watch(l[1]))]
      /\ num_clauses' = num_clauses + 1
      /\ UNCHANGED <<trail, inconsistent>>

-----------------------------------------------------------------------------
(* Calls of the tracer.                                                    *)

\* enlarge_vars in import_literal: capacities are doubled until the variable fits.
Capacity(lits) ==
  LET m == Max({0} \cup {Var(lits[i]) : i \in DOMAIN lits})
      sizes == {n \in {size_vars, 2, 4, 8} : n >= size_vars /\ n > m}
  IN  IF m = 0 \/ m < size_vars THEN size_vars ELSE Min(sizes)

\* tautological: the literals, sorted and each once; satisfied clauses count as well.
Before(a, b) == Var(a) < Var(b) \/ (Var(a) = Var(b) /\ a < b)
Simplified(lits) == SetToSortSeq(Range(lits), Before)
Ignored(lits) == Tautological(Range(lits)) \/ \E i \in DOMAIN lits : Contains(trail, lits[i])

\* Mutant: a unit is not propagated.
Unit_only(s, lit) == Assign(s, lit)

Unit(s, lit) == Propagate(Assign(s, lit))

\* add_clause, after a record s of propagation.
AddClause(s, id, lits) ==
  LET open == {i \in DOMAIN lits : ~False(s, lits[i])}
  IN  \/ Cardinality(open) > 1 /\ Insert(s, id, lits)
      \/ /\ Cardinality(open) < 2
         /\ LET t == IF open = {} THEN [s EXCEPT !.res = FALSE] ELSE Unit(s, lits[Min(open)])
            IN  trail' = t.trail /\ mem' = t.mem /\ watchers' = t.watchers /\ inconsistent' = ~t.res
         /\ UNCHANGED <<table, num_clauses>>

Ignore(s) ==
  /\ mem' = s.mem /\ watchers' = s.watchers
  /\ UNCHANGED <<table, num_clauses, trail, inconsistent>>

New(lits) ==
  /\ fatal = "no" /\ ~inconsistent /\ last_id < MaxId
  /\ last_id' = last_id + 1
  /\ live' = Append(live, Range(lits))
  /\ size_vars' = Capacity(lits)
  /\ UNCHANGED <<garbage, num_garbage, deleted>>

Known == ({live[id] : id \in DOMAIN live} \ {{}}) \cup Units(Range(trail))

AddOriginalClause(lits) ==
  /\ New(lits)
  /\ original' = original \cup {Range(lits)} /\ derived' = None
  /\ IF Ignored(lits) THEN Ignore(State) ELSE AddClause(State, last_id', Simplified(lits))
  /\ UNCHANGED fatal

AddDerivedClause(lits) ==
  LET s == Checked(Simplified(lits))
  IN  /\ New(lits)
      /\ derived' = IF Ignored(lits) THEN None ELSE [ok |-> ~s.res, lits |-> Range(lits), from |-> Known]
      /\ fatal' = IF Ignored(lits) \/ ~s.res THEN "no" ELSE "derived"
      /\ IF Ignored(lits) THEN Ignore(State)
         ELSE IF s.res THEN Ignore(s)
         ELSE AddClause([s EXCEPT !.res = TRUE, !.next = Len(trail) + 1], last_id', Simplified(lits))
      /\ UNCHANGED original

\* collect_garbage_clauses: watches of garbage and of satisfied clauses go.
Collected(w, dead) == [lit \in Lits |-> SelectSeq(w[lit], LAMBDA x : x.clause \notin dead)]

Satisfied(c) == \E i \in DOMAIN c.lits : Contains(trail, c.lits[i])

\* delete_clause: what is found, one clause or none, is marked and unlinked; garbage
\* is collected when there is enough of it.
Deletion(found) ==
  LET marked == garbage \cup found
      satisfied == {x \in DOMAIN mem \ marked : Satisfied(mem[x])}
      dead == marked \cup satisfied
      without(xs) == [h \in DOMAIN table |-> SelectSeq(table[h], LAMBDA x : x \notin xs)]
      enough == 2 * (num_garbage + Cardinality(found)) > Max({Len(table), size_vars})
  IN  /\ fatal' = IF found = {} THEN "deleted" ELSE "no"
      /\ \/ /\ ~enough
            /\ mem' = [x \in DOMAIN mem |-> [mem[x] EXCEPT !.garbage = @ \/ x \in found]]
            /\ garbage' = marked /\ table' = without(found)
            /\ num_clauses' = num_clauses - Cardinality(found)
            /\ num_garbage' = num_garbage + Cardinality(found)
            /\ UNCHANGED watchers
         \/ /\ enough
            /\ mem' = [x \in DOMAIN mem \ dead |-> mem[x]]
            /\ garbage' = {} /\ table' = without(dead)
            /\ watchers' = Collected(watchers, dead)
            /\ num_clauses' = num_clauses - Cardinality(found \cup satisfied) /\ num_garbage' = 0

DeleteClause(id) ==
  LET lits == SetToSortSeq(live[id], Before)
  IN  /\ fatal = "no" /\ ~inconsistent /\ live[id] # {} /\ deleted < MaxDeleted
      /\ deleted' = deleted + 1 /\ derived' = None
      /\ live' = [live EXCEPT ![id] = {}]
      /\ IF Ignored(lits) THEN UNCHANGED <<mem, table, garbage, num_clauses, num_garbage, watchers, fatal>>
         ELSE Deletion(Find(id, lits))
      /\ UNCHANGED <<size_vars, trail, inconsistent, last_id, original>>

Next ==
  \/ \E lits \in Pool : AddOriginalClause(lits) \/ AddDerivedClause(lits)
  \/ \E id \in DOMAIN live : DeleteClause(id)

Spec == Init /\ [][Next]_vars

-----------------------------------------------------------------------------
(* Properties.                                                             *)

Stored == DOMAIN mem \ garbage

TypeOK ==
  /\ \A id \in DOMAIN mem : Range(mem[id].lits) \subseteq Lits /\ Len(mem[id].lits) >= 2
  /\ inconsistent \/ Consistent(Range(trail))
  /\ fatal \in {"no", "derived", "deleted"} /\ \A i \in DOMAIN trail : Var(trail[i]) < size_vars

\* What the checker has accepted follows from the original clauses: the root
\* assignment, every stored clause, and the empty clause if it is inconsistent.
Sound ==
  fatal = "no" =>
    /\ \A i \in DOMAIN trail : Implies(original, {trail[i]})
    /\ \A id \in Stored : Implies(original, Range(mem[id].lits))
    /\ inconsistent => Models(original) = {}

\* A derived clause is refused only if it does not follow by unit propagation from
\* the clauses not deleted and the root assignment: no watch is lost by the checks,
\* deletions and collections before.
RupAccepted ==
  ~derived.ok => ~Conflicting(derived.from, Neg(derived.lits))

\* Nothing that can be propagated is left out, and what propagation refutes is noticed.
RootComplete ==
  ~inconsistent /\ fatal = "no" =>
    /\ UnitPropagate(Known, Range(trail)) = Range(trail)
    /\ ~Conflicting(Known, Range(trail))

\* A clause that was added is found when it is deleted, although the table has been
\* enlarged, satisfied clauses have been collected and units were never stored.
DeletedFound == fatal # "deleted"

\* The table has each stored clause once, in the chain of its hash, and the counters
\* that decide about enlarging and collecting are right.
TableExact ==
  /\ num_clauses = Cardinality(Stored) /\ num_garbage = Cardinality(garbage) /\ garbage \subseteq DOMAIN mem
  /\ \A id \in Stored :
       \A h \in DOMAIN table :
         Len(SelectSeq(table[h], LAMBDA x : x = id)) = IF h = ReduceHash(id, Len(table)) + 1 THEN 1 ELSE 0

\* No watch leads to a clause that has been freed; a stored clause is watched by its
\* first two literals.
WatchesExact ==
  /\ \A lit \in Lits : \A i \in DOMAIN watchers[lit] : watchers[lit][i].clause \in DOMAIN mem
  /\ \A id \in Stored : \A lit \in Lits :
       Len(SelectSeq(watchers[lit], LAMBDA w : w.clause = id))
       = IF lit \in {mem[id].lits[1], mem[id].lits[2]} THEN 1 ELSE 0
=============================================================================
