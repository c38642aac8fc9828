------------------------------ MODULE Collect ------------------------------
(***************************************************************************)
(* The memory of CaDiCaL's clauses: reduce.cpp, which decides what becomes *)
(* garbage, collect.cpp and arena.cpp, which free it and move the rest     *)
(* while watches, occurrence lists and reasons point to it, and the parts  *)
(* of clause.cpp that keep count.                                          *)
(*                                                                         *)
(* A pointer is <<space, offset>>: a clause of its own allocation, or one  *)
(* in one of the two spaces of the arena.  Propagation looks at false       *)
(* watches one by one; module Watches has the loop itself.                 *)
(***************************************************************************)
EXTENDS Clauses, SequencesExt

CONSTANTS
  Formula,             \* sequence of the original clauses, each a sequence of literals
  Learnable,           \* sequences of literals that follow from Formula: [lits, glue]
  Decidable, Addable,  \* literals that are decided, unit clauses that are added
  ArenaTypes, Queue,   \* option arenatype; variables in the order of the decision queue
  Target, Tier1, Tier2,  \* options reducetarget, reducetier1glue, reducetier2glue
  MaxLevel, MaxLearned, MaxUnits, MaxCollections, MaxMarked     \* bounds

CollectAssumption ==
  /\ Decidable \cup Addable \subseteq Lits /\ ArenaTypes \subseteq 1..3 /\ Target \in 10..100
  /\ {MaxLevel, MaxLearned, MaxUnits, MaxCollections, MaxMarked} \subseteq Nat

VARIABLES
  arenatype,
  mem,        \* pointer -> clause, for what is allocated
  clauses,    \* sequence of pointers
  wtab,       \* literal -> sequence of [blit, clause, size]
  otab,       \* literal -> sequence of pointers
  mode,       \* "watching" or, during variable elimination, "occurring"
  trail, control,
  vtab,       \* variable -> [level, reason]
  stats,      \* [irredundant, redundant, irrlits, garbage], the last for clauses and literals
  arena,      \* [space, top, end]: the arena that clauses are in
  last_fixed, all_fixed,                     \* last.collect.fixed and stats.all.fixed
  collections,
  reducing,   \* "no", "reduce" or "flush": between the two halves of reduce
  learned, marked,
  units       \* the unit clauses added

search == <<trail, control, vtab, all_fixed>>
bounds == <<learned, units, marked>>
vars == <<arenatype, mem, clauses, wtab, otab, mode, search, stats, arena, last_fixed,
          collections, reducing, bounds>>

None == <<"none", 0>>
Level == Len(control)
True(lit) == Contains(trail, lit)
False(lit) == Contains(trail, -lit)
Free(lit) == ~True(lit) /\ ~False(lit)
Fixed(lit) == IF True(lit) /\ vtab[Var(lit)].level = 0 THEN 1
              ELSE IF False(lit) /\ vtab[Var(lit)].level = 0 THEN -1 ELSE 0

\* The state that the collector works on, handed from one function to the next.
State == [mem |-> mem, clauses |-> clauses, wtab |-> wtab, otab |-> otab, vtab |-> vtab,
          stats |-> stats, arena |-> arena]

Become(s) ==
  /\ mem' = s.mem /\ clauses' = s.clauses /\ wtab' = s.wtab /\ otab' = s.otab
  /\ vtab' = s.vtab /\ stats' = s.stats /\ arena' = s.arena

Over(Op(_, _), s, pointers) == FoldLeft(Op, s, pointers)

-----------------------------------------------------------------------------
(* Clauses.                                                                *)

Size(c) == Len(c.lits)

ClauseOf(lits, red, glue, hyper) ==
  LET g == IF glue > Len(lits) THEN Len(lits) ELSE glue
  IN  [lits |-> lits, red |-> red, glue |-> g, keep |-> ~red \/ g <= Tier1, hyper |-> hyper,
       used |-> 0, garbage |-> FALSE, reason |-> FALSE]

Count(st, c, n) ==
  IF c.red THEN [st EXCEPT !.redundant = @ + n]
  ELSE [st EXCEPT !.irredundant = @ + n, !.irrlits = @ + n * Size(c)]

\* new_clause, at a pointer not in use.
NewClause(s, p, c) ==
  [s EXCEPT !.mem = p :> c @@ @, !.clauses = Append(@, p), !.stats = Count(@, c, 1)]

Watch(s, p, lit, blit) == [s EXCEPT !.wtab[lit] = Append(@, [blit |-> blit, clause |-> p, size |-> Size(s.mem[p])])]

WatchClause(s, p) == LET l == s.mem[p].lits IN Watch(Watch(s, p, l[1], l[2]), p, l[2], l[1])

MarkGarbage(s, p) ==
  LET c == s.mem[p]
  IN  [s EXCEPT !.mem[p].garbage = TRUE, !.mem[p].used = 0,
                !.stats = [Count(@, c, -1) EXCEPT !.garbage = <<@[1] + 1, @[2] + Size(c)>>]]

Promote(c, glue) ==
  IF c.keep \/ c.hyper \/ glue >= c.glue THEN c
  ELSE IF glue <= Tier1 THEN [c EXCEPT !.keep = TRUE, !.glue = glue]
  ELSE IF c.glue > Tier2 /\ glue <= Tier2 THEN [c EXCEPT !.used = 2, !.glue = glue]
  ELSE [c EXCEPT !.glue = glue]

Smaller(a, b) == IF a < b THEN a ELSE b

\* shrink_clause to the literals lits.
Shrink(s, p, lits) ==
  LET c == [s.mem[p] EXCEPT !.lits = lits]
  IN  IF c.red THEN [s EXCEPT !.mem[p] = Promote(c, Smaller(Len(lits) - 1, c.glue))]
      ELSE [s EXCEPT !.mem[p] = c, !.stats.irrlits = @ - (Size(s.mem[p]) - Len(lits))]

Released(s, p) == [s EXCEPT !.mem = [q \in DOMAIN @ \ {p} |-> @[q]]]

\* delete_clause; in the arena the memory goes with the arena only, but nobody may use it.
DeleteClause(s, p) ==
  LET freed == Released(s, p)
  IN  IF s.mem[p].garbage THEN [freed EXCEPT !.stats.garbage = <<@[1] - 1, @[2] - Size(s.mem[p])>>] ELSE freed

Collectable(c) == c.garbage /\ ~c.reason

-----------------------------------------------------------------------------
(* Search: decisions, propagation, backtracking, learned clauses.          *)

\* search_assign
Assigned(s, lit, level, reason) ==
  /\ trail' = Append(trail, lit)
  /\ vtab' = [s.vtab EXCEPT ![Var(lit)] = [level |-> level, reason |-> IF level = 0 THEN None ELSE reason]]
  /\ all_fixed' = IF level = 0 THEN all_fixed + 1 ELSE all_fixed

AssignmentLevel(lit, c) ==
  Max({0} \cup {vtab[Var(c.lits[i])].level : i \in {j \in DOMAIN c.lits : c.lits[j] # lit}})

\* The watch at position k of lit has to be looked at.
Pending(lit, k) == False(lit) /\ ~True(wtab[lit][k].blit)

Other(c, lit) == IF c.lits[1] = lit THEN c.lits[2] ELSE c.lits[1]

IsConflict(lit, k) ==
  LET w == wtab[lit][k]
      c == mem[w.clause]
  IN  IF w.size = 2 THEN False(w.blit)
      ELSE ~c.garbage /\ \A i \in DOMAIN c.lits : False(c.lits[i])

\* The next watch the loop over the trail and over the watches of its literals comes to.
PendingLits == {i \in DOMAIN trail : \E k \in DOMAIN wtab[-trail[i]] : Pending(-trail[i], k)}
Propagated == mode = "occurring" \/ PendingLits = {}
NextLit == -trail[Min(PendingLits)]
NextWatch == Min({k \in DOMAIN wtab[NextLit] : Pending(NextLit, k)})
Conflict == ~Propagated /\ IsConflict(NextLit, NextWatch)

Unwatch(lit, k) == [wtab EXCEPT ![lit] = RemoveAt(@, k)]

VisitBinary(lit, k) ==
  LET w == wtab[lit][k]
  IN  /\ w.size = 2 /\ Free(w.blit)
      /\ Assigned(State, w.blit, AssignmentLevel(w.blit, mem[w.clause]), w.clause)
      /\ UNCHANGED <<mem, wtab>>

VisitGarbage(lit, k) ==
  /\ wtab[lit][k].size > 2 /\ mem[wtab[lit][k].clause].garbage
  /\ wtab' = Unwatch(lit, k)
  /\ UNCHANGED <<mem, search>>

VisitLarge(lit, k) ==
  LET p == wtab[lit][k].clause
      c == mem[p]
      other == Other(c, lit)
  IN  /\ wtab[lit][k].size > 2 /\ ~c.garbage
      /\ \/ /\ True(other)
            /\ wtab' = [wtab EXCEPT ![lit][k].blit = other]
            /\ UNCHANGED <<mem, search>>
         \/ /\ ~True(other)
            /\ \E i \in 3..Size(c) :
                 \/ /\ True(c.lits[i])
                    /\ wtab' = [wtab EXCEPT ![lit][k].blit = c.lits[i]]
                    /\ UNCHANGED mem
                 \/ /\ Free(c.lits[i])
                    /\ mem' = [mem EXCEPT ![p].lits = [c.lits EXCEPT ![1] = other, ![2] = c.lits[i], ![i] = lit]]
                    /\ wtab' = [Unwatch(lit, k) EXCEPT ![c.lits[i]] =
                                  Append(@, [blit |-> lit, clause |-> p, size |-> Size(c)])]
            /\ UNCHANGED search
         \/ /\ Free(other) /\ \A i \in 3..Size(c) : False(c.lits[i])
            /\ Assigned(State, other, AssignmentLevel(other, c), p)
            /\ UNCHANGED <<mem, wtab>>

Propagate ==
  /\ ~Propagated /\ ~Conflict
  /\ VisitBinary(NextLit, NextWatch) \/ VisitGarbage(NextLit, NextWatch) \/ VisitLarge(NextLit, NextWatch)
  /\ UNCHANGED <<arenatype, clauses, otab, mode, control, stats, arena, last_fixed, collections, reducing, bounds>>

Idle == reducing = "no" /\ mode = "watching" /\ Propagated

Decide(lit) ==
  /\ Idle /\ Level < MaxLevel /\ Free(lit)
  /\ control' = Append(control, Len(trail))
  /\ Assigned(State, lit, Level + 1, None)
  /\ UNCHANGED <<arenatype, mem, clauses, wtab, otab, mode, stats, arena, last_fixed, collections, reducing, bounds>>

\* backtrack: literals of lower levels stay.
Kept(level) == SelectSeq(trail, LAMBDA lit : vtab[Var(lit)].level <= level)

\* What the code leaves behind in vtab is not read before the next assignment.
KeptVtab(level) ==
  [v \in Vars |-> IF Free(v) \/ vtab[v].level > level THEN [level |-> 0, reason |-> None] ELSE vtab[v]]

Backtrack(level) ==
  /\ reducing = "no" /\ mode = "watching" /\ level < Level /\ Propagated
  /\ trail' = Kept(level) /\ control' = SubSeq(control, 1, level) /\ vtab' = KeptVtab(level)
  /\ UNCHANGED <<arenatype, mem, clauses, wtab, otab, mode, all_fixed, stats, arena, last_fixed,
                 collections, reducing, bounds>>

\* analyze: a clause without fixed literals that assigns its first literal on the
\* level of the second, to which or above which the solver backtracks; learned
\* clauses it subsumes become garbage.
Learn(x, level) ==
  LET lits == SelectSeq(x.lits, LAMBDA lit : Fixed(lit) = 0)
      p == <<"heap", Len(Formula) + learned + 1>>
      depth(lit) == vtab[Var(lit)].level
      new == WatchClause(NewClause(State, p, ClauseOf(lits, TRUE, x.glue, FALSE)), p)
      subsumed == SelectSeq(clauses, LAMBDA q : mem[q].red /\ ~mem[q].garbage /\ Range(lits) \subseteq Range(mem[q].lits))
      s == Over(MarkGarbage, new, subsumed)
  IN  /\ reducing = "no" /\ Conflict /\ learned < MaxLearned /\ level < Level
      /\ Len(lits) > 1 /\ \A i \in DOMAIN lits : False(lits[i])
      /\ depth(lits[1]) > level /\ depth(lits[2]) <= level
      /\ \A i \in 3..Len(lits) : depth(lits[i]) <= depth(lits[2])
      /\ learned' = learned + 1
      /\ mem' = s.mem /\ clauses' = s.clauses /\ wtab' = s.wtab /\ stats' = s.stats
      /\ control' = SubSeq(control, 1, level)
      /\ trail' = Append(Kept(level), lits[1])
      /\ vtab' = [KeptVtab(level) EXCEPT ![Var(lits[1])] = [level |-> depth(lits[2]), reason |-> p]]
      /\ UNCHANGED <<arenatype, otab, mode, all_fixed, arena, last_fixed, collections, reducing, units, marked>>

\* bump_clause for a clause of the conflict analysis.
Bump(p) ==
  LET c == mem[p]
      glue == Cardinality({vtab[Var(c.lits[i])].level : i \in DOMAIN c.lits})
  IN  /\ reducing = "no" /\ Conflict /\ Level > 0 /\ c.red /\ ~c.garbage /\ c.used < 2 /\ \A i \in DOMAIN c.lits : ~Free(c.lits[i])
      /\ mem' = [mem EXCEPT ![p] =
           IF c.keep \/ c.hyper THEN [c EXCEPT !.used = 1]
           ELSE IF glue < c.glue THEN Promote([c EXCEPT !.used = 1], glue)
           ELSE [c EXCEPT !.used = IF c.used > 0 /\ c.glue <= Tier2 THEN 2 ELSE 1]]
      /\ UNCHANGED <<arenatype, clauses, wtab, otab, mode, search, stats, arena, last_fixed, collections, reducing, bounds>>

\* assign_original_unit: on any level, out of order.
AddUnit(lit) ==
  /\ reducing = "no" /\ mode = "watching" /\ Propagated /\ Cardinality(units) < MaxUnits /\ Free(lit)
  /\ units' = units \cup {lit} /\ Assigned(State, lit, 0, None)
  /\ UNCHANGED <<arenatype, mem, clauses, wtab, otab, mode, control, stats, arena, last_fixed, collections, reducing,
                 learned, marked>>

-----------------------------------------------------------------------------
(* Inprocessing on the root level.                                         *)

Root == Idle /\ Level = 0

\* A hyper binary resolvent, or another redundant clause found by inprocessing.
AddResolvent(x) ==
  LET p == <<"heap", Len(Formula) + learned + 1>>
      s == WatchClause(NewClause(State, p, ClauseOf(x.lits, TRUE, x.glue, TRUE)), p)
  IN  /\ Root /\ learned < MaxLearned /\ \A i \in DOMAIN x.lits : Free(x.lits[i])
      /\ learned' = learned + 1
      /\ mem' = s.mem /\ clauses' = s.clauses /\ wtab' = s.wtab /\ stats' = s.stats
      /\ UNCHANGED <<arenatype, otab, mode, search, arena, last_fixed, collections, reducing, units, marked>>

\* A clause that another one subsumes is marked, also while clauses are connected in occurrence lists.
MarkSubsumed(p, q) ==
  /\ Root \/ mode = "occurring"
  /\ p # q /\ marked < MaxMarked /\ ~mem[p].garbage /\ ~mem[q].garbage
  /\ Range(mem[q].lits) \subseteq Range(mem[p].lits) /\ (mem[q].red => mem[p].red)
  /\ Become(MarkGarbage(State, p)) /\ marked' = marked + 1
  /\ UNCHANGED <<arenatype, mode, trail, control, all_fixed, last_fixed, collections, reducing, learned, units>>

\* reset_watches and init_occs for elimination; all irredundant clauses are connected.
Connect ==
  /\ Root /\ collections < MaxCollections
  /\ mode' = "occurring" /\ wtab' = [lit \in Lits |-> <<>>]
  /\ otab' = [lit \in Lits |-> SelectSeq(clauses, LAMBDA p :
                ~mem[p].garbage /\ ~mem[p].red /\ Fixed(lit) = 0 /\ Contains(mem[p].lits, lit))]
  /\ UNCHANGED <<arenatype, mem, clauses, search, stats, arena, last_fixed, collections, reducing, bounds>>

\* reset_occs, init_watches and connect_watches: binary clauses first.
Reconnect ==
  LET live(binary) == SelectSeq(clauses, LAMBDA p : ~mem[p].garbage /\ (Size(mem[p]) = 2) = binary)
      s == Over(WatchClause, State, live(TRUE) \o live(FALSE))
  IN  /\ mode = "occurring"
      /\ mode' = "watching" /\ wtab' = s.wtab /\ otab' = [lit \in Lits |-> <<>>]
      /\ UNCHANGED <<arenatype, mem, clauses, search, stats, arena, last_fixed, collections, reducing, bounds>>

-----------------------------------------------------------------------------
(* Garbage collection.                                                     *)

\* remove_falsified_literals
WithoutFalse(s, p) ==
  LET lits == SelectSeq(s.mem[p].lits, LAMBDA lit : Fixed(lit) >= 0)
  IN  IF Len(lits) < 2 THEN s ELSE Shrink(s, p, lits)

ContainsFixed(c) ==
  IF \E i \in DOMAIN c.lits : Fixed(c.lits[i]) > 0 THEN 1
  ELSE IF \E i \in DOMAIN c.lits : Fixed(c.lits[i]) < 0 THEN -1 ELSE 0

\* mark_satisfied_clauses_as_garbage, skipped if there are no new units.
Satisfied(s) ==
  LET step(t, p) == IF t.mem[p].garbage THEN t
                    ELSE CASE ContainsFixed(t.mem[p]) > 0 -> MarkGarbage(t, p)
                           [] ContainsFixed(t.mem[p]) < 0 -> WithoutFalse(t, p)
                           [] OTHER -> t
  IN  IF last_fixed >= all_fixed THEN s ELSE Over(step, s, s.clauses)

\* Mutant: of the last literal on the trail only.
Reasons_last(s) == IF trail = <<>> THEN {} ELSE {s.vtab[Var(trail[Len(trail)])].reason} \ {None}

Reasons(s) ==
  {s.vtab[Var(trail[i])].reason : i \in {j \in DOMAIN trail : Fixed(trail[j]) = 0}} \ {None}

Protect(s) == [s EXCEPT !.mem = [p \in DOMAIN @ |-> [@[p] EXCEPT !.reason = @ \/ p \in Reasons(s)]]]

Unprotect(s) == [s EXCEPT !.mem = [p \in DOMAIN @ |-> [@[p] EXCEPT !.reason = @ /\ p \notin Reasons(s)]]]

\* flush_watches: what is collected goes, the rest follows the clause (at, to which it has
\* moved), with a new blocking literal and size, binary clauses first.
FlushWatches(s, at, lit) ==
  LET live == SelectSeq(s.wtab[lit], LAMBDA w : ~Collectable(s.mem[w.clause]))
      flushed == [k \in DOMAIN live |->
                    LET c == s.mem[live[k].clause]
                    IN  [blit |-> IF c.lits[1] = lit THEN c.lits[2] ELSE c.lits[1],
                         clause |-> at[live[k].clause], size |-> Size(c)]]
  IN  SelectSeq(flushed, LAMBDA w : w.size = 2) \o SelectSeq(flushed, LAMBDA w : w.size > 2)

\* flush_occs
FlushOccs(s, at, lit) ==
  LET live == SelectSeq(s.otab[lit], LAMBDA p : ~Collectable(s.mem[p]))
  IN  [k \in DOMAIN live |-> at[live[k]]]

Flush(s, at) ==
  [s EXCEPT !.otab = [lit \in Lits |-> FlushOccs(s, at, lit)],
            !.wtab = [lit \in Lits |-> FlushWatches(s, at, lit)]]

Stay(s) == [p \in DOMAIN s.mem |-> p]

\* delete_garbage_clauses
DeleteGarbage(s) ==
  LET dead == SelectSeq(s.clauses, LAMBDA p : Collectable(s.mem[p]))
      kept == [Flush(s, Stay(s)) EXCEPT !.clauses = SelectSeq(@, LAMBDA p : ~Collectable(s.mem[p]))]
  IN  Over(DeleteClause, kept, dead)

\* The literals whose watches are copied one after the other.
WatchOrder ==
  LET idx == IF arenatype = 2 THEN SetToSortSeq(Vars, <) ELSE Reverse(Queue)
  IN  [k \in DOMAIN idx |-> -idx[k]] \o idx

Appended(seq, new) == FoldLeft(LAMBDA t, p : IF Contains(t, p) THEN t ELSE Append(t, p), seq, new)

\* The order of the calls of copy_clause: first what is in the arena (arenacompact),
\* then by arenatype, at last what has not been moved yet.
CopyOrder(s) ==
  LET live(seq) == SelectSeq(seq, LAMBDA p : ~Collectable(s.mem[p]))
      inside == SelectSeq(live(s.clauses), LAMBDA p : p[1] = s.arena.space)
      watched == FlattenSeq([k \in DOMAIN WatchOrder |->
                   LET ws == s.wtab[WatchOrder[k]] IN [j \in DOMAIN ws |-> ws[j].clause]])
      localized == IF arenatype = 1 \/ mode = "occurring" THEN live(s.clauses) ELSE live(watched)
  IN  Appended(Appended(inside, localized), live(s.clauses))

Bytes(s, pointers) == FoldLeft(LAMBDA n, p : n + Size(s.mem[p]), 0, pointers)

ToSpace(s) == IF s.arena.space = "A" THEN "B" ELSE "A"

MovedReason(at, p) == IF p = None THEN None ELSE at[p]

\* copy_non_garbage_clauses with Arena::prepare, copy and swap; arenasort sorts by pointers.
CopyNonGarbage(s) ==
  LET order == CopyOrder(s)
      live == Range(order)
      index(p) == Max({k \in DOMAIN order : order[k] = p})
      at == [p \in DOMAIN s.mem |->
               IF p \in live THEN <<ToSpace(s), Bytes(s, SubSeq(order, 1, index(p) - 1))>> ELSE p]
      flushed == Flush(s, at)
      dead == SelectSeq(s.clauses, LAMBDA p : Collectable(s.mem[p]))
      deleted == Over(DeleteClause, flushed, dead)
      moved == {at[p] : p \in live}
  IN  [deleted EXCEPT
        !.mem = [q \in moved |-> s.mem[CHOOSE p \in live : at[p] = q]],
        !.clauses = SetToSortSeq(moved, LAMBDA p, q : p[2] < q[2]),
        !.vtab = [v \in Vars |-> IF v \in {Var(trail[k]) : k \in DOMAIN trail} /\ Fixed(v) = 0
                                 THEN [@[v] EXCEPT !.reason = MovedReason(at, @)] ELSE @[v]],
        !.arena = [space |-> ToSpace(s), top |-> Bytes(s, order),
                   end |-> Bytes(s, SelectSeq(s.clauses, LAMBDA p : ~Collectable(s.mem[p])))]]

\* garbage_collection
Collected(s) ==
  LET p == Protect(Satisfied(s))
  IN  Unprotect(IF collections + 1 > 1 THEN CopyNonGarbage(p) ELSE DeleteGarbage(p))

\* In elimination, and before compacting or local search.
Collect ==
  /\ (Root \/ mode = "occurring") /\ collections < MaxCollections
  /\ Become(Collected(State))
  /\ collections' = collections + 1 /\ last_fixed' = all_fixed
  /\ UNCHANGED <<arenatype, mode, trail, control, all_fixed, reducing, bounds>>

\* remove_garbage_binaries: the branch that would backtrack asks for a reason that is
\* collected, which collect excludes.
RemoveGarbageBinaries ==
  /\ reducing = "no" /\ mode = "watching" /\ \E p \in DOMAIN mem : mem[p].garbage
  /\ Become(Unprotect(DeleteGarbage(Protect(State))))
  /\ UNCHANGED <<arenatype, mode, trail, control, all_fixed, last_fixed, collections, reducing, bounds>>

-----------------------------------------------------------------------------
(* Reduce.                                                                 *)

Candidate(c) == c.red /\ ~c.garbage /\ ~c.reason

\* mark_clauses_to_be_flushed
Flushed(s) ==
  LET step(t, p) == IF ~Candidate(t.mem[p]) THEN t
                    ELSE IF t.mem[p].used > 0 THEN [t EXCEPT !.mem[p].used = @ - 1]
                    ELSE MarkGarbage(t, p)
  IN  Over(step, s, s.clauses)

LessUseful(c, d) == c.glue > d.glue \/ (c.glue = d.glue /\ Size(c) > Size(d))

\* mark_useless_redundant_clauses_as_garbage
Reduced(s) ==
  LET candidates == SelectSeq(s.clauses, LAMBDA p : Candidate(s.mem[p]))
      hyper == SelectSeq(candidates, LAMBDA p : s.mem[p].hyper /\ s.mem[p].used = 0)
      stack == SelectSeq(candidates, LAMBDA p : ~s.mem[p].hyper /\ s.mem[p].used = 0 /\ ~s.mem[p].keep)
      pos(p) == CHOOSE k \in DOMAIN stack : stack[k] = p
      before(p, q) == \/ LessUseful(s.mem[p], s.mem[q])
                      \/ ~LessUseful(s.mem[q], s.mem[p]) /\ pos(p) < pos(q)
      sorted == SetToSortSeq(Range(stack), before)
      useless == SubSeq(sorted, 1, (Target * Len(stack)) \div 100)
      aged == [s EXCEPT !.mem = [p \in DOMAIN @ |->
                 IF p \in Range(candidates) /\ @[p].used > 0 THEN [@[p] EXCEPT !.used = @ - 1] ELSE @[p]]]
  IN  Over(MarkGarbage, aged, hyper \o useless)

\* propagate_out_of_order_units: there is a unit behind the first decision.
OutOfOrder == Level > 0 /\ \E i \in DOMAIN trail : i > control[1] /\ vtab[Var(trail[i])].level = 0

\* The first half of reduce, up to a propagation that may fail.
StartReduce(kind) ==
  /\ Idle /\ stats.redundant > 0 /\ collections < MaxCollections
  /\ reducing' = kind
  /\ trail' = IF OutOfOrder THEN Kept(0) ELSE trail
  /\ control' = IF OutOfOrder THEN <<>> ELSE control
  /\ vtab' = IF OutOfOrder THEN KeptVtab(0) ELSE vtab
  /\ UNCHANGED <<arenatype, mem, clauses, wtab, otab, mode, all_fixed, stats, arena, last_fixed, collections, bounds>>

Reduce ==
  LET s == Protect(Satisfied(State))
  IN  /\ reducing # "no" /\ Propagated
      /\ Become(Collected(IF reducing = "flush" THEN Flushed(s) ELSE Reduced(s)))
      /\ reducing' = "no" /\ collections' = collections + 1 /\ last_fixed' = all_fixed
      /\ UNCHANGED <<arenatype, mode, trail, control, all_fixed, bounds>>

-----------------------------------------------------------------------------
Original == [k \in DOMAIN Formula |-> <<"heap", k>>]

Init ==
  LET empty == [mem |-> [p \in {} |-> None], clauses |-> <<>>, wtab |-> [lit \in Lits |-> <<>>],
                otab |-> [lit \in Lits |-> <<>>], vtab |-> [v \in Vars |-> [level |-> 0, reason |-> None]],
                stats |-> [irredundant |-> 0, redundant |-> 0, irrlits |-> 0, garbage |-> <<0, 0>>],
                arena |-> [space |-> "none", top |-> 0, end |-> 0]]
      add(s, p) == WatchClause(NewClause(s, p, ClauseOf(Formula[p[2]], FALSE, 0, FALSE)), p)
      s == Over(add, empty, Original)
  IN  /\ arenatype \in ArenaTypes
      /\ mem = s.mem /\ clauses = s.clauses /\ wtab = s.wtab /\ otab = s.otab /\ vtab = s.vtab
      /\ stats = s.stats /\ arena = s.arena
      /\ mode = "watching" /\ trail = <<>> /\ control = <<>>
      /\ last_fixed = 0 /\ all_fixed = 0 /\ collections = 0 /\ reducing = "no"
      /\ learned = 0 /\ units = {} /\ marked = 0

Next ==
  \/ Propagate
  \/ \E lit \in Decidable : Decide(lit)
  \/ \E level \in 0..MaxLevel : Backtrack(level) \/ \E x \in Learnable : Learn(x, level)
  \/ \E p \in DOMAIN mem : Bump(p) \/ \E q \in DOMAIN mem : MarkSubsumed(p, q)
  \/ \E lit \in Addable : AddUnit(lit)
  \/ \E x \in Learnable : AddResolvent(x)
  \/ Connect \/ Reconnect \/ Collect \/ RemoveGarbageBinaries
  \/ \E kind \in {"reduce", "flush"} : StartReduce(kind)
  \/ Reduce

Spec == Init /\ [][Next]_vars

-----------------------------------------------------------------------------
(* Properties.                                                             *)

Watchers == UNION {{wtab[lit][k].clause : k \in DOMAIN wtab[lit]} : lit \in Lits}
Live == {p \in DOMAIN mem : ~mem[p].garbage}

TypeOK ==
  /\ \A p \in DOMAIN mem : /\ Range(mem[p].lits) \subseteq Lits /\ Size(mem[p]) >= 2
                           /\ mem[p].glue <= Size(mem[p]) /\ mem[p].used \in 0..2 /\ ~mem[p].reason
  /\ \A lit \in Lits : ~Contains(trail, lit) \/ ~Contains(trail, -lit)

\* No pointer leads to a clause that has been freed or moved away, from the list of
\* clauses, a watch, an occurrence list or the reason of an assigned variable; the
\* list has every clause once.
NoDangling ==
  /\ Range(clauses) = DOMAIN mem /\ Len(clauses) = Cardinality(DOMAIN mem)
  /\ Watchers \cup UNION {Range(otab[lit]) : lit \in Lits} \subseteq DOMAIN mem
  /\ \A i \in DOMAIN trail : vtab[Var(trail[i])].reason \in DOMAIN mem \cup {None}

\* A clause not marked as garbage is watched once by each of its first two literals,
\* which flush_watches asserts as FW1, and the copies of its size and of a literal in
\* the watches are right; occurrence lists are complete.
ConnectedExact ==
  \A p \in Live :
    LET c == mem[p]
        watched(lit) == SelectSeq(wtab[lit], LAMBDA w : w.clause = p)
    IN  IF mode = "watching"
        THEN \A lit \in Lits :
               /\ Len(watched(lit)) = IF lit \in {c.lits[1], c.lits[2]} THEN 1 ELSE 0
               /\ \A w \in Range(watched(lit)) : w.size = Size(c) /\ w.blit \in Range(c.lits) \ {lit}
        ELSE ~c.red => \A i \in DOMAIN c.lits : Fixed(c.lits[i]) = 0 => Contains(otab[c.lits[i]], p)

\* The reason of an assigned literal is a clause that has the literal as one of its first
\* two and whose other literals are false, on no higher level.
ReasonsExact ==
  \A i \in DOMAIN trail :
    LET v == vtab[Var(trail[i])]
        c == mem[v.reason]
    IN  v.reason # None =>
          /\ v.reason \in DOMAIN mem
          /\ trail[i] \in {c.lits[1], c.lits[2]}
          /\ \A lit \in Range(c.lits) \ {trail[i]} : False(lit) /\ vtab[Var(lit)].level <= v.level

\* check_clause_stats: the counters are those of the clauses; the counters of garbage
\* decide when elimination collects.
StatsExact ==
  LET sizes(P) == MapThenSumSet(LAMBDA p : Size(mem[p]), P)
      irredundant == {p \in Live : ~mem[p].red}
  IN  stats = [irredundant |-> Cardinality(irredundant), redundant |-> Cardinality(Live \ irredundant),
               irrlits |-> sizes(irredundant), garbage |-> <<Cardinality(DOMAIN mem \ Live), sizes(DOMAIN mem \ Live)>>]

\* The irredundant clauses and the fixed literals have the models of the formula with
\* the units added: nothing is lost, and no literal is fixed on the root level that
\* does not follow.
ModelsKept ==
  LET fixed == {{trail[i]} : i \in {j \in DOMAIN trail : Fixed(trail[j]) > 0}}
  IN  Models({Range(mem[p].lits) : p \in {q \in Live : ~mem[q].red}} \cup fixed)
      = Models({Range(Formula[k]) : k \in DOMAIN Formula} \cup Units(units))

\* The collector skips the clauses if there is no new unit since its last call: then
\* none of them has a fixed literal. compact asserts this for every literal.
NoFixedLiterals ==
  last_fixed = all_fixed /\ Propagated => \A p \in Live : ContainsFixed(mem[p]) = 0

\* The space prepared for the clauses that are moved is filled exactly.
ArenaFilled == arena.top = arena.end
=============================================================================
