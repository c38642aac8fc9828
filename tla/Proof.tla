------------------------------- MODULE Proof -------------------------------
(***************************************************************************)
(* proof.cpp with a chain builder and a checker connected: what the solver *)
(* tells its proof goes to the builder first, and with the chain it gives  *)
(* to the checker, which runs on chains that nobody else looks at.         *)
(*                                                                         *)
(* The solver makes the calls. It gives new ids, deletes, weakens and      *)
(* strengthens clauses it has, restores what was weakened and deleted, and *)
(* may derive any clause.                                                  *)
(***************************************************************************)
EXTENDS LratChecker

CONSTANTS
  Pool,                    \* literal vectors of original clauses
  Derivable,               \* literal vectors of derived clauses, each literal once
  Assumable, Constraint,   \* literals that are assumed, literal vector of a constraint
  reserved_ids,            \* ids kept for original clauses
  MaxId, MaxRemoved, MaxWeakened   \* bounds

ProofAssumption == reserved_ids \in Nat /\ {MaxId, MaxRemoved, MaxWeakened} \subseteq Nat /\ \A l \in Derivable : IsInjective(l)

-----------------------------------------------------------------------------
(***************************************************************************)
(* lratbuilder.cpp: the builder of proof chains. It follows the clauses    *)
(* the solver adds, derives and deletes with a root assignment of its own, *)
(* and finds for a derived clause the sequence of ids by which it follows. *)
(*                                                                         *)
(* The builder is a record b and each of its functions an operator that    *)
(* gives the record after the call, since several calls are made in one    *)
(* step. Fields:                                                           *)
(*   mem        address -> [id, lits, garbage] for what is allocated       *)
(*   units      unit_clauses, a sequence of addresses                      *)
(*   watchers   literal -> sequence of [blit, size, clause]                *)
(*   trail, next                                                           *)
(*   reasons, unit_reasons   variable -> address or 0                      *)
(*   inconsistent, iclause, ichain   inconsistent_clause, ids of its chain *)
(*   num_clauses, num_garbage, size_clauses, size_vars                     *)
(*   conflict   address or 0                                               *)
(*   chain      the ids returned                                           *)
(*   fatal      "no", or the call that stopped the program                 *)
(***************************************************************************)
\* Reason of an assumed literal.
Assumption == -1

Constructed ==
  [mem |-> <<>>, units |-> <<>>, watchers |-> [lit \in Lits |-> <<>>],
   trail |-> <<>>, next |-> 0,
   reasons |-> [v \in Vars |-> 0], unit_reasons |-> [v \in Vars |-> 0],
   inconsistent |-> FALSE, iclause |-> 0, ichain |-> <<>>,
   num_clauses |-> 0, num_garbage |-> 0, size_clauses |-> 0, size_vars |-> 0,
   conflict |-> 0, chain |-> <<>>, fatal |-> "no"]

True(b, lit) == Contains(b.trail, lit)
False(b, lit) == Contains(b.trail, -lit)
Unassigned(b, lit) == ~True(b, lit) /\ ~False(b, lit)

-----------------------------------------------------------------------------
(* Propagation. A watch list is emptied and filled again with what stays.  *)

AssignReason(b, lit, c) == [b EXCEPT !.trail = Append(@, lit), !.reasons[Var(lit)] = c]

\* backtrack: the trail is cut to this size.
Backtrack(b, size) ==
  LET gone == {Var(b.trail[i]) : i \in size + 1..Len(b.trail)}
  IN  [b EXCEPT !.trail = SubSeq(@, 1, size), !.next = size,
                !.reasons = [v \in Vars |-> IF v \in gone THEN 0 ELSE @[v]]]

\* One unit clause.
VisitUnit(b, c) ==
  LET lit == b.mem[c].lits[1]
      kept == [b EXCEPT !.units = Append(@, c)]
  IN  CASE b.conflict # 0                          -> kept
        [] b.conflict = 0 /\ b.mem[c].garbage     -> b
        [] OTHER ->
      CASE True(b, lit)                            -> kept
        [] Unassigned(b, lit)                      -> AssignReason(kept, lit, c)
        [] False(b, lit)                           -> [kept EXCEPT !.conflict = c]

UnitPropagated(b) == FoldLeft(VisitUnit, [b EXCEPT !.units = <<>>, !.conflict = 0], b.units)

\* One watch w of the false literal lit.
Visit(lit, b, w) ==
  LET c == b.mem[w.clause]
      other == IF c.lits[1] = lit THEN c.lits[2] ELSE c.lits[1]
      lits == [c.lits EXCEPT ![1] = other, ![2] = lit]
      open == {k \in 3..Len(lits) : ~False(b, lits[k])}
      k == Min(open)
      Keep(s, x) == [s EXCEPT !.watchers[lit] = Append(@, x)]
      ordered == [b EXCEPT !.mem[w.clause].lits = lits]
  IN  CASE b.conflict # 0                     -> Keep(b, w)
        [] b.conflict = 0 /\ c.garbage        -> b
        [] OTHER ->
      CASE True(b, w.blit)                    -> Keep(b, w)
        [] False(b, w.blit) /\ w.size = 2     -> [Keep(b, w) EXCEPT !.conflict = w.clause]
        [] Unassigned(b, w.blit) /\ w.size = 2 -> AssignReason(Keep(b, w), w.blit, w.clause)
        [] OTHER ->
      CASE True(b, other)                     -> Keep(b, [w EXCEPT !.blit = other])
        [] ~True(b, other) /\ open # {}       ->
             [b EXCEPT !.mem[w.clause].lits = [lits EXCEPT ![2] = lits[k], ![k] = lit],
                       !.watchers[lits[k]] = Append(@, [blit |-> lit, size |-> Len(lits), clause |-> w.clause])]
        [] Unassigned(b, other) /\ open = {}  -> AssignReason(Keep(ordered, w), other, w.clause)
        [] False(b, other) /\ open = {}       -> [Keep(ordered, w) EXCEPT !.conflict = w.clause]

RECURSIVE WatchesPropagated(_)
WatchesPropagated(b) ==
  IF b.conflict # 0 \/ b.next = Len(b.trail) THEN b
  ELSE LET lit == -b.trail[b.next + 1]
           visited == FoldLeft(LAMBDA s, w : Visit(lit, s, w), [b EXCEPT !.watchers[lit] = <<>>], b.watchers[lit])
       IN  WatchesPropagated([visited EXCEPT !.next = @ + 1])

Propagated(b) == WatchesPropagated(UnitPropagated(b))

-----------------------------------------------------------------------------
(* Chains.                                                                 *)

\* construct_chain: the reasons of what the variables of todo depend on, but for the
\* ones that are justified, in the order of the trail and before the ids of last.
ConstructChain(b, justified, todo, last) ==
  LET reason(v) == IF b.unit_reasons[v] # 0 THEN b.unit_reasons[v] ELSE b.reasons[v]
      step(s, lit) ==
        LET v == Var(lit) IN
        IF v \in s.todo \ justified
        THEN [chain |-> <<b.mem[reason(v)].id>> \o s.chain,
              todo |-> s.todo \cup {Var(l) : l \in Range(b.mem[reason(v)].lits)}]
        ELSE s
  IN  FoldLeft(step, [chain |-> last, todo |-> todo], Reverse(b.trail)).chain

VarsOf(lits) == {Var(lits[i]) : i \in DOMAIN lits}

\* proof_inconsistent_clause: the chain is kept for the next time.
ProofInconsistent(b) ==
  LET chain == IF b.ichain # <<>> THEN b.ichain
               ELSE ConstructChain(b, {}, VarsOf(b.mem[b.iclause].lits), <<b.mem[b.iclause].id>>)
  IN  [b EXCEPT !.chain = chain, !.ichain = chain]

\* proof_clause after the propagation p, and the assumptions taken back.
ProofClause(p, lits, size) ==
  IF p.conflict = 0 THEN [Backtrack(p, size) EXCEPT !.fatal = "derived"]
  ELSE [Backtrack(p, size) EXCEPT
          !.chain = ConstructChain(p, VarsOf(lits), VarsOf(p.mem[p.conflict].lits), <<p.mem[p.conflict].id>>)]

\* Assumes the negation of what is not assigned.
Assumed(b, lits) ==
  FoldLeft(LAMBDA s, lit : IF Unassigned(s, lit) THEN AssignReason(s, -lit, Assumption) ELSE s, b, lits)

\* build_chain_if_possible, which for a satisfied clause takes the chain of its first
\* true literal.
BuildChain(b, lits) ==
  LET true == {i \in DOMAIN lits : True(b, lits[i])}
  IN  CASE Tautological(Range(lits)) -> [b EXCEPT !.chain = <<>>]
        [] OTHER ->
      CASE b.inconsistent                 -> ProofInconsistent(b)
        [] ~b.inconsistent /\ true # {}   ->
             [b EXCEPT !.chain = ConstructChain(b, {}, {Var(lits[Min(true)])}, <<>>)]
        [] ~b.inconsistent /\ true = {}   -> ProofClause(Propagated(Assumed(b, lits)), lits, Len(b.trail))

-----------------------------------------------------------------------------
(* Clauses.                                                                *)

\* lit_smaller; tautological sorts and takes duplicates out.
Before(x, y) == Var(x) < Var(y) \/ (Var(x) = Var(y) /\ x < y)
Simplified(lits) == SetToSortSeq(Range(lits), Before)

\* enlarge_vars: capacities are doubled until the variable fits.
Enlarge(b, lits) ==
  LET m == Max({0} \cup VarsOf(lits))
  IN  [b EXCEPT !.size_vars = IF m = 0 \/ m < @ THEN @ ELSE Min({n \in {2, 4, 8} : n > m})]

\* The first two literals are exchanged for ones that are not false.
Ordered(b, lits) ==
  LET exchange(l, i) ==
        LET js == {j \in i + 1..Len(l) : ~False(b, l[j])}
        IN  IF ~False(b, l[i]) \/ js = {} THEN l ELSE [l EXCEPT ![i] = l[Min(js)], ![Min(js)] = l[i]]
  IN  exchange(exchange(lits, 1), 2)

\* An address that is not in use.
Free(b) == 1 + Max({0} \cup DOMAIN b.mem)

\* insert and new_clause; tautological clauses are not watched.
Inserted(b, id, lits) ==
  LET l == IF Len(lits) < 2 THEN lits ELSE Ordered(b, lits)
      watch(blit) == [blit |-> blit, size |-> Len(l), clause |-> Free(b)]
      size == CASE b.num_clauses # b.size_clauses -> b.size_clauses
                [] OTHER -> IF b.size_clauses = 0 THEN 1 ELSE 2 * b.size_clauses
      stored == [b EXCEPT !.mem = Free(b) :> [id |-> id, lits |-> l, garbage |-> FALSE] @@ @,
                          !.num_clauses = @ + 1, !.size_clauses = size,
                          !.units = IF Len(l) = 1 THEN Append(@, Free(b)) ELSE @]
  IN  IF Len(l) < 2 \/ Tautological(Range(l)) THEN stored
      ELSE [stored EXCEPT !.watchers[l[1]] = Append(@, watch(l[2])), !.watchers[l[2]] = Append(@, watch(l[1]))]

\* The root assignment after propagation.
Noted(b) == IF b.conflict = 0 THEN b ELSE [b EXCEPT !.inconsistent = TRUE, !.iclause = b.conflict]

\* add_clause.
AddClause(b, id, lits) ==
  LET c == Inserted(b, id, lits)
      free == {i \in DOMAIN lits : Unassigned(b, lits[i])}
      unit == lits[Min(free)]
      known == IF Len(lits) = 1 THEN [c EXCEPT !.unit_reasons[Var(unit)] = Free(b)] ELSE c
  IN  CASE b.inconsistent \/ (\E i \in DOMAIN lits : True(b, lits[i])) \/ Cardinality(free) > 1 -> c
        [] OTHER ->
      CASE free = {}  -> [c EXCEPT !.inconsistent = TRUE, !.iclause = Free(b)]
        [] free # {}  -> Noted(Propagated(AssignReason(known, unit, Free(b))))

Clean(b) == [b EXCEPT !.conflict = 0]

BuilderAddOriginal(b, id, lits) == Clean(AddClause(Enlarge(b, lits), id, Simplified(lits)))

\* add_clause_get_proof.
BuilderAddDerived(b, id, lits) ==
  LET added(built) == IF built.fatal = "no" THEN AddClause(built, id, Simplified(lits)) ELSE built
  IN  Clean(added(BuildChain(Enlarge(b, lits), Simplified(lits))))

\* collect_garbage_clauses.
Collected(b) ==
  LET dead == {c \in DOMAIN b.mem : b.mem[c].garbage}
  IN  [b EXCEPT !.watchers = [lit \in Lits |-> SelectSeq(@[lit], LAMBDA w : w.clause \notin dead)],
                !.units = SelectSeq(@, LAMBDA c : c \notin dead),
                !.mem = [c \in DOMAIN @ \ dead |-> @[c]],
                !.num_garbage = 0]

\* The trail before a variable that has lost its reason.
Cut(b, v) == Backtrack(b, Min({i \in DOMAIN b.trail : Var(b.trail[i]) = v}) - 1)

\* After all of the trail has been propagated again.
Recovered(p) == IF p.conflict # 0 THEN Noted(p) ELSE [p EXCEPT !.inconsistent = FALSE, !.iclause = 0]

Repaired(b, d, units) ==
  LET again(s) == Recovered(Propagated([s EXCEPT !.next = 0, !.ichain = <<>>]))
  IN  CASE units # {} -> again(Cut(b, Min(units)))
        [] units = {} -> IF b.inconsistent /\ b.iclause = d THEN again(b) ELSE b

CollectedIfEnough(b) == IF 2 * b.num_garbage > Max({b.size_clauses, b.size_vars}) THEN Collected(b) ELSE b

\* find.
Find(b, id) == {c \in DOMAIN b.mem : b.mem[c].id = id /\ ~b.mem[c].garbage}

\* delete_clause.
BuilderDelete(b, id) ==
  LET d == Min(Find(b, id))
      lits == b.mem[d].lits
      marked == [b EXCEPT !.mem[d].garbage = TRUE, !.num_clauses = @ - 1, !.num_garbage = @ + 1,
                          !.unit_reasons = [v \in Vars |-> IF Len(lits) = 1 /\ @[v] = d THEN 0 ELSE @[v]]]
  IN  IF Find(b, id) = {} THEN [b EXCEPT !.fatal = "deleted"]
      ELSE Clean(CollectedIfEnough(Repaired(marked, d, {v \in VarsOf(lits) : b.reasons[v] = d})))

-----------------------------------------------------------------------------
(* The calls of the solver.                                                *)

VARIABLES
  builder, checker,        \* records of the builder and of LratChecker
  clause_id, original_id,  \* last ids given
  live,                    \* id -> literals: clauses the solver has
  removed,                 \* id -> literals: clauses that were weakened and are deleted
  constrained,             \* whether the constraint has been added
  conclusion,              \* ids of assumption clauses
  removals,
  original,                \* ghost: every original clause
  last                     \* ghost: [lits, from]: the last clause the builder saw and what it followed from

vars == <<builder, checker, clause_id, original_id, live, removed, constrained, conclusion, removals, original, last>>

Clause(id) == Range(live[id])

Init ==
  /\ builder = Constructed
  /\ checker = [CheckerConstructed EXCEPT !.current_id = reserved_ids]
  /\ clause_id = reserved_ids /\ original_id = 0 /\ live = <<>> /\ removed = <<>>
  /\ constrained = FALSE /\ conclusion = <<>> /\ removals = 0
  /\ original = {} /\ last = [lits |-> {}, from |-> {}]

Running == builder.fatal = "no" /\ checker.fatal = "no"

\* The tracers are called when the builder has gone through.
Traced(c) == checker' = IF builder'.fatal = "no" THEN c ELSE checker

Seen(lits) == last' = [lits |-> Range(lits), from |-> {Clause(id) : id \in DOMAIN live}]

Without(f, id) == [x \in DOMAIN f \ {id} |-> f[x]]

-----------------------------------------------------------------------------
\* add_original_clause: ids from the reserved ones as long as there are any.
AddOriginalClause(lits) ==
  LET id == IF original_id < reserved_ids THEN original_id + 1 ELSE clause_id + 1
  IN  /\ Running /\ clause_id < MaxId
      /\ builder' = BuilderAddOriginal(builder, id, lits)
      /\ Traced(CheckerAddOriginal(checker, id, lits, FALSE))
      /\ original_id' = IF original_id < reserved_ids THEN id ELSE original_id
      /\ clause_id' = IF original_id < reserved_ids THEN clause_id ELSE id
      /\ live' = id :> lits @@ live
      /\ original' = original \cup {Range(lits)}
      /\ UNCHANGED <<removed, constrained, conclusion, removals, last>>

AddDerivedClause(lits) ==
  LET id == clause_id + 1
  IN  /\ Running /\ clause_id < MaxId
      /\ builder' = BuilderAddDerived(builder, id, lits)
      /\ Traced(CheckerAddDerived(checker, id, lits, builder'.chain))
      /\ clause_id' = id /\ live' = id :> lits @@ live
      /\ Seen(lits)
      /\ UNCHANGED <<original_id, removed, constrained, conclusion, removals, original>>

\* A clause is derived and, if this was possible, another one or itself deleted.
DerivedDeleted(b, new, lits, id) ==
  LET delete(added) == IF added.fatal = "no" THEN BuilderDelete(added, id) ELSE added
  IN  delete(BuilderAddDerived(b, new, lits))

\* The two calls of flush_clause and strengthen_clause.
Replaced(id, new, lits) ==
  /\ builder' = DerivedDeleted(builder, new, lits, id)
  /\ Traced(CheckerDelete(CheckerAddDerived(checker, new, lits, builder'.chain), id, live[id]))

\* flush_clause and strengthen_clause: the clause without some literals is derived and
\* takes the place of the old one.
StrengthenClause(id, out) ==
  LET new == clause_id + 1
      lits == SelectSeq(Simplified(live[id]), LAMBDA lit : lit \notin out)
  IN  /\ Running /\ clause_id < MaxId /\ removals < MaxRemoved /\ out # {}
      /\ Replaced(id, new, lits)
      /\ clause_id' = new /\ live' = new :> lits @@ Without(live, id)
      /\ removals' = removals + 1 /\ Seen(lits)
      /\ UNCHANGED <<original_id, removed, constrained, conclusion, original>>

DeleteClause(id) ==
  /\ Running /\ removals < MaxRemoved
  /\ builder' = BuilderDelete(builder, id)
  /\ Traced(CheckerDelete(checker, id, live[id]))
  /\ live' = Without(live, id) /\ removals' = removals + 1
  /\ removed' = IF id \in DOMAIN checker.weakened THEN id :> live[id] @@ removed ELSE removed
  /\ UNCHANGED <<clause_id, original_id, constrained, conclusion, original, last>>

\* weaken_minus goes to the tracers only.
WeakenMinus(id) ==
  /\ Running /\ id \notin DOMAIN checker.weakened /\ Cardinality(DOMAIN checker.weakened) < MaxWeakened
  /\ checker' = CheckerWeaken(checker, id, live[id])
  /\ UNCHANGED <<builder, clause_id, original_id, live, removed, constrained, conclusion, removals, original, last>>

\* add_external_original_clause with restore.
RestoreClause(id) ==
  /\ Running
  /\ builder' = BuilderAddOriginal(builder, id, removed[id])
  /\ Traced(CheckerAddOriginal(checker, id, removed[id], TRUE))
  /\ live' = id :> removed[id] @@ live /\ removed' = Without(removed, id)
  /\ UNCHANGED <<clause_id, original_id, constrained, conclusion, removals, original, last>>

AddAssumption(lit) ==
  /\ Running /\ lit \notin checker.assumptions /\ ~checker.concluded
  /\ checker' = CheckerAddAssumption(checker, lit)
  /\ UNCHANGED <<builder, clause_id, original_id, live, removed, constrained, conclusion, removals, original, last>>

AddConstraint ==
  /\ Running /\ Constraint # <<>> /\ ~constrained /\ ~checker.concluded
  /\ checker' = CheckerAddConstraint(checker, Constraint) /\ constrained' = TRUE
  /\ UNCHANGED <<builder, clause_id, original_id, live, removed, conclusion, removals, original, last>>

\* add_assumption_clause: derived and deleted at once. The solver has one clause of
\* negated assumptions, or one of these for each literal of the constraint in turn.
AddAssumptionClause(lits) ==
  LET id == clause_id + 1
  IN  /\ Running /\ clause_id < MaxId /\ ~checker.concluded
      /\ Len(conclusion) < IF constrained THEN Cardinality(Range(Constraint)) ELSE 1
      /\ builder' = DerivedDeleted(builder, id, lits, id)
      /\ Traced(CheckerAssumptionClause(checker, id, lits, builder'.chain))
      /\ clause_id' = id /\ conclusion' = Append(conclusion, id)
      /\ Seen(lits)
      /\ UNCHANGED <<original_id, live, removed, constrained, removals, original>>

\* Clauses for the next call of add_assumption_clause.
Cores ==
  LET negated == Neg(checker.assumptions)
      next == Simplified(Constraint)[Len(conclusion) + 1]
      cores == IF constrained /\ Len(conclusion) < Cardinality(Range(Constraint))
               THEN {C \cup {-next} : C \in SUBSET negated}
               ELSE SUBSET negated \ {{}}
  IN  {SetToSortSeq(C, Before) : C \in {D \in cores : ~Tautological(D)}}

Conclude ==
  LET empty == {id \in DOMAIN live : live[id] = <<>>}
      type == CASE empty # {} -> "conflict" [] OTHER -> IF constrained THEN "constraint" ELSE "assumptions"
      ids == IF empty # {} THEN <<Min(empty)>> ELSE conclusion
  IN  /\ Running /\ ~checker.concluded
      /\ empty # {} \/ Len(conclusion) = IF constrained THEN Cardinality(Range(Constraint)) ELSE 1
      /\ checker' = ConcludeUnsat(checker, type, ids)
      /\ UNCHANGED <<builder, clause_id, original_id, live, removed, constrained, conclusion, removals, original, last>>

ResetAssumptions ==
  /\ Running /\ (checker.assumptions # {} \/ checker.concluded)
  /\ checker' = CheckerReset(checker)
  /\ constrained' = FALSE /\ conclusion' = <<>>
  /\ UNCHANGED <<builder, clause_id, original_id, live, removed, removals, original, last>>

\* Internal::finalize: every clause the solver has, then report_status.
Finalize ==
  /\ Running /\ live # <<>>
  /\ checker' = ReportStatus(FoldLeft(LAMBDA c, id : FinalizeClause(c, id, live[id]), checker, SetToSeq(DOMAIN live)))
  /\ UNCHANGED <<builder, clause_id, original_id, live, removed, constrained, conclusion, removals, original, last>>

Next ==
  \/ \E lits \in Pool : AddOriginalClause(lits)
  \/ \E lits \in Derivable : AddDerivedClause(lits)
  \/ \E id \in DOMAIN live : DeleteClause(id) \/ WeakenMinus(id) \/ \E out \in SUBSET Clause(id) : StrengthenClause(id, out)
  \/ \E id \in DOMAIN removed : RestoreClause(id)
  \/ \E lit \in Assumable : AddAssumption(lit)
  \/ AddConstraint
  \/ \E lits \in Cores : AddAssumptionClause(lits)
  \/ Conclude \/ ResetAssumptions \/ Finalize

Spec == Init /\ [][Next]_vars

-----------------------------------------------------------------------------
(* Properties.                                                             *)

Live == {Clause(id) : id \in DOMAIN live}

TypeOK ==
  /\ builder.fatal \in {"no", "derived"} /\ Consistent(Range(builder.trail))
  /\ builder.fatal = "no" => builder.num_clauses = Cardinality(DOMAIN live)
  /\ builder.num_garbage = Cardinality(DOMAIN builder.mem) - builder.num_clauses
  /\ \A i \in DOMAIN builder.trail : Var(builder.trail[i]) < builder.size_vars

\* Every chain the builder makes passes both checks of the checker, and what the solver
\* deletes, restores, concludes and finalizes is what the checker expects, in whatever
\* order this happens.
CheckerAccepts == checker.fatal = "no"

\* A tautology is not used, nor is the empty clause if it came while the builder was
\* inconsistent already: it is not the clause whose deletion is waited for.
Useful(F) == {C \in F : ~Tautological(C)} \ {{}}

\* The builder gives up on a clause only if it does not follow by unit propagation from
\* the clauses there are.
BuilderComplete ==
  builder.fatal = "derived" => ~Conflicting(Useful(last.from), Neg(last.lits))

\* The builder is inconsistent only if unit propagation refutes the clauses there are, and
\* always if it refutes the ones of use: deleting a reason or the conflict takes it back.
InconsistentExact ==
  builder.fatal = "no" =>
    /\ builder.inconsistent => Conflicting(Live, {})
    /\ Conflicting(Useful(Live), {}) => builder.inconsistent

\* The root assignment is ordered: the reason of a literal is a clause there is, and its
\* other literals were false before. Nothing that can be propagated is left out.
TrailJustified ==
  LET val(n) == {builder.trail[i] : i \in 1..n}
  IN  builder.fatal = "no" =>
        /\ \A i \in DOMAIN builder.trail :
             LET lit == builder.trail[i]  id == builder.mem[builder.reasons[Var(lit)]].id
             IN  id \in DOMAIN live /\ lit \in Clause(id) /\ Neg(Clause(id) \ {lit}) \subseteq val(i - 1)
        /\ ~builder.inconsistent => UnitPropagate(Live, {}) = Range(builder.trail)

\* No watch, unit, reason or cached chain leads to a clause that has been freed or, in
\* the case of chains and reasons, deleted.
NoDangling ==
  builder.fatal = "no" =>
    /\ \A lit \in Lits : \A i \in DOMAIN builder.watchers[lit] : builder.watchers[lit][i].clause \in DOMAIN builder.mem
    /\ Range(builder.units) \subseteq DOMAIN builder.mem
    /\ Range(builder.ichain) \subseteq DOMAIN live
    /\ \A c \in (Range(builder.unit_reasons) \cup {builder.iclause}) \ {0} :
         c \in DOMAIN builder.mem /\ ~builder.mem[c].garbage
=============================================================================
