------------------------------ MODULE Compact ------------------------------
(***************************************************************************)
(* Variables of the user and of the solver (external.cpp, flags.cpp,       *)
(* queue.hpp) and compact.cpp, which renumbers the solver's variables in   *)
(* the middle of the search: inactive ones go, all fixed ones share one.   *)
(*                                                                         *)
(* The data of an internal variable is a record; ghost variables keep the  *)
(* user's view, on which compacting must have no effect.                   *)
(***************************************************************************)
EXTENDS Integers, FiniteSets, SequencesExt

CONSTANTS
  EVars,               \* external variables, 1..n
  EClauses,            \* external clauses
  Assumable,           \* external literals
  Freezable, Fixable,  \* bounds: variables the user freezes, literals that become fixed
  Constraints,         \* sets of external literals
  MaxCompacts, MaxFrozen, MaxAssumptions, MaxBumped, MaxReactivated      \* bounds

CompactAssumption ==
  /\ EVars = 1..Cardinality(EVars)
  /\ {MaxCompacts, MaxFrozen, MaxAssumptions, MaxBumped, MaxReactivated} \subseteq Nat

VARIABLES
  ivar,     \* sequence of [status, val, i2e, frozen, saved, prev, next, unit, nunit];
            \* unit and nunit are the ids of the unit clauses of the two literals
  queue,    \* [first, last]
  clauses, trail, assumptions, constraint, unsat_constraint,
  evar,     \* external variable -> [e2i, unit, nunit, frozen]
  eassumptions, econstraint,
  clause_id,
  stats,    \* counters [active, inactive, fixed, eliminated] of internal variables
  fixed,    \* ghost: external literal -> id of its unit clause, 0 if it is not fixed
  eclauses, \* ghost: external clauses not removed by elimination
  phases,   \* ghost: external variable -> saved phase
  order,    \* ghost: external variables in the order of the queue
  compacts, bumped, reactivated

vars == <<ivar, queue, clauses, trail, assumptions, constraint, unsat_constraint, evar,
          eassumptions, econstraint, clause_id, stats, fixed, eclauses, phases, order, compacts, bumped, reactivated>>

Var(lit) == IF lit < 0 THEN -lit ELSE lit
Sign(lit) == IF lit < 0 THEN -1 ELSE 1
ELits == EVars \cup {-e : e \in EVars}

NewVar(e, prev, next) ==
  [status |-> "active", val |-> 0, i2e |-> e, frozen |-> 0, saved |-> 1, prev |-> prev,
   next |-> next, unit |-> 0, nunit |-> 0]

Init ==
  LET n == Cardinality(EVars)
  IN  /\ ivar = [i \in 1..n |-> NewVar(i, i - 1, IF i = n THEN 0 ELSE i + 1)]
      /\ queue = [first |-> 1, last |-> n]
      /\ clauses = EClauses /\ trail = <<>>
      /\ assumptions = <<>> /\ constraint = {} /\ unsat_constraint = FALSE
      /\ evar = [e \in EVars |-> [e2i |-> e, unit |-> 0, nunit |-> 0, frozen |-> 0]]
      /\ eassumptions = <<>> /\ econstraint = {} /\ clause_id = Cardinality(EClauses)
      /\ stats = [active |-> n, inactive |-> 0, fixed |-> 0, eliminated |-> 0]
      /\ fixed = [elit \in ELits |-> 0] /\ eclauses = EClauses
      /\ phases = [e \in EVars |-> 1] /\ order = [e \in 1..n |-> e]
      /\ compacts = 0 /\ bumped = 0 /\ reactivated = 0

Active == {i \in DOMAIN ivar : ivar[i].status = "active"}
Val(lit) == Sign(lit) * ivar[Var(lit)].val

external == <<evar, eassumptions, econstraint>>
ghosts == <<fixed, eclauses, phases, order>>

-----------------------------------------------------------------------------
(* Search and inprocessing.                                                *)

Externalize(lit) == Sign(lit) * ivar[Var(lit)].i2e

\* A unit clause is learned on the root level.
Fix(lit) ==
  /\ Var(lit) \in Active /\ Externalize(lit) \in Fixable /\ clause_id' = clause_id + 1
  /\ ivar' = [ivar EXCEPT ![Var(lit)].status = "fixed", ![Var(lit)].val = Sign(lit),
                          ![Var(lit)].unit = IF lit > 0 THEN clause_id' ELSE 0,
                          ![Var(lit)].nunit = IF lit < 0 THEN clause_id' ELSE 0]
  /\ trail' = Append(trail, lit)
  /\ stats' = [stats EXCEPT !.active = @ - 1, !.inactive = @ + 1, !.fixed = @ + 1]
  /\ fixed' = [fixed EXCEPT ![Externalize(lit)] = clause_id']
  /\ order' = SelectSeq(order, LAMBDA e : e # ivar[Var(lit)].i2e)
  /\ UNCHANGED <<queue, clauses, assumptions, constraint, unsat_constraint, external,
                 eclauses, phases, compacts, bumped, reactivated>>

\* mark_eliminated, mark_pure and mark_substituted: frozen variables stay.
Eliminate(i) ==
  /\ i \in Active /\ ivar[i].frozen = 0
  /\ ivar' = [ivar EXCEPT ![i].status = "eliminated"]
  /\ clauses' = {C \in clauses : {i, -i} \cap C = {}}
  /\ stats' = [stats EXCEPT !.active = @ - 1, !.inactive = @ + 1, !.eliminated = @ + 1]
  /\ eclauses' = {C \in eclauses : {ivar[i].i2e, -ivar[i].i2e} \cap C = {}}
  /\ order' = SelectSeq(order, LAMBDA e : e # ivar[i].i2e)
  /\ UNCHANGED <<queue, trail, assumptions, constraint, unsat_constraint, external, clause_id,
                 fixed, phases, compacts, bumped, reactivated>>

Dequeue(iv, i) ==
  [j \in DOMAIN iv |-> IF j = iv[i].prev THEN [iv[j] EXCEPT !.next = iv[i].next]
                       ELSE IF j = iv[i].next THEN [iv[j] EXCEPT !.prev = iv[i].prev] ELSE iv[j]]

Enqueue(iv, i, last) ==
  [j \in DOMAIN iv |-> IF j = i THEN [iv[j] EXCEPT !.prev = last, !.next = 0]
                       ELSE IF j = last THEN [iv[j] EXCEPT !.next = i] ELSE iv[j]]

\* bump_queue and a new saved phase.
Bump(i) ==
  /\ i \in Active /\ ivar[i].next # 0 /\ bumped < MaxBumped
  /\ ivar' = [Enqueue(Dequeue(ivar, i), i, queue.last) EXCEPT ![i].saved = -@]
  /\ queue' = [first |-> IF queue.first = i THEN ivar[i].next ELSE queue.first, last |-> i]
  /\ phases' = [phases EXCEPT ![ivar[i].i2e] = -@]
  /\ order' = Append(SelectSeq(order, LAMBDA e : e # ivar[i].i2e), ivar[i].i2e)
  /\ bumped' = bumped + 1
  /\ UNCHANGED <<clauses, trail, assumptions, constraint, unsat_constraint, external,
                 clause_id, stats, fixed, eclauses, compacts, reactivated>>

-----------------------------------------------------------------------------
(* Calls of the user.                                                      *)

\* internalize: the internal variable of e, a new one if it has none.
Internalized(e) ==
  LET n == Len(ivar) + 1
      old == Var(evar[e].e2i)
  IN  IF evar[e].e2i = 0
      THEN [i |-> n,
            ivar |-> Append([j \in DOMAIN ivar |-> IF j = queue.last THEN [ivar[j] EXCEPT !.next = n] ELSE ivar[j]],
                            NewVar(e, queue.last, 0)),
            queue |-> [first |-> IF queue.first = 0 THEN n ELSE queue.first, last |-> n]]
      ELSE [i |-> evar[e].e2i,
            ivar |-> IF ivar[old].status = "eliminated" THEN [ivar EXCEPT ![old].status = "active"] ELSE ivar,
            queue |-> queue]

\* The queue keeps an eliminated variable in its place, a new one is the last.
ReactivatedOrder(e, iv, first) ==
  LET position[i \in 0..Len(iv)] == IF i = 0 THEN <<>> ELSE IF iv[i].next = 0 THEN <<i>> ELSE <<i>> \o position[iv[i].next]
      active == SelectSeq(position[first], LAMBDA i : iv[i].status = "active")
  IN  [k \in DOMAIN active |-> iv[active[k]].i2e]

\* mark_active for a new variable, reactivate for an eliminated one.
Activated(e) ==
  IF evar[e].e2i = 0 THEN [stats EXCEPT !.active = @ + 1]
  ELSE IF ivar[Var(evar[e].e2i)].status = "eliminated"
       THEN [stats EXCEPT !.active = @ + 1, !.inactive = @ - 1, !.eliminated = @ - 1]
       ELSE stats

\* A call that uses e and freezes its internal variable n times.
Use(e, n) ==
  LET r == Internalized(e)
      new == evar[e].e2i = 0 \/ ivar[Var(evar[e].e2i)].status = "eliminated"
  IN  /\ new => reactivated < MaxReactivated
      /\ reactivated' = IF new THEN reactivated + 1 ELSE reactivated
      /\ ivar' = [r.ivar EXCEPT ![Var(r.i)].frozen = @ + n]
      /\ queue' = r.queue
      /\ stats' = Activated(e)
      /\ order' = ReactivatedOrder(e, r.ivar, r.queue.first)
      /\ phases' = IF evar[e].e2i = 0 THEN [phases EXCEPT ![e] = 1] ELSE phases

Freeze(e) ==
  /\ evar[e].frozen < MaxFrozen
  /\ Use(e, 1)
  /\ evar' = [evar EXCEPT ![e].frozen = @ + 1, ![e].e2i = Internalized(e).i]
  /\ UNCHANGED <<clauses, trail, assumptions, constraint, unsat_constraint, eassumptions, econstraint,
                 clause_id, fixed, eclauses, compacts, bumped>>

Melt(e) ==
  /\ evar[e].frozen > 0
  /\ evar' = [evar EXCEPT ![e].frozen = @ - 1]
  /\ ivar' = [ivar EXCEPT ![Var(evar[e].e2i)].frozen = @ - 1]
  /\ UNCHANGED <<queue, clauses, trail, assumptions, constraint, unsat_constraint, eassumptions,
                 econstraint, clause_id, stats, ghosts, compacts, bumped, reactivated>>

Assume(elit) ==
  LET ilit == Sign(elit) * Internalized(Var(elit)).i
      again == ilit \in Range(assumptions)
  IN  /\ Len(eassumptions) < MaxAssumptions
      /\ Use(Var(elit), IF again THEN 0 ELSE 1)
      /\ eassumptions' = Append(eassumptions, elit)
      /\ assumptions' = IF again THEN assumptions ELSE Append(assumptions, ilit)
      /\ evar' = [evar EXCEPT ![Var(elit)].e2i = Internalized(Var(elit)).i]
      /\ UNCHANGED <<clauses, trail, constraint, unsat_constraint, econstraint, clause_id, fixed, eclauses,
                     compacts, bumped>>

\* constrain with the zero at the end, for internal literals S and values iv.
Constrained(iv, S) ==
  LET value(lit) == Sign(lit) * iv[Var(lit)].val
      satisfied == \E lit \in S : value(lit) > 0 \/ -lit \in S
      open == {lit \in S : value(lit) = 0}
  IN  [lits |-> IF satisfied THEN {} ELSE open, unsat |-> ~satisfied /\ open = {}]

Times(C, i) == Cardinality({i, -i} \cap C)

\* For variables in use: reactivating works as for assumptions.
Constrain(E) ==
  LET S == {Sign(elit) * evar[Var(elit)].e2i : elit \in E}
      c == Constrained(ivar, S)
  IN  /\ econstraint = {} /\ \A elit \in E : evar[Var(elit)].e2i # 0 /\ ivar[Var(evar[Var(elit)].e2i)].status # "eliminated"
      /\ econstraint' = E /\ constraint' = c.lits /\ unsat_constraint' = c.unsat
      /\ ivar' = [i \in DOMAIN ivar |-> [ivar[i] EXCEPT !.frozen = @ + Times(c.lits, i)]]
      /\ UNCHANGED <<queue, clauses, trail, assumptions, evar, eassumptions, clause_id, stats, ghosts,
                     compacts, bumped, reactivated>>

\* reset_assumptions and reset_constraint melt what they froze.
Melted(iv) ==
  [i \in DOMAIN iv |-> [iv[i] EXCEPT !.frozen = @ - Times(Range(assumptions), i) - Times(constraint, i)]]

Reset ==
  /\ eassumptions # <<>> \/ econstraint # {}
  /\ ivar' = Melted(ivar)
  /\ assumptions' = <<>> /\ eassumptions' = <<>> /\ constraint' = {} /\ econstraint' = {}
  /\ unsat_constraint' = FALSE
  /\ UNCHANGED <<queue, clauses, trail, evar, clause_id, stats, ghosts, compacts, bumped, reactivated>>

-----------------------------------------------------------------------------
(* Compacting.                                                             *)

FixedVars == {i \in DOMAIN ivar : ivar[i].status = "fixed"}
FirstFixed == IF FixedVars = {} THEN 0 ELSE Min(FixedVars)
Mapped == Active \cup ({FirstFixed} \ {0})

\* Mapper::table: the kept variables are numbered in their order.
MapIdx(i) == IF i \in Mapped THEN Cardinality({j \in Mapped : j <= i}) ELSE 0

\* Mutant: the sign of the shared fixed variable is not looked at.
MapLit_unsigned(lit) ==
  IF Var(lit) \in Mapped THEN Sign(lit) * MapIdx(Var(lit))
  ELSE IF Val(lit) # 0 THEN Val(lit) * MapIdx(FirstFixed) ELSE 0

\* map_lit: a fixed literal becomes the first fixed variable with the right sign.
MapLit(lit) ==
  IF Var(lit) \in Mapped THEN Sign(lit) * MapIdx(Var(lit))
  ELSE IF Val(lit) # 0 THEN Val(lit) * ivar[FirstFixed].val * MapIdx(FirstFixed) ELSE 0

NewMaxVar == Cardinality(Mapped)
Source(d) == CHOOSE i \in Mapped : MapIdx(i) = d

\* The queue without the variables that go and without the fixed one.
RECURSIVE From(_)
From(i) == IF i = 0 THEN <<>> ELSE <<i>> \o From(ivar[i].next)
KeptQueue == SelectSeq(From(queue.first), LAMBDA i : i \in Active)

\* The links of an active variable in new numbers.
Link(i) ==
  LET k == CHOOSE k \in DOMAIN KeptQueue : KeptQueue[k] = i
  IN  [prev |-> IF k = 1 THEN 0 ELSE MapIdx(KeptQueue[k - 1]),
       next |-> IF k = Len(KeptQueue) THEN 0 ELSE MapIdx(KeptQueue[k + 1])]

\* frozentab is added up in place: what goes to d, and what is left there if the
\* variable that had this number is dropped.
FrozenSum(iv, d) ==
  MapThenSumSet(LAMBDA i : iv[i].frozen, {i \in DOMAIN iv : Var(MapLit(i)) = d})
  + (IF MapLit(d) = 0 THEN iv[d].frozen ELSE 0)

Moved(iv) ==
  [d \in 1..NewMaxVar |->
     LET i == Source(d)
     IN  [iv[i] EXCEPT !.frozen = FrozenSum(iv, d),
                       !.prev = IF i \in Active THEN Link(i).prev ELSE @,
                       !.next = IF i \in Active THEN Link(i).next ELSE @]]

\* The ids of unit clauses are saved in the external tables, once.
SavedUnits(x) ==
  IF x.unit = 0 /\ x.nunit = 0
  THEN [unit |-> ivar[x.e2i].unit, nunit |-> ivar[x.e2i].nunit]
  ELSE [unit |-> x.unit, nunit |-> x.nunit]

MovedExternal ==
  [e \in EVars |->
     IF evar[e].e2i = 0 THEN evar[e]
     ELSE [evar[e] EXCEPT !.e2i = MapLit(@), !.unit = SavedUnits(evar[e]).unit, !.nunit = SavedUnits(evar[e]).nunit]]

\* garbage_collection: without satisfied clauses and false literals.
Collected == {{lit \in C : Val(lit) = 0} : C \in {D \in clauses : \A lit \in D : Val(lit) <= 0}}

\* The external literals are assumed again, each internal one once.
Reassumed(ev) ==
  LET ilit(elit) == Sign(elit) * ev[Var(elit)].e2i
  IN  FoldLeft(LAMBDA s, elit : IF ilit(elit) \in Range(s) THEN s ELSE Append(s, ilit(elit)), <<>>, eassumptions)

\* Mutant: the shared fixed variable is not counted.
CompactedStats_none == [stats EXCEPT !.inactive = 0, !.fixed = 0, !.eliminated = 0]

CompactedStats ==
  LET n == IF FirstFixed # 0 THEN 1 ELSE 0
  IN  [stats EXCEPT !.inactive = n, !.fixed = n, !.eliminated = 0]

Compact ==
  LET iv == Moved(Melted(ivar))
      reassumed == Reassumed(MovedExternal)
      c == IF constraint = {} THEN [lits |-> {}, unsat |-> unsat_constraint]
           ELSE Constrained(iv, {Sign(elit) * MovedExternal[Var(elit)].e2i : elit \in econstraint})
  IN  /\ compacts < MaxCompacts /\ Len(ivar) # stats.active            \* compacting
      /\ \A C \in Collected : Cardinality(C) > 1             \* propagated
      /\ compacts' = compacts + 1
      /\ stats' = CompactedStats
      /\ ivar' = [i \in DOMAIN iv |-> [iv[i] EXCEPT !.frozen = @ + Times(Range(reassumed), i) + Times(c.lits, i)]]
      /\ evar' = MovedExternal
      /\ assumptions' = reassumed /\ constraint' = c.lits /\ unsat_constraint' = c.unsat
      /\ clauses' = {{MapLit(lit) : lit \in C} : C \in Collected}
      /\ trail' = SelectSeq([k \in DOMAIN trail |-> Sign(trail[k]) * MapIdx(Var(trail[k]))], LAMBDA lit : lit # 0)
      /\ queue' = IF KeptQueue = <<>> THEN [first |-> 0, last |-> 0]
                  ELSE [first |-> MapIdx(Head(KeptQueue)), last |-> MapIdx(Last(KeptQueue))]
      /\ UNCHANGED <<eassumptions, econstraint, clause_id, ghosts, bumped, reactivated>>

-----------------------------------------------------------------------------
Next ==
  \/ \E i \in DOMAIN ivar : Fix(i) \/ Fix(-i) \/ Eliminate(i) \/ Bump(i)
  \/ \E e \in Freezable : Freeze(e) \/ Melt(e)
  \/ \E elit \in Assumable : Assume(elit)
  \/ \E E \in Constraints : Constrain(E)
  \/ Reset \/ Compact

Spec == Init /\ [][Next]_vars

-----------------------------------------------------------------------------
(* Properties.                                                             *)

TypeOK ==
  /\ \A i \in DOMAIN ivar : /\ ivar[i].status \in {"active", "fixed", "eliminated"} /\ ivar[i].val \in {-1, 0, 1}
                            /\ ivar[i].i2e \in EVars /\ ivar[i].frozen \in Nat
  /\ \A e \in EVars : Var(evar[e].e2i) \in 0..Len(ivar) /\ evar[e].frozen \in Nat
  /\ UNION clauses \subseteq {lit \in -Len(ivar)..Len(ivar) : lit # 0}
  /\ queue.first \in 0..Len(ivar) /\ queue.last \in 0..Len(ivar)

\* The value of every external variable is the one it was fixed to, although all fixed
\* variables share one internal variable, with either sign.
ValuesKept ==
  \A elit \in ELits :
    LET i == evar[Var(elit)].e2i
    IN  (fixed[elit] # 0) <=> (i # 0 /\ Sign(elit) * Val(i) > 0)

\* The id of the unit clause of a fixed literal is found the way failing
\* (assume.cpp) and add_new_original_clause (clause.cpp) look for it; a variable
\* that is mapped to a negative literal, for which compact would read in front of
\* the table, has its id saved.
UnitIdsKept ==
  \A e \in EVars :
    LET x == evar[e]
        saved == x.unit # 0 \/ x.nunit # 0
    IN  /\ x.e2i < 0 => saved
        /\ fixed[e] # 0 => fixed[e] = IF saved THEN x.unit ELSE ivar[x.e2i].unit
        /\ fixed[-e] # 0 => fixed[-e] = IF saved THEN x.nunit ELSE ivar[x.e2i].nunit

\* The clauses, read in external literals, are those of the user without the ones
\* elimination removed, up to the literals fixed.
ClausesKept ==
  LET open(C) == {elit \in C : fixed[-elit] = 0}
      current(S) == {open(C) : C \in {D \in S : \A elit \in D : fixed[elit] = 0}}
  IN  current({{Externalize(lit) : lit \in C} : C \in clauses}) = current(eclauses)

\* The queue links the active variables in both directions, in the order in which
\* they were bumped, with their saved phases: no variable is lost for decisions.
DecisionsKept ==
  LET kept == KeptQueue
  IN  /\ [k \in DOMAIN kept |-> ivar[kept[k]].i2e] = order
      /\ \A i \in Range(From(queue.first)) :
           /\ ivar[i].next = 0 => queue.last = i
           /\ ivar[i].next # 0 => ivar[ivar[i].next].prev = i
      /\ queue.first # 0 => ivar[queue.first].prev = 0
      /\ \A i \in Active : ivar[i].saved = phases[ivar[i].i2e] /\ evar[ivar[i].i2e].e2i = i

\* An internal variable counts the calls that froze it: those of the user for all
\* the external variables that share it, the assumptions and the constraint.
FrozenExact ==
  \A i \in DOMAIN ivar :
    ivar[i].frozen = MapThenSumSet(LAMBDA e : evar[e].frozen, {e \in EVars : Var(evar[e].e2i) = i})
                     + Times(Range(assumptions), i) + Times(constraint, i)

\* check_var_stats: the counters from which compacting and other procedures decide
\* whether to run are those of the flags of the variables.
CountsExact ==
  LET count(status) == Cardinality({i \in DOMAIN ivar : ivar[i].status = status})
  IN  stats = [active |-> count("active"), inactive |-> count("fixed") + count("eliminated"),
               fixed |-> count("fixed"), eliminated |-> count("eliminated")]

\* The assumptions and the constraint still ask what the user asked.
QueryKept ==
  /\ \A elit \in Range(eassumptions) : Sign(elit) * evar[Var(elit)].e2i \in Range(assumptions)
  /\ \A elit \in econstraint : \/ Sign(elit) * evar[Var(elit)].e2i \in constraint
                               \/ fixed[-elit] # 0
                               \/ constraint = {} /\ ~unsat_constraint /\ \E other \in econstraint : fixed[other] # 0
=============================================================================
