------------------------------- MODULE Probe -------------------------------
(***************************************************************************)
(* Failed literal probing (probe.cpp) with hyper binary resolution on the  *)
(* fly: on decision level one every implied literal has one parent, the    *)
(* dominator of what implies it, so that the implication graph is a tree.  *)
(*                                                                         *)
(* Propagation is one literal a step, binary clauses first, otherwise in   *)
(* any order; so are the probes.                                           *)
(***************************************************************************)
EXTENDS Clauses, SequencesExt

CONSTANTS
  Databases,           \* sequences of clauses [lits, red]
  Learnable,           \* clauses that search may learn between rounds, if implied
  MaxRounds,           \* bound on the number of rounds
  probehbr             \* option

OptionsAssumption == MaxRounds \in Nat /\ probehbr \in BOOLEAN

VARIABLES
  original,            \* ghost: the irredundant clauses at the beginning
  clauses,
  units, unsat,
  pc, rounds,
  probes,              \* literals still to be probed
  propfixed,           \* number of units when a literal was last assigned, or -1
  trail,               \* literals of level one with their parents: [lit, parent]
  work, uip            \* parents of the literal that failed, and their child

vars == <<original, clauses, units, unsat, pc, rounds, probes, propfixed, trail, work, uip>>

Kept == {k \in DOMAIN clauses : ~clauses[k].garbage}

Size(k) == Cardinality(clauses[k].lits)

KeptLits == {clauses[k].lits : k \in Kept}

NewClause(C, red) == [lits |-> C, red |-> red, garbage |-> FALSE]

Active(lit) == {lit, -lit} \cap units = {}

fixed == Cardinality(units)

Init ==
  /\ \E D \in Databases :
       /\ clauses = [k \in DOMAIN D |-> NewClause(D[k].lits, D[k].red)]
       /\ original = {D[k].lits : k \in {j \in DOMAIN D : ~D[j].red}}
  /\ units = UnitPropagate(KeptLits, {}) /\ unsat = FALSE /\ Consistent(units)
  /\ pc = "idle" /\ rounds = 0 /\ probes = {} /\ propfixed = [lit \in Lits |-> -1]
  /\ trail = <<>> /\ work = <<>> /\ uip = 0

\* Search learns a clause between two calls.
Learn(C) ==
  /\ pc = "idle" /\ ~unsat /\ rounds \in 1..(MaxRounds - 1)
  /\ Implies(original, C) /\ C \notin KeptLits /\ \A lit \in C : Active(lit)
  /\ clauses' = Append(clauses, NewClause(C, TRUE))
  /\ UNCHANGED <<original, units, unsat, pc, rounds, probes, propfixed, trail, work, uip>>

-----------------------------------------------------------------------------
(* The probes.                                                             *)

\* is_binary_clause: no true literal and two that have no value.
BinaryClauses ==
  {C \ Neg(units) : C \in {D \in KeptLits : D \cap units = {} /\ Cardinality(D \ Neg(units)) = 2}}

Occurs(lit) == \E C \in BinaryClauses : lit \in C

\* Roots of the implication graph: literals that only occur negated.
IsRoot(lit) == Active(lit) /\ Occurs(-lit) /\ ~Occurs(lit)

\* No unit was found since the literal was assigned without a conflict.
Done(lit) == propfixed[lit] >= fixed

GenerateProbes == {lit \in Lits : IsRoot(lit) /\ ~Done(lit)}

\* flush_probes keeps the variables that still have a root, in its phase.
FlushProbes == {lit \in Lits : {lit, -lit} \cap probes # {} /\ IsRoot(lit) /\ ~Done(lit)}

Reset == [lit \in Lits |-> -1]

StartRound ==
  /\ pc = "idle" /\ ~unsat /\ rounds < MaxRounds
  /\ rounds' = rounds + 1 /\ pc' = "round"
  /\ probes' = FlushProbes
  /\ propfixed' = Reset
  /\ UNCHANGED <<original, clauses, units, unsat, trail, work, uip>>

\* probe_assign of the decision.
NextProbe(lit) ==
  /\ pc = "round" /\ ~unsat
  /\ LET P == IF \A p \in probes : ~Active(p) \/ Done(p) THEN GenerateProbes ELSE probes
     IN  lit \in P /\ Active(lit) /\ ~Done(lit) /\ probes' = P \ {lit}
  /\ trail' = <<[lit |-> lit, parent |-> 0]>>
  /\ propfixed' = [propfixed EXCEPT ![lit] = fixed]
  /\ pc' = "propagate"
  /\ UNCHANGED <<original, clauses, units, unsat, rounds, work, uip>>

\* The round ends when there is no probe or at its effort limit.
EndRound ==
  /\ pc = "round" /\ ~unsat
  /\ pc' = "idle"
  /\ UNCHANGED <<original, clauses, units, unsat, rounds, probes, propfixed, trail, work, uip>>

-----------------------------------------------------------------------------
(* Propagation on decision level one.                                      *)

True == units \cup {trail[i].lit : i \in DOMAIN trail}

Entry(lit) == trail[CHOOSE i \in DOMAIN trail : trail[i].lit = lit]

RECURSIVE Ancestors(_)
Ancestors(lit) == IF lit = 0 THEN <<>> ELSE <<lit>> \o Ancestors(Entry(lit).parent)

\* probe_dominator over a set of literals: their closest common ancestor.
Dominator(S) ==
  LET first == Ancestors(CHOOSE lit \in S : TRUE)
      common == {i \in DOMAIN first : \A lit \in S : first[i] \in ToSet(Ancestors(lit))}
  IN  first[Min(common)]

\* The negations of the literals of a clause that are false on level one.
Reasons(C) == Neg(C) \cap {trail[i].lit : i \in DOMAIN trail}

Forcing(k, lit) ==
  /\ k \in Kept /\ clauses[k].lits \cap True = {}
  /\ lit \in clauses[k].lits /\ clauses[k].lits \ {lit} \subseteq Neg(True) /\ -lit \notin True

Conflicts == {k \in Kept : clauses[k].lits \subseteq Neg(True)}

Assign(lit, parent) ==
  /\ trail' = Append(trail, [lit |-> lit, parent |-> parent])
  /\ propfixed' = [propfixed EXCEPT ![lit] = fixed]

BinariesDone == \A j \in Kept, l \in Lits : Size(j) = 2 => ~Forcing(j, l)

\* A conflict does not end the loops over binary clauses.
PropagateBinary(k, lit) ==
  /\ pc = "propagate" /\ Size(k) = 2 /\ Forcing(k, lit)
  /\ Assign(lit, CHOOSE p \in Reasons(clauses[k].lits) : TRUE)
  /\ UNCHANGED <<original, clauses, units, unsat, pc, rounds, probes, work, uip>>

\* The resolvent is irredundant if it subsumes an irredundant reason.
Redundant(k, dom) == -dom \notin clauses[k].lits \/ clauses[k].red

\* hyper_binary_resolve adds the resolvent of the dominator, and drops the
\* reason if that subsumes it.
HyperBinary(k, dom, lit) ==
  IF probehbr /\ Cardinality(Reasons(clauses[k].lits)) > 1
  THEN Append([clauses EXCEPT ![k].garbage = -dom \in clauses[k].lits],
              NewClause({-dom, lit}, Redundant(k, dom)))
  ELSE clauses

\* A longer clause forces a literal.  The loop over one watch list goes on after
\* a conflict in it.
PropagateLong(k, lit) ==
  /\ pc = "propagate" /\ Size(k) > 2 /\ Forcing(k, lit) /\ BinariesDone
  /\ LET dom == Dominator(Reasons(clauses[k].lits))
     IN  /\ Assign(lit, dom)
         /\ clauses' = HyperBinary(k, dom, lit)
  /\ UNCHANGED <<original, units, unsat, pc, rounds, probes, work, uip>>

\* Everything is propagated without a conflict.
Backtrack ==
  /\ pc = "propagate" /\ Conflicts = {} /\ \A k \in Kept, lit \in Lits : ~Forcing(k, lit)
  /\ trail' = <<>> /\ pc' = "round"
  /\ UNCHANGED <<original, clauses, units, unsat, rounds, probes, propfixed, work, uip>>

-----------------------------------------------------------------------------
(* A failed literal.                                                       *)

\* A new unit is propagated on the root level.
AssignUnit(lit) ==
  /\ unsat' = Conflicting(KeptLits, units \cup {lit})
  /\ units' = IF unsat' THEN units ELSE UnitPropagate(KeptLits, units \cup {lit})

Work(dom) == Tail(Ancestors(dom))

\* failed_literal: the dominator of the conflict is false.
Failed(k) ==
  /\ pc = "propagate" /\ k \in Conflicts /\ BinariesDone
  /\ LET dom == Dominator(Reasons(clauses[k].lits))
     IN  /\ AssignUnit(-dom)
         /\ work' = Work(dom) /\ uip' = dom
  /\ trail' = <<>> /\ pc' = "parents"
  /\ UNCHANGED <<original, clauses, rounds, probes, propfixed>>

\* Its ancestors up to the probe are false as well.
Parent ==
  /\ pc = "parents" /\ ~unsat /\ work # <<>>
  /\ LET parent == Head(work)
     IN  \/ -parent \in units /\ UNCHANGED <<units, unsat>>
         \/ -parent \notin units /\ AssignUnit(-parent)
  /\ uip' = Head(work) /\ work' = Tail(work)
  /\ UNCHANGED <<original, clauses, pc, rounds, probes, propfixed, trail>>

FinishFailed ==
  /\ pc = "parents" /\ ~unsat /\ work = <<>>
  /\ pc' = "round" /\ uip' = 0
  /\ UNCHANGED <<original, clauses, units, unsat, rounds, probes, propfixed, trail, work>>

Next ==
  \/ StartRound \/ EndRound \/ Backtrack \/ Parent \/ FinishFailed
  \/ \E C \in Learnable : Learn(C)
  \/ \E lit \in Lits : NextProbe(lit)
  \/ \E k \in DOMAIN clauses : Failed(k) \/ \E lit \in Lits : PropagateBinary(k, lit) \/ PropagateLong(k, lit)

Spec == Init /\ [][Next]_vars

-----------------------------------------------------------------------------
\* Type invariant: the trail is a tree that grows from the probe.
TypeOK ==
  /\ Consistent(units) /\ propfixed \in [Lits -> -1..Cardinality(Vars)]
  /\ \A i \in DOMAIN trail : IF i = 1 THEN trail[i].parent = 0
       ELSE \E j \in 1..(i - 1) : trail[j].lit = trail[i].parent
  /\ pc \in {"idle", "round", "propagate", "parents"}

\* A literal follows from its parent alone, however many literals the reason
\* had; if resolvents are added, by a binary clause of the database.
ParentImplies ==
  \A i \in 2..Len(trail) :
    /\ Implies(original, {-trail[i].parent, trail[i].lit})
    /\ probehbr => \E C \in KeptLits : C \ Neg(units) = {-trail[i].parent, trail[i].lit}

\* Clauses and units follow from the formula.
DatabaseImplied ==
  IF unsat THEN Models(original) = {}
  ELSE \A C \in KeptLits \cup Units(units) : Implies(original, C)

\* Irredundant clauses that are dropped are replaced by irredundant ones.
NothingLost ==
  ~unsat => \A C \in original :
    Implies({clauses[k].lits : k \in {j \in Kept : ~clauses[j].red}} \cup Units(units), C)

\* What the counter stands for: a literal assigned since the last unit was
\* found does not fail.
SkippedSound ==
  (pc = "round" /\ ~unsat) => \A lit \in Lits :
     Active(lit) /\ propfixed[lit] >= Cardinality(units) => ~Conflicting(KeptLits, units \cup {lit})

\* The assertion in failed_literal: with the binary resolvents in the database
\* the unit propagates to all ancestors.
AncestorsFalse == pc = "parents" /\ probehbr /\ ~unsat => ToSet(work) \subseteq Neg(units)
=============================================================================
