------------------------------- MODULE Cover -------------------------------
(***************************************************************************)
(* Covered clause elimination with asymmetric literals (cover.cpp): the    *)
(* literals of a clause are made false, a clause that becomes unit adds a  *)
(* literal (ALA), the literals common to all clauses to be resolved with   *)
(* are added, too (CLA), until a clause is falsified or the extended       *)
(* clause is blocked.                                                      *)
(***************************************************************************)
EXTENDS Clauses, SequencesExt

CONSTANTS
  Formulas, Frozen,
  coverminclslim, covermaxclslim,     \* options
  proof,                              \* a proof is traced
  MaxRounds                           \* bound on the number of rounds

OptionsAssumption ==
  /\ {coverminclslim, covermaxclslim, MaxRounds} \subseteq Nat
  /\ Frozen \subseteq Vars /\ proof \in BOOLEAN

FormulasAssumption ==
  /\ IsFiniteSet(Vars) /\ Vars \subseteq Nat \ {0}
  /\ \A F \in Formulas : F \subseteq ProperClauses

VARIABLES
  irr, units, extension,
  tried,                     \* clauses with the flag 'covered'
  schedule,
  pc, c,                     \* the clause being tried
  added, covered, extend,    \* members of Coveror
  next_covered,              \* literals of covered still to be looked at
  rounds

vars == <<irr, units, extension, tried, schedule, pc, c, added, covered,
          extend, next_covered, rounds>>

False == added \cup Neg(units)
True == Neg(False)

AllFrozen(C) == \A lit \in C : Var(lit) \in Frozen

Init ==
  /\ \E F \in Formulas : /\ units = {lit \in Lits : {lit} \in F}
                         /\ irr = {C \in F : Cardinality(C) > 1}
  /\ extension = <<>> /\ tried = {} /\ schedule = {}
  /\ pc = "idle" /\ c = {}
  /\ added = {} /\ covered = {} /\ extend = <<>> /\ next_covered = {}
  /\ rounds = 0

\* cover_round: satisfied clauses go, and if nothing untried is left all are
\* tried again.
Schedule ==
  /\ pc = "idle" /\ rounds < MaxRounds
  /\ irr' = {C \in irr : C \cap units = {}}
  /\ LET eligible == {C \in irr' : ~AllFrozen(C) /\ Cardinality(C) \in coverminclslim..covermaxclslim}
     IN  /\ schedule' = eligible
         /\ tried' = IF eligible \subseteq tried THEN tried \ eligible ELSE tried
  /\ pc' = "round" /\ rounds' = rounds + 1
  /\ UNCHANGED <<units, extension, c, added, covered, extend, next_covered>>

\* Untried and larger clauses first.
First(C) ==
  \A D \in schedule : \/ C \notin tried /\ D \in tried
                      \/ /\ (C \in tried) = (D \in tried)
                         /\ Cardinality(C) >= Cardinality(D)

\* The start of cover_clause.
Try(C) ==
  /\ pc = "round" /\ C \in schedule /\ First(C)
  /\ schedule' = schedule \ {C} /\ tried' = tried \cup {C}
  /\ c' = C /\ pc' = "cover"
  /\ added' = C \ Neg(units) /\ covered' = C \ Neg(units)
  /\ next_covered' = C \ Neg(units) /\ extend' = <<>>
  /\ UNCHANGED <<irr, units, extension, rounds>>

\* The other clauses of which all but at most one literal is false.
Triggered == {D \in irr \ {c} : D \cap True = {} /\ Cardinality(D \ False) <= 1}

\* cover_propagate_asymmetric and asymmetric_literal_addition, one clause.
Asymmetric(D) ==
  /\ pc = "cover" /\ D \in Triggered
  /\ IF D \subseteq False THEN pc' = "tautological" /\ UNCHANGED <<added, next_covered>>
     ELSE /\ added' = added \cup Neg(D \ False)
          /\ next_covered' = covered /\ pc' = pc
  /\ UNCHANGED <<irr, units, extension, tried, schedule, c, covered, extend, rounds>>

\* The clauses to be resolved with on lit that are not satisfied twice.
Candidates(lit) == {D \in irr : -lit \in D /\ ~AllFrozen(D) /\ (D \ {-lit}) \cap True = {}}

Intersection(lit) ==
  {other \in Lits \ {-lit} : \A D \in Candidates(lit) : other \in D \ False}

\* cover_push_extension
Pushed(lit) == Append(extend, StackEntry({lit}, covered))

\* cover_propagate_covered and covered_literal_addition, once there is nothing
\* left to propagate.
Covered(lit) ==
  /\ pc = "cover" /\ Triggered = {} /\ lit \in next_covered
  /\ IF Var(lit) \in Frozen
     THEN next_covered' = next_covered \ {lit} /\ UNCHANGED <<pc, added, covered, extend>>
     ELSE IF Candidates(lit) = {}
     THEN pc' = "tautological" /\ extend' = Pushed(lit) /\ UNCHANGED <<added, covered, next_covered>>
     ELSE IF Intersection(lit) = {}
     THEN next_covered' = next_covered \ {lit} /\ UNCHANGED <<pc, added, covered, extend>>
     ELSE /\ extend' = Pushed(lit)
          /\ added' = added \cup Intersection(lit)
          /\ covered' = covered \cup Intersection(lit)
          /\ next_covered' = covered' /\ pc' = pc
  /\ UNCHANGED <<irr, units, extension, tried, schedule, c, rounds>>

GiveUp ==
  /\ pc = "cover" /\ Triggered = {} /\ next_covered = {}
  /\ pc' = "round"
  /\ c' = {} /\ added' = {} /\ covered' = {} /\ extend' = <<>> /\ next_covered' = {}
  /\ UNCHANGED <<irr, units, extension, tried, schedule, rounds>>

\* False literals of the clause are saved as well, except in the last entry if
\* there is no proof.
Saved(i) ==
  IF i < Len(extend) \/ proof THEN [extend[i] EXCEPT !.clause = @ \cup c] ELSE extend[i]

\* The end of cover_clause: without an entry for the extension stack the clause
\* stays, although it is counted as covered.
Succeed ==
  /\ pc = "tautological" /\ pc' = "round"
  /\ irr' = IF extend = <<>> THEN irr ELSE irr \ {c}
  /\ extension' = extension \o [i \in DOMAIN extend |-> Saved(i)]
  /\ c' = {} /\ added' = {} /\ covered' = {} /\ extend' = <<>> /\ next_covered' = {}
  /\ UNCHANGED <<units, tried, schedule, rounds>>

\* All clauses are tried or the propagation limit is hit.
EndRound ==
  /\ pc = "round" /\ pc' = "idle" /\ schedule' = {}
  /\ UNCHANGED <<irr, units, extension, tried, c, added, covered, extend,
                 next_covered, rounds>>

Next ==
  \/ Schedule \/ GiveUp \/ Succeed \/ EndRound
  \/ \E C \in irr : Try(C) \/ Asymmetric(C)
  \/ \E lit \in Lits : Covered(lit)

Spec == Init /\ [][Next]_vars

-----------------------------------------------------------------------------
\* Type invariant: the extended clause is a clause, with the covered literals
\* among the added ones, none of them assigned at the root.
TypeOK ==
  /\ irr \subseteq ProperClauses /\ schedule \subseteq irr
  /\ added \in ProperClauses /\ covered \subseteq added
  /\ added \cap (units \cup Neg(units)) = {}
  /\ pc \in {"idle", "round", "cover", "tautological"}

\* What External::extend and restore_clauses rely on: each entry of a covered
\* clause is redundant given the entries after it, although its clause never
\* was part of the formula.
WeakenContract ==
  Weakens(irr \cup Units(units), extension, irr' \cup Units(units), extension', Frozen)

=============================================================================
