----------------------------- MODULE Condition -----------------------------
(***************************************************************************)
(* Elimination of globally blocked clauses (condition.cpp).  The current   *)
(* assignment is split into an autarky and the condition under which it is *)
(* one; for each candidate clause the condition has to shrink to literals  *)
(* that the clause has negated, which turns autarky literals into          *)
(* conditional ones, until an autarky literal of the clause is left or not.*)
(***************************************************************************)
EXTENDS Clauses, SequencesExt

CONSTANTS
  Formulas, Frozen,
  MaxPushed          \* bound: with so many clauses on the stack no round starts

FormulasAssumption ==
  /\ Vars \subseteq Nat \ {0} /\ Frozen \subseteq Vars /\ MaxPushed \in Nat
  /\ \A F \in Formulas : F \subseteq ProperClauses

VARIABLES
  irr, units, extension,
  reasons,           \* clauses that are reasons of assigned literals
  assignment,        \* true literals above the root level, while conditioning
  initial,           \* the initial conditional literals
  watched,           \* clauses in the occurrence lists; some may have become garbage
  candidates,
  pc, c,             \* the candidate being tried
  unassigned, conditional,
  next               \* conditional literals still to be processed

vars == <<irr, units, extension, reasons, assignment, initial, watched, candidates,
          pc, c, unassigned, conditional, next>>

Active == {v \in Vars : v \notin units /\ -v \notin units}

\* The search has some assignment; its frozen literals are unassigned for the
\* time being and its unassigned variables assigned as decide_phase says.
Assignments == {{IF v \in P THEN v ELSE -v : v \in Active \ Frozen} : P \in SUBSET (Active \ Frozen)}

Init ==
  /\ \E F \in Formulas : /\ units = {lit \in Lits : {lit} \in F}
                         /\ irr = {C \in F : Cardinality(C) > 1}
  /\ extension = <<>> /\ reasons = {}
  /\ assignment = {} /\ initial = {} /\ watched = {} /\ candidates = {}
  /\ pc = "search" /\ c = {}
  /\ unassigned = {} /\ conditional = {} /\ next = {}

\* Clauses without a true literal make the negations of their false literals
\* conditional from the start.
Conditionals(F, alpha) == {lit \in alpha : \E C \in F : C \cap alpha = {} /\ -lit \in C}

\* The start of condition_round.
Start(alpha, r) ==
  /\ pc = "search" /\ Len(extension) < MaxPushed /\ irr # {}
  /\ LET live == {C \in irr : C \cap units = {}}
     IN  /\ irr' = live
         /\ initial' = Conditionals(live, alpha)
         /\ candidates' = {C \in live : C \cap alpha # {}}
         /\ watched' = {C \in candidates' : Neg(C) \cap alpha # {}}
  /\ assignment' = alpha /\ reasons' = r
  /\ pc' = "round"
  /\ UNCHANGED <<units, extension, c, unassigned, conditional, next>>

Autarky == assignment \ (conditional \cup unassigned)

\* Take up a candidate; one without an autarky literal is passed over.
Try(C) ==
  /\ pc = "round" /\ C \in candidates /\ initial # assignment
  /\ candidates' = candidates \ {C}
  /\ IF C \in reasons \/ C \cap (assignment \ initial) = {}
     THEN UNCHANGED <<pc, c, conditional, next>>
     ELSE pc' = "refine" /\ c' = C /\ conditional' = initial /\ next' = initial
  /\ UNCHANGED <<irr, units, extension, reasons, assignment, initial, watched, unassigned>>

\* Mutant: only clauses that had the literal as their single true one count.
Exposed_single(U) == {D \in watched : D \cap assignment \subseteq U \ unassigned}

\* The clauses left without a true literal when the literals U are unassigned.
Exposed(U) == {D \in watched : D \cap assignment \subseteq U}

\* Unassign a conditional literal unless the candidate has it negated.  The
\* negations of the false literals of exposed clauses become conditional.
Refine(lit) ==
  /\ pc = "refine" /\ lit \in next /\ c \cap Autarky # {}
  /\ IF -lit \in c THEN next' = next \ {lit} /\ UNCHANGED <<unassigned, conditional>>
     ELSE LET U == unassigned \cup {lit}
              new == {a \in Autarky : \E D \in Exposed(U) : -a \in D}
          IN  /\ unassigned' = U
              /\ conditional' = (conditional \ {lit}) \cup new
              /\ next' = (next \ {lit}) \cup new
  /\ UNCHANGED <<irr, units, extension, reasons, assignment, initial, watched, candidates, pc, c>>

\* All autarky literals are flipped by External::extend.
Witness == Autarky

\* The fix-point is reached with an autarky literal left.
Eliminate ==
  /\ pc = "refine" /\ next = {} /\ c \cap Autarky # {}
  /\ extension' = Append(extension, StackEntry(Witness, c))
  /\ irr' = irr \ {c}
  /\ pc' = "round" /\ c' = {} /\ unassigned' = {} /\ conditional' = {}
  /\ UNCHANGED <<units, reasons, assignment, initial, watched, candidates, next>>

\* No autarky literal is left in the candidate, or the limit is hit.
GiveUp ==
  /\ pc = "refine"
  /\ pc' = "round" /\ c' = {} /\ unassigned' = {} /\ conditional' = {} /\ next' = {}
  /\ UNCHANGED <<irr, units, extension, reasons, assignment, initial, watched, candidates>>

\* The assignment of the search is restored.
Finish ==
  /\ pc = "round" /\ pc' = "search"
  /\ assignment' = {} /\ initial' = {} /\ watched' = {} /\ candidates' = {} /\ reasons' = {}
  /\ UNCHANGED <<irr, units, extension, c, unassigned, conditional, next>>

Next ==
  \/ \E alpha \in Assignments, r \in {{}} \cup {{C} : C \in irr} : Start(alpha, r)
  \/ \E C \in candidates : Try(C)
  \/ \E lit \in next : Refine(lit)
  \/ Eliminate \/ GiveUp \/ Finish

Spec == Init /\ [][Next]_vars

-----------------------------------------------------------------------------
\* Type invariant: conditional and unassigned literals are disjoint parts of
\* the assignment, which has no frozen and no root-level literal.
TypeOK ==
  /\ irr \subseteq ProperClauses /\ Consistent(assignment)
  /\ \A lit \in assignment : Var(lit) \in Active \ Frozen
  /\ conditional \cup unassigned \subseteq assignment /\ conditional \cap unassigned = {}
  /\ next \subseteq conditional
  /\ pc \in {"search", "round", "refine"}

\* What the fix-point is about, although each clause is watched by one literal
\* only and clauses stay watched when they are garbage: a clause that the
\* autarky touches is satisfied by it or by the remaining condition, and the
\* candidate has all of that condition negated.
ConditionalAutarky ==
  (pc = "refine" /\ next = {} /\ c \cap Autarky # {}) =>
    /\ Neg(conditional) \subseteq c
    /\ \A D \in irr : D \cap Neg(Autarky) # {} => D \cap (Autarky \cup conditional) # {}

\* What External::extend and restore_clauses rely on, for witnesses of several
\* literals that need not occur in the clause.
WeakenContract ==
  Weakens(irr \cup Units(units), extension, irr' \cup Units(units), extension', Frozen)
=============================================================================
