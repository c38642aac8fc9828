------------------------------ MODULE Clauses ------------------------------
(***************************************************************************)
(* Propositional clauses, the yardstick for the modules about CaDiCaL, and *)
(* its extension stack, the one thing here that models code.               *)
(*                                                                         *)
(* A literal is a non-zero integer, a clause a set of literals, an         *)
(* assignment the set of the literals that are true in it, a total one has *)
(* one literal of every variable.                                          *)
(***************************************************************************)
EXTENDS Integers, Sequences, FiniteSets

CONSTANT Vars                \* the variables, positive integers

Lits == Vars \cup {-v : v \in Vars}

Var(lit) == IF lit < 0 THEN -lit ELSE lit

Neg(C) == {-lit : lit \in C}

Tautological(C) == \E lit \in C : -lit \in C

Consistent(L) == ~Tautological(L)

Total == {{IF v \in P THEN v ELSE -v : v \in Vars} : P \in SUBSET Vars}

Satisfies(sigma, F) == \A C \in F : C \cap sigma # {}

Models(F) == {sigma \in Total : Satisfies(sigma, F)}

Implies(F, C) == \A sigma \in Models(F) : C \cap sigma # {}

Resolvent(C, D, lit) == (C \ {lit}) \cup (D \ {-lit})

ProperClauses == {C \in SUBSET Lits : ~Tautological(C)}

Units(L) == {{lit} : lit \in L}

(***************************************************************************)
(* What unit propagation of the literals L through F assigns; an           *)
(* inconsistent set of literals is a conflict.                             *)
(***************************************************************************)
UnitPropagate(F, L) ==
  LET new(K) == {lit \in Lits \ K : \E C \in F : lit \in C /\ Neg(C \ {lit}) \subseteq K}
      up[K \in SUBSET Lits] ==
        IF Tautological(K) \/ new(K) = {} THEN K ELSE up[K \cup new(K)]
  IN  up[L]

Conflicting(F, L) ==
  LET U == UnitPropagate(F, L)
  IN  Tautological(U) \/ \E C \in F : Neg(C) \subseteq U

-----------------------------------------------------------------------------
(***************************************************************************)
(* The extension stack of CaDiCaL (extend.cpp, restore.cpp): clauses that  *)
(* were taken out of the formula, each with the witness literals that make *)
(* it true again in any assignment that falsifies it.                      *)
(***************************************************************************)
StackEntry(witness, C) == [witness |-> witness, clause |-> C]

\* Flip the falsified ones among the literals W.
MadeTrue(sigma, W) == (sigma \ Neg(W)) \cup W

\* One entry of External::extend.
ExtendEntry(e, sigma) ==
  IF e.clause \cap sigma # {} THEN sigma ELSE MadeTrue(sigma, e.witness)

\* External::extend walks the stack from its end to its beginning.
Extend(stack, sigma) ==
  LET ext[i \in 0 .. Len(stack)] ==
        IF i = Len(stack) THEN sigma ELSE ExtendEntry(stack[i + 1], ext[i + 1])
  IN  ext[0]

\* The witness bits, as push_witness_literal_on_extension_stack sets them and
\* as the end of restore_clauses recomputes them.
Witnesses(stack) == UNION {stack[i].witness : i \in DOMAIN stack}

\* What a caller that pushes C with witness W on the stack owes: whatever
\* satisfies the rest of the irredundant clauses F satisfies all of them once
\* the stack entry is through with it.
RedundantWith(C, W, F) ==
  \A sigma \in Models(F \ {C}) : Satisfies(ExtendEntry(StackEntry(W, C), sigma), F)

\* A step from the clauses F and the stack e to F1 and e1 keeps to that: each
\* entry is redundant, with witnesses that are not frozen, in the formula that
\* still has the clauses pushed after it, and what is dropped without an entry
\* follows from the clauses that remain or go on the stack.
Weakens(F, e, F1, e1, frozen) ==
  LET new == {i \in DOMAIN e1 : i > Len(e)}
      later(i) == F1 \cup {e1[j].clause : j \in {k \in new : k >= i}}
  IN  /\ \A i \in new : /\ RedundantWith(e1[i].clause, e1[i].witness, later(i))
                        /\ \A lit \in e1[i].witness : Var(lit) \notin frozen
      /\ \A C \in F \ F1 : Implies(later(Len(e) + 1), C)
=============================================================================
