---------------------------- MODULE Incremental ----------------------------
(***************************************************************************)
(* Incremental solving with inprocessing: what External and Internal keep  *)
(* of the user's formula between and during calls of solve (external.cpp,  *)
(* restore.cpp, extend.cpp, flip.cpp, flags.cpp).                          *)
(*                                                                         *)
(* The simplifiers appear through what they owe each other: one may remove *)
(* a clause if the entries it pushes for it are redundant with unfrozen    *)
(* witnesses, add implied clauses, redundant or irredundant, or drop one   *)
(* that the rest implies.  That the real ones keep to this is the subject  *)
(* of Elim, Block, Cover, Condition, Decompose, ...                        *)
(* The names Init, Next and Spec are those of SolverAPI, which the same    *)
(* model extends.                                                          *)
(***************************************************************************)
EXTENDS Clauses

CONSTANTS
  Addable,          \* clauses the user may add
  Assumable,        \* literals the user may assume
  Options,          \* values of the options restoreall and restoreflush
  Derivable,        \* clauses the solver may derive: learned clauses, resolvents, ...
  MaxOriginal,      \* bound on the number of clauses the user adds
  MaxChain,         \* bound on the number of entries pushed for a covered clause
  MaxStack,         \* bound on the length of the extension stack
  MaxSolves         \* bound on the number of calls of solve

ExternalAssumption ==
  /\ Vars \subseteq Nat \ {0} /\ Addable \subseteq SUBSET Lits
  /\ Options \subseteq [restoreall : 0..2, restoreflush : BOOLEAN]
  /\ Assumable \subseteq Lits /\ Derivable \subseteq ProperClauses
  /\ {MaxOriginal, MaxChain, MaxStack, MaxSolves} \subseteq Nat

VARIABLES
  original,         \* ghost: what the user has added
  irr,              \* irredundant clauses, root-level units among them
  red,              \* learned clauses
  extension,        \* the extension stack
  witness, tainted, \* bits of External: literals
  inactive,         \* variables eliminated, substituted or pure
  assumptions,      \* literals, frozen as long as they are assumed
  mode,             \* "idle", "simplify" within solve, "sat", "unsat"
  vals,             \* the assignment of Internal, when "sat"
  opts, solves

external_vars ==
  <<original, irr, red, extension, witness, tainted, inactive, assumptions, mode, vals, opts, solves>>

Formula == irr \cup red

\* Type invariant: the witness bits cover the stack, a tainted literal is the
\* negation of a witness bit, and clauses are over active variables only.
ExternalTypeOK ==
  /\ original \subseteq SUBSET Lits /\ Formula \subseteq ProperClauses
  /\ extension \in Seq([witness : SUBSET Lits, clause : ProperClauses])
  /\ Witnesses(extension) \subseteq witness /\ witness \subseteq Lits
  /\ tainted \subseteq Neg(witness)
  /\ inactive \subseteq Vars
  /\ \A C \in irr \cup Units(assumptions) : \A lit \in C : Var(lit) \notin inactive
  /\ mode \in {"idle", "simplify", "sat", "unsat"}
  /\ vals \in Total \cup {{}}
  /\ solves \in 0..MaxSolves

ExternalInit ==
  /\ original = {} /\ irr = {} /\ red = {}
  /\ extension = <<>> /\ witness = {} /\ tainted = {}
  /\ inactive = {} /\ assumptions = {}
  /\ mode = "idle" /\ vals = {} /\ solves = 0
  /\ opts \in Options

fixed(F) == {lit \in Lits : {lit} \in F}

\* internalize, for the literals of a clause or an assumption: those whose
\* negation is a witness are tainted, and all variables are active again.
Tainted(C, W) == C \cap Neg(W)

Reactivated(I, C) == I \ {Var(lit) : lit \in C}

\* Mutant: satisfied literals are removed like falsified ones.
Added_strong(F, C) ==
  IF {} \in F \/ Tautological(C) THEN F ELSE F \cup {C \ (fixed(F) \cup Neg(fixed(F)))}

\* add_new_original_clause: root-level units shorten or satisfy the clause.
Added(F, C) ==
  IF {} \in F \/ Tautological(C) \/ C \cap fixed(F) # {} THEN F
                                                         ELSE F \cup {C \ Neg(fixed(F))}

\* An answer ends with the next call; assumptions do not survive it.
Leave ==
  /\ mode \in {"idle", "sat", "unsat"} /\ mode' = "idle"
  /\ vals' = {}

Kept == IF mode = "idle" THEN assumptions ELSE {}

Add(C) ==
  /\ Cardinality(original) < MaxOriginal
  /\ Leave
  /\ original' = original \cup {C}
  /\ irr' = Added(irr, C)
  /\ tainted' = tainted \cup Tainted(C, witness)
  /\ inactive' = Reactivated(inactive, C)
  /\ assumptions' = Kept
  /\ UNCHANGED <<red, extension, witness, opts, solves>>

assume(lit) ==
  /\ Leave /\ Kept = {}
  /\ tainted' = tainted \cup Tainted({lit}, witness)
  /\ inactive' = Reactivated(inactive, {lit})
  /\ assumptions' = {lit}
  /\ UNCHANGED <<original, irr, red, extension, witness, opts, solves>>

\* Mutant: the literals of a restored clause are not internalized.
RestoreEntry_once(s, e) ==
  IF opts.restoreflush /\ e.clause \cap fixed(s.irr) # {} THEN s
  ELSE IF opts.restoreall > 0 \/ Neg(e.witness) \cap s.tainted # {}
  THEN [irr |-> Added(s.irr, e.clause), inactive |-> Reactivated(s.inactive, e.clause),
        tainted |-> s.tainted, kept |-> s.kept]
  ELSE [irr |-> s.irr, inactive |-> s.inactive, tainted |-> s.tainted, kept |-> Append(s.kept, e)]

\* One entry of External::restore_clauses: flushed, restored or kept.  A
\* restored clause may taint further literals, for the entries that follow.
RestoreEntry(s, e) ==
  IF opts.restoreflush /\ e.clause \cap fixed(s.irr) # {} THEN s
  ELSE IF opts.restoreall > 0 \/ Neg(e.witness) \cap s.tainted # {}
  THEN [irr |-> Added(s.irr, e.clause), inactive |-> Reactivated(s.inactive, e.clause),
        tainted |-> s.tainted \cup Tainted(e.clause, witness), kept |-> s.kept]
  ELSE [irr |-> s.irr, inactive |-> s.inactive, tainted |-> s.tainted, kept |-> Append(s.kept, e)]

Restored ==
  LET after[k \in 0 .. Len(extension)] ==
        IF k = 0
        THEN [irr |-> irr, inactive |-> inactive, tainted |-> tainted, kept |-> <<>>]
        ELSE RestoreEntry(after[k - 1], extension[k])
  IN  after[Len(extension)]

\* solve begins with Internal::restore_clauses.
restore_clauses ==
  /\ solves < MaxSolves /\ solves' = solves + 1
  /\ mode \in {"idle", "sat", "unsat"} /\ mode' = "simplify"
  /\ vals' = {}
  /\ assumptions' = Kept
  /\ IF opts.restoreall <= 1 /\ tainted = {}
     THEN UNCHANGED <<irr, inactive, extension, witness, tainted>>
     ELSE /\ irr' = Restored.irr /\ inactive' = Restored.inactive
          /\ extension' = Restored.kept
          /\ tainted' = {} /\ witness' = Witnesses(Restored.kept)
  /\ UNCHANGED <<original, red, opts>>

\* push_clause_on_extension_stack and its variants, with mark_garbage: C goes, or
\* nothing if it is not there, and the chain goes on the stack.  Each entry is
\* redundant with the entries after it and its witness over unfrozen variables.
Weaken(C, chain) ==
  /\ mode = "simplify" /\ chain # <<>> /\ Len(extension) + Len(chain) <= MaxStack
  /\ Cardinality(C) # 1 /\ {} \notin irr
  /\ \A i \in DOMAIN chain : /\ chain[i].clause \in ProperClauses /\ Implies(Formula, chain[i].clause)
                             /\ chain[i].witness # {} /\ chain[i].witness \subseteq chain[i].clause
  /\ irr' = irr \ {C}
  /\ extension' = extension \o chain
  /\ Weakens(irr, extension, irr', extension', {Var(lit) : lit \in assumptions})
  /\ witness' = witness \cup Witnesses(chain)
  /\ UNCHANGED <<original, red, tainted, inactive, assumptions, mode, vals, opts, solves>>

\* Blocked, eliminated and globally blocked clauses have an entry of their own.
Weakened(C) == {<<StackEntry(W, C)>> : W \in SUBSET C}

\* Covered clauses have a chain of entries with clauses that extend them, which
\* need not have been in the formula.
Extended(C) ==
  LET extensions == {C} \cup {D \in Derivable : C \subseteq D}
      entries == UNION {{StackEntry({lit}, D) : lit \in D} : D \in extensions}
  IN  UNION {[1..n -> entries] : n \in 2..MaxChain}

\* A literal is replaced by an equivalent one with two implied binary clauses on
\* the stack and no others, one by one.
Substituted ==
  UNION {{<<StackEntry({lit}, D)>> : lit \in D} : D \in {D \in Formula \cup Derivable : Cardinality(D) = 2}}

\* Deriving clauses: a learned clause is redundant unless it is a unit, which
\* is assigned for good; a resolvent, a strengthened or substituted clause and
\* a redundant clause that subsumes an irredundant one are irredundant.
Learn(C) ==
  /\ mode = "simplify" /\ C \notin irr /\ Implies(Formula, C)
  /\ \A lit \in C : Var(lit) \notin inactive
  /\ \/ irr' = irr \cup {C} /\ red' = red \ {C}
     \/ Cardinality(C) > 1 /\ red' = red \cup {C} /\ irr' = irr
  /\ UNCHANGED <<original, extension, witness, tainted, inactive, assumptions,
                 mode, vals, opts, solves>>

\* Subsumption, reduction and collection.
Drop(C) ==
  /\ mode = "simplify" /\ Cardinality(C) > 1
  /\ \/ C \in irr /\ Implies(irr \ {C}, C) /\ irr' = irr \ {C} /\ red' = red
     \/ C \in red /\ red' = red \ {C} /\ irr' = irr
  /\ UNCHANGED <<original, extension, witness, tainted, inactive, assumptions,
                 mode, vals, opts, solves>>

\* mark_eliminated, mark_pure, mark_substituted; what has been learned about
\* the variable is garbage.
Deactivate(v) ==
  /\ mode = "simplify" /\ v \notin inactive
  /\ v \in {Var(lit) : lit \in Witnesses(extension)}
  /\ \A C \in irr \cup Units(assumptions) : {v, -v} \cap C = {}
  /\ inactive' = inactive \cup {v}
  /\ red' = {C \in red : {v, -v} \cap C = {}}
  /\ UNCHANGED <<original, irr, extension, witness, tainted, assumptions,
                 mode, vals, opts, solves>>

\* The search ends.  The value of an inactive variable is left over from
\* before or false.
Satisfied ==
  /\ mode = "simplify" /\ mode' = "sat"
  /\ \E sigma \in Models(Formula \cup Units(assumptions)) : vals' = sigma
  /\ UNCHANGED <<original, irr, red, extension, witness, tainted, inactive,
                 assumptions, opts, solves>>

Unsatisfied ==
  /\ mode = "simplify" /\ mode' = "unsat"
  /\ Models(Formula \cup Units(assumptions)) = {}
  /\ UNCHANGED <<original, irr, red, extension, witness, tainted, inactive,
                 assumptions, vals, opts, solves>>

\* External::flip and Internal::flip.
flip(lit) ==
  LET sigma == (vals \ {lit, -lit}) \cup ({lit, -lit} \ vals)
  IN  /\ mode = "sat" /\ lit \notin witness
      /\ Var(lit) \notin inactive /\ {lit, -lit} \cap fixed(irr) = {}
      /\ Satisfies(sigma, Formula)
      /\ vals' = sigma
      /\ UNCHANGED <<original, irr, red, extension, witness, tainted, inactive,
                     assumptions, mode, opts, solves>>

Simplify ==
  \/ \E C \in irr : \E chain \in Weakened(C) \cup Extended(C) : Weaken(C, chain)
  \/ \E chain \in Substituted : Weaken({}, chain)
  \/ \E C \in Derivable : Learn(C)
  \/ \E C \in Formula : Drop(C)
  \/ \E v \in Vars : Deactivate(v)

ExternalNext ==
  \/ \E C \in Addable : Add(C)
  \/ \E lit \in Assumable : assume(lit)
  \/ \E lit \in Lits : flip(lit)
  \/ restore_clauses \/ Simplify \/ Satisfied \/ Unsatisfied

ExternalSpec == ExternalInit /\ [][ExternalNext]_external_vars

-----------------------------------------------------------------------------
\* val (Solver::val, External::extend): the assignment the user reads in
\* SATISFIED, after any number of solves, restores, eliminations and flips,
\* satisfies every clause the user has ever added.
ModelOfOriginal == mode = "sat" => Satisfies(Extend(extension, vals), original)

\* A formula that lost clauses to the stack does not lose its models, and what
\* it learns is true of the user's clauses: UNSATISFIED is only answered if it
\* is so.
UnsatOfOriginal == mode = "unsat" => Models(original \cup Units(assumptions)) = {}

\* What the user reads is right for all clauses ever added.
AnswerOfOriginal == ModelOfOriginal /\ UnsatOfOriginal

\* restore_clauses: when the search begins no clause contains the negation of
\* a witness of a stack entry, unless that entry was pushed with the clause in
\* the formula.  It is what makes the entries that are kept harmless, and is
\* seen here as every model of the formula extending to one of the original,
\* without a change to an assumed literal.
RestoreComplete ==
  mode = "simplify" =>
    \A sigma \in Models(irr \cup Units(assumptions)) :
      Satisfies(Extend(extension, sigma), original \cup Units(assumptions))
=============================================================================
