----------------------------- MODULE Decompose -----------------------------
(***************************************************************************)
(* Equivalent literal substitution (decompose.cpp): Tarjan's algorithm on  *)
(* the implications of the binary clauses with explicit stacks, then the   *)
(* literals are replaced by representatives, clause by clause.             *)
(*                                                                         *)
(* Clauses are sets, so a duplicate disappears at once; the code leaves it *)
(* to mark_duplicated_binary_clauses_as_garbage.                           *)
(***************************************************************************)
EXTENDS Clauses, SequencesExt

CONSTANTS
  Formulas, Frozen,
  decomposerounds      \* option

OptionsAssumption == Frozen \subseteq Vars /\ decomposerounds \in Nat

VARIABLES
  original,            \* ghost: the formula
  irr, units, unsat, extension, substituted,
  pc, round,
  dfs_idx, idx, min,   \* depth first search indices; min = Traversed when done
  work, scc,           \* the stacks
  reprs,               \* representatives found so far, 0 for none
  rest, postponed,     \* clauses still to be replaced, to be deleted at the end
  again                \* new_unit or new_binary_clause

vars == <<original, irr, units, unsat, extension, substituted, pc, round, dfs_idx, idx,
          min, work, scc, reprs, rest, postponed, again>>

Traversed == 1000      \* larger than any index

Formula == irr \cup Units(units)

ActiveLits == {lit \in Lits \ (units \cup Neg(units)) : Var(lit) \notin substituted}

\* The literals that a binary clause makes follow from lit.
Children(lit) == {child \in ActiveLits : {-lit, child} \in irr /\ child # -lit}

Fresh ==
  /\ dfs_idx' = 0
  /\ idx' = [lit \in Lits |-> 0] /\ min' = [lit \in Lits |-> 0]
  /\ work' = <<>> /\ scc' = <<>> /\ reprs' = [lit \in Lits |-> 0]

Init ==
  /\ original \in Formulas
  /\ irr = {C \in original : Cardinality(C) > 1} /\ ~Conflicting(original, {})
  /\ units = UnitPropagate(original, {}) /\ unsat = FALSE
  /\ extension = <<>> /\ substituted = {}
  /\ pc = "search" /\ round = 1
  /\ dfs_idx = 0 /\ idx = [lit \in Lits |-> 0] /\ min = [lit \in Lits |-> 0]
  /\ work = <<>> /\ scc = <<>> /\ reprs = [lit \in Lits |-> 0]
  /\ rest = {} /\ postponed = {} /\ again = FALSE

Searching ==
  /\ pc = "search" /\ ~unsat
  /\ UNCHANGED <<original, irr, extension, substituted, round, rest, postponed, again>>

Unvisited(lit) == lit \in ActiveLits /\ min[lit] # Traversed

\* A search from a literal that no search has reached.
Root(lit) ==
  /\ Searching /\ work = <<>> /\ Unvisited(lit)
  /\ \A other \in Lits : Unvisited(other) => Var(lit) <= Var(other)
  /\ Unvisited(-lit) => lit < 0
  /\ work' = <<lit>>
  /\ UNCHANGED <<units, unsat, pc, dfs_idx, idx, min, scc, reprs>>

Skip ==
  /\ Searching /\ work # <<>> /\ min[Last(work)] = Traversed
  /\ work' = Front(work)
  /\ UNCHANGED <<units, unsat, pc, dfs_idx, idx, min, scc, reprs>>

\* pre-fix: number the literal and go on with its children.
Prefix ==
  /\ Searching /\ work # <<>>
  /\ LET parent == Last(work)
     IN  /\ idx[parent] = 0
         /\ dfs_idx' = dfs_idx + 1
         /\ idx' = [idx EXCEPT ![parent] = dfs_idx']
         /\ min' = [min EXCEPT ![parent] = dfs_idx']
         /\ scc' = Append(scc, parent)
         /\ work' = work \o SetToSeq({child \in Children(parent) : idx[child] = 0})
  /\ UNCHANGED <<units, unsat, pc, reprs>>

\* The members of the component that ends the scc stack.
Component(parent) == {scc[i] : i \in {j \in DOMAIN scc : idx[scc[j]] >= idx[parent]}}

\* The literal with the smallest variable.
Representative(S) == CHOOSE lit \in S : \A other \in S : Var(lit) <= Var(other)

Repr(lit, S) == IF Var(lit) \in Frozen THEN lit ELSE Representative(S)

\* post-fix: all children are done.  The entry of a component pops it, and
\* finds out whether it has a literal and its negation.
Postfix ==
  /\ Searching /\ work # <<>>
  /\ LET parent == Last(work)
         new_min == Min({min[parent]} \cup {min[child] : child \in Children(parent)})
         S == Component(parent)
     IN  /\ idx[parent] # 0 /\ min[parent] # Traversed
         /\ work' = Front(work)
         /\ IF idx[parent] # new_min
            THEN min' = [min EXCEPT ![parent] = new_min] /\ UNCHANGED <<units, unsat, scc, reprs>>
            ELSE IF -parent \in S
            THEN unsat' = TRUE /\ units' = units \cup {parent} /\ UNCHANGED <<min, scc, reprs>>
            ELSE /\ min' = [lit \in Lits |-> IF lit \in S THEN Traversed ELSE min[lit]]
                 /\ scc' = SelectSeq(scc, LAMBDA lit : lit \notin S)
                 /\ reprs' = [lit \in Lits |-> IF lit \in S THEN Repr(lit, S) ELSE reprs[lit]]
                 /\ UNCHANGED <<units, unsat>>
  /\ UNCHANGED <<pc, dfs_idx, idx>>

Replaced(v) == v \in ActiveLits /\ reprs[v] # v

\* The two binary clauses that define a replaced variable.
Equivalence(v) == <<StackEntry({-v}, {-v, reprs[v]}), StackEntry({v}, {v, -reprs[v]})>>

\* All literals are traversed: save the equivalences.
Save ==
  /\ pc = "search" /\ ~unsat /\ work = <<>> /\ \A lit \in ActiveLits : min[lit] = Traversed
  /\ LET S == SetToSortSeq({v \in Vars : Replaced(v)}, <)
     IN  extension' = extension \o FlattenSeq([i \in DOMAIN S |-> Equivalence(S[i])])
  /\ pc' = "replace"
  /\ rest' = {C \in irr : \E lit \in C : reprs[lit] \notin {0, lit}}
  /\ UNCHANGED <<original, irr, units, unsat, substituted, round, dfs_idx, idx, min, work,
                 scc, reprs, postponed, again>>

\* The clause with its representatives, without false literals.
NewClause(C) == {reprs[lit] : lit \in C \ (units \cup Neg(units))} \ Neg(units)

\* A clause with true literals or both phases of a representative.
Satisfied(C) ==
  LET D == {reprs[lit] : lit \in C \ (units \cup Neg(units))}
  IN  (C \cup D) \cap units # {} \/ Tautological(D)

\* Replace the literals of one clause.
Replace(C) ==
  /\ pc = "replace" /\ ~unsat /\ C \in rest
  /\ LET D == NewClause(C)
     IN  /\ postponed' = IF Satisfied(C) THEN postponed \cup {C} ELSE postponed
         /\ unsat' = (~Satisfied(C) /\ D = {})
         /\ units' = IF ~Satisfied(C) /\ Cardinality(D) = 1 THEN units \cup D ELSE units
         /\ irr' = IF Satisfied(C) \/ D = {} THEN irr
                   ELSE IF Cardinality(D) = 1 THEN irr \ {C} ELSE (irr \ {C}) \cup {D}
         /\ again' = (again \/ (~Satisfied(C) /\ Cardinality(D) <= 2))
  /\ rest' = rest \ {C}
  /\ UNCHANGED <<original, extension, substituted, pc, round, dfs_idx, idx, min, work, scc, reprs>>

\* The end of decompose_round: delete the satisfied clauses, propagate, and
\* mark the variables unless their representative is fixed.
Finish ==
  /\ pc = "replace" /\ ~unsat /\ rest = {}
  /\ LET F == irr \ postponed
         P == UnitPropagate(F, units)
     IN  /\ irr' = F
         /\ unsat' = Conflicting(F, units)
         /\ units' = IF unsat' THEN units ELSE P
         /\ substituted' = IF unsat' THEN substituted
                           ELSE substituted \cup {v \in Vars : /\ Replaced(v) /\ {v, -v} \cap P = {}
                                                               /\ {reprs[v], -reprs[v]} \cap P = {}}
  /\ postponed' = {}
  /\ pc' = IF ~unsat' /\ again /\ round < decomposerounds THEN "search" ELSE "end"
  /\ round' = round + 1 /\ again' = FALSE
  /\ Fresh
  /\ UNCHANGED <<original, extension, rest>>

Next ==
  \/ Skip \/ Prefix \/ Postfix \/ Save \/ Finish
  \/ \E lit \in Lits : Root(lit)
  \/ \E C \in rest : Replace(C)

Spec == Init /\ [][Next]_vars /\ WF_vars(Next)

-----------------------------------------------------------------------------
\* Type invariant: substituted variables are gone and were not frozen.
TypeOK ==
  /\ irr \subseteq ProperClauses /\ (~unsat => Consistent(units))
  /\ substituted \subseteq Vars \ Frozen
  /\ pc = "end" /\ ~unsat => \A C \in irr : C \cap units # {} \/
                                  \A lit \in C : Var(lit) \notin substituted
  /\ pc \in {"search", "replace", "end"}

RECURSIVE Reachable(_)
Reachable(S) ==
  LET T == S \cup UNION {Children(lit) : lit \in S} IN IF T = S THEN S ELSE Reachable(T)

\* Tarjan's algorithm is right: literals get the same representative exactly if
\* each is reachable from the other, those of frozen variables excepted, and
\* negated literals have negated representatives.
ComponentsExact ==
  (pc = "search" /\ ~unsat /\ work = <<>> /\ \A lit \in ActiveLits : min[lit] = Traversed) =>
    \A lit \in ActiveLits :
      /\ reprs[-lit] = -reprs[lit]
      /\ reprs[lit] \in Reachable({lit}) /\ lit \in Reachable({reprs[lit]})
      /\ \A other \in Reachable({lit}) :
           lit \in Reachable({other}) /\ Var(lit) \notin Frozen /\ Var(other) \notin Frozen
             => reprs[lit] = reprs[other]

\* Between rounds and at the end, the models of what is left extend to models
\* of the formula.
ModelsExtend ==
  pc = "end" \/ (pc = "search" /\ ~unsat) =>
    \A sigma \in Models(Formula) : Satisfies(Extend(extension, sigma), original)

\* Nothing is invented: the clauses follow from the formula, and it is found
\* unsatisfiable only if it is.
DatabaseImplied ==
  IF unsat THEN Models(original) = {} ELSE \A C \in Formula : Implies(original, C)
=============================================================================
