--------------------------- MODULE Argumentation ---------------------------
(***************************************************************************)
(* Abstract argumentation, independently of the program: the notions that  *)
(* the solver's output is judged against.  Nothing of this models code.    *)
(* After it the data structure and the clauses with which the program      *)
(* computes these notions.                                                 *)
(*                                                                         *)
(* A framework is an attack relation R over the arguments 0 .. args-1; a   *)
(* sub-framework is given by the set X of its remaining arguments.         *)
(***************************************************************************)
EXTENDS Integers, Sequences

CONSTANT args                     \* number of arguments of the framework

ASSUME ArgsAssumption == args \in Nat

Arg == 0 .. args - 1

Framework == SUBSET (Arg \X Arg)  \* every attack relation over Arg

attackers(R, a) == {b \in Arg : <<b, a>> \in R}

Attacked(R, S) == {b \in Arg : \E a \in S : <<a, b>> \in R}

(***************************************************************************)
(* Admissible and initial sets of the sub-framework with arguments X.      *)
(***************************************************************************)
ConflictFree(R, S) == \A a, b \in S : <<a, b>> \notin R

Admissible(R, X, S) ==
  /\ S \subseteq X
  /\ ConflictFree(R, S)
  /\ \A a \in S, b \in X : <<b, a>> \in R => \E c \in S : <<c, b>> \in R

InitialSets(R, X) ==
  {S \in SUBSET X : /\ S # {}
                    /\ Admissible(R, X, S)
                    /\ \A T \in SUBSET S : T # {} /\ Admissible(R, X, T) => T = S}

\* The arguments of the reduct of R by S.
Reduct(R, S) == Arg \ (S \cup Attacked(R, S))

Unattacked(R, X) == {a \in X : attackers(R, a) \cap X = {}}

UnattackedSets(R, X) == {{a} : a \in Unattacked(R, X)}

\* Initial sets that no other initial set attacks.
Unchallenged(R, X) ==
  {S \in InitialSets(R, X) :
     \A T \in InitialSets(R, X) : Attacked(R, T) \cap S = {}}

(***************************************************************************)
(* Serialisation sequences: every element is an initial set of the reduct  *)
(* by the elements before it.                                              *)
(***************************************************************************)
Covered(q) == UNION {q[i] : i \in 1 .. Len(q)}

Before(q, i) == UNION {q[j] : j \in 1 .. i - 1}

IsSerialisation(R, q) ==
  \A i \in 1 .. Len(q) : q[i] \in InitialSets(R, Reduct(R, Before(q, i)))

\* Every element is one argument that is unattacked at its turn.
IsStrong(R, q) ==
  \A i \in 1 .. Len(q) : q[i] \in UnattackedSets(R, Reduct(R, Before(q, i)))

\* All serialisation sequences, by their length; none is longer than args.
Serialisations(R) ==
  LET level[k \in 0 .. args] ==
        IF k = 0 THEN {<<>>}
        ELSE UNION {{Append(q, S) : S \in InitialSets(R, Reduct(R, Covered(q)))} :
                      q \in level[k - 1]}
  IN  UNION {level[k] : k \in 0 .. args}

(***************************************************************************)
(* A sequence re-attacks when one of its elements attacks an argument that *)
(* the elements before it have already taken out of the framework.         *)
(***************************************************************************)
Reattacks(R, q) ==
  \E i \in 1 .. Len(q) : ~ Attacked(R, q[i]) \subseteq Reduct(R, Before(q, i))

(***************************************************************************)
(* The classical semantics, defined without serialisation.                 *)
(***************************************************************************)
Defended(R, S) == {a \in Arg : attackers(R, a) \subseteq Attacked(R, S)}

AdmissibleSets(R) == {S \in SUBSET Arg : Admissible(R, Arg, S)}

CompleteSets(R) == {S \in AdmissibleSets(R) : Defended(R, S) = S}

PreferredSets(R) ==
  {S \in AdmissibleSets(R) : \A T \in AdmissibleSets(R) : S \subseteq T => T = S}

StableSets(R) == {S \in AdmissibleSets(R) : S \cup Attacked(R, S) = Arg}

GroundedSets(R) ==
  {S \in CompleteSets(R) : \A T \in CompleteSets(R) : S \subseteq T}

\* S is strongly admissible when each member is defended by a strongly
\* admissible part of S that does not contain it.
StronglyAdmissibleSets(R) ==
  LET sa[S \in SUBSET Arg] ==
        \A a \in S : \E T \in SUBSET (S \ {a}) : a \in Defended(R, T) /\ sa[T]
  IN  {S \in SUBSET Arg : sa[S]}

-----------------------------------------------------------------------------
(***************************************************************************)
(* src/Encodings.cpp and the variable numbering of src/AF.cpp: the clauses *)
(* whose models are the non-empty admissible sets of the active arguments. *)
(* Before them what they are about: include/IterableBitSet.h and           *)
(* std::get_reduct of include/Algorithms.h.                                *)
(*                                                                         *)
(* An IterableBitSet keeps one set of arguments twice: _array lists its    *)
(* members for iteration, _bitset answers membership tests.  Nothing ties  *)
(* the two together, so they are two fields here.  The order of _array     *)
(* (always ascending) only decides the order in which members are printed  *)
(* and is left out.                                                        *)
(*                                                                         *)
(* A literal is a non-zero integer, a clause a set of literals.            *)
(***************************************************************************)

IterableBitSet == [array : SUBSET Arg, bitset : SUBSET Arg]

\* Mutant: the parser lists the numbers of the file.
AllActive_one_based == [array |-> 1 .. args, bitset |-> Arg]

\* What the parser hands over: every argument, in both representations.
AllActive == [array |-> Arg, bitset |-> Arg]

\* Mutant: the chosen arguments themselves are not marked.
get_reduct_keeps_chosen(R, active, S) ==
  LET kept == active.array \ Attacked(R, S)
  IN  [array |-> kept, bitset |-> kept \cup (Attacked(R, S) \ active.array)]

\* Mutant: what the chosen arguments attack is not marked.
get_reduct_keeps_attacked(R, active, S) ==
  LET kept == active.array \ S
  IN  [array |-> kept, bitset |-> kept]

(***************************************************************************)
(* get_reduct marks the chosen arguments and everything they attack in a   *)
(* fresh bitset and then flips the bit of every argument of                *)
(* active_arguments._array.  The bit of a marked argument that is not in   *)
(* that array is not flipped: it stays set.                                *)
(***************************************************************************)
get_reduct(R, active, S) ==
  LET marked == S \cup Attacked(R, S)
      kept   == active.array \ marked
  IN  [array |-> kept, bitset |-> kept \cup (marked \ active.array)]

\* Arguments whose bit is set although they are not listed.
Phantoms(active) == active.bitset \ active.array

-----------------------------------------------------------------------------
CONSTANT UINT_MODULUS             \* 2^32 in the build; small in TLC's runs

(***************************************************************************)
(* Both variables of every argument fit an int32_t.  The code does not     *)
(* check this; it holds below 2^30 arguments.                              *)
(***************************************************************************)
ASSUME WidthAssumption ==
  /\ UINT_MODULUS \in Nat \ {0}
  /\ 2 * args < UINT_MODULUS \div 2

\* Conversion of an unsigned sum to int32_t.
to_int(x) ==
  LET u == x % UINT_MODULUS
  IN  IF u < UINT_MODULUS \div 2 THEN u ELSE u - UINT_MODULUS

accepted_var(arg) == to_int(arg + 1)

rejected_var(arg) == to_int(args + arg + 1)

(***************************************************************************)
(* Membership of an attacker is asked of the bitset, iteration is over the *)
(* array, as in the code.                                                  *)
(***************************************************************************)
active_attackers(R, active, a) == attackers(R, a) \cap active.bitset

\* Mutant: an argument may be rejected without an accepted attacker.
admissible_nonempty_no_out_clause(R, active) ==
  {{-accepted_var(a), -rejected_var(a)} : a \in active.array}
    \cup (UNION {{{-accepted_var(a), rejected_var(b)} :
                     b \in active_attackers(R, active, a)} : a \in active.array})
    \cup {{accepted_var(a) : a \in active.array}}

admissible_nonempty(R, active) ==
  LET not_both(a) == {-accepted_var(a), -rejected_var(a)}
      out_clause(a) == {accepted_var(b) : b \in active_attackers(R, active, a)}
                         \cup {-rejected_var(a)}
      reject(a, b) == {-accepted_var(a), rejected_var(b)}
  IN  {not_both(a) : a \in active.array}
        \cup (UNION {{reject(a, b) : b \in active_attackers(R, active, a)} :
                       a \in active.array})
        \cup {out_clause(a) : a \in active.array}
        \cup {{accepted_var(a) : a \in active.array}}

\* Mutant: what these sets would be without out_clause.
EncodedAdmissible_no_out_clause(R, active, S) ==
  /\ S \subseteq active.array
  /\ S # {}
  /\ \A a \in S : active_attackers(R, active, a) \cap S = {}

(***************************************************************************)
(* The sets of active arguments that extend to a model of these clauses.   *)
(* An attacker whose bit is set but which is not listed (a phantom) has no *)
(* clauses of its own: it needs no counter-attack, and it may be accepted  *)
(* freely, which rejects whatever it attacks.                              *)
(***************************************************************************)
EncodedAdmissible(R, active, S) ==
  /\ S \subseteq active.array
  /\ S # {}
  /\ \A a \in S : \A b \in active_attackers(R, active, a) \cap active.array :
       /\ b \notin S
       /\ active_attackers(R, active, b) \cap (S \cup Phantoms(active)) # {}

\* The subset-minimal ones: what enumerate_initial returns (src/EE-IT.cpp).
EncodedInitialSets(R, active) ==
  {S \in SUBSET active.array :
     /\ EncodedAdmissible(R, active, S)
     /\ \A T \in SUBSET S : EncodedAdmissible(R, active, T) => T = S}
=============================================================================
