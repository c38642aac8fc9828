-------------------------- MODULE MCSerialisation --------------------------
(***************************************************************************)
(* Serialisation for TLC: every call that main makes, with every query, on *)
(* frameworks without re-attacks over four arguments and on frameworks     *)
(* with re-attacks over five.                                              *)
(***************************************************************************)
EXTENDS Serialisation, FiniteSets

EnumerationTasks ==
  {[alg |-> "admissible", flag |-> FALSE, argument |-> 0],         \* ES-AD
   [alg |-> "admissible", flag |-> TRUE, argument |-> 0],          \* ES-PR
   [alg |-> "strong_admissible", flag |-> FALSE, argument |-> 0],  \* ES-SA
   [alg |-> "strong_admissible", flag |-> TRUE, argument |-> 0],   \* ES-GR
   [alg |-> "complete", flag |-> FALSE, argument |-> 0],           \* ES-CO
   [alg |-> "stable", flag |-> FALSE, argument |-> 0],             \* ES-ST
   [alg |-> "unchallenged", flag |-> TRUE, argument |-> 0]}        \* ES-UC

\* AS-AD; args is the number of an argument that does not exist.
QueryTasks == {[alg |-> "argument", flag |-> FALSE, argument |-> a] : a \in Arg \cup {args}}

AllTasks == EnumerationTasks \cup QueryTasks

OutDegree(R, a) == Cardinality({e \in R : e[1] = a})

\* Three arguments that attack themselves and each other, up to renaming, and
\* a fourth that the first one attacks.
SmallFrameworks ==
  {R \cup {<<0, 3>>} :
     R \in {Q \in SUBSET ((0 .. 2) \X (0 .. 2)) :
              /\ OutDegree(Q, 0) >= OutDegree(Q, 1)
              /\ OutDegree(Q, 1) >= OutDegree(Q, 2)
              /\ Cardinality(Q) >= 3}}

\* Four arguments is the smallest number for which an initial set has two
\* members ({0, 2} when 0, 1, 2, 3 attack each other in a circle): frameworks
\* without self-attacks in which 0 attacks 1, 1 attacks 2 and 3 takes part.
LargeFrameworks ==
  {R \in SUBSET {e \in Arg \X Arg : e[1] # e[2]} :
     /\ {<<0, 1>>, <<1, 2>>} \subseteq R
     /\ \E a \in Arg : {<<a, 3>>, <<3, a>>} \cap R # {}}

NoReattackFrameworks ==
  {R \in SmallFrameworks \cup LargeFrameworks : NeverReattacks(R)}

\* 0 and 1 are unattacked and both attack 2, which attacks 3; the attacks on 3
\* and 4 by 2, 3 and 4 vary.
ReattackFrameworks ==
  {{<<0, 2>>, <<1, 2>>, <<2, 3>>} \cup E :
     E \in SUBSET {<<2, 4>>, <<3, 4>>, <<4, 3>>, <<4, 4>>}}

\* ES-* and the query for the argument at the end of the chain.
ReattackTasks == {t \in AllTasks : t.alg = "argument" => t.argument = 4}

\* 0 and 1 attack 2, which attacks 3, which attacks 4.
ChainFramework == {{<<0, 2>>, <<1, 2>>, <<2, 3>>, <<3, 4>>}}
=============================================================================
