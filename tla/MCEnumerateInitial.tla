------------------------ MODULE MCEnumerateInitial ------------------------
(***************************************************************************)
(* EnumerateInitial for TLC, with five arguments: calls that the searches  *)
(* make on every framework over three arguments, on frameworks with        *)
(* initial sets of two members, and with a bitset that holds more than the *)
(* array.                                                                  *)
(***************************************************************************)
EXTENDS EnumerateInitial, FiniteSets

\* The active arguments with which a search calls enumerate_initial on R:
\* all arguments, and the reducts reached by at most n choices.
SearchActives(R, n) ==
  LET level[k \in 0 .. n] ==
        IF k = 0 THEN {AllActive}
        ELSE UNION {{get_reduct(R, active, S) : S \in EncodedInitialSets(R, active)} :
                      active \in level[k - 1]}
  IN  UNION {level[k] : k \in 0 .. n}

OutDegree(R, a) == Cardinality({e \in R : e[1] = a})

\* Three arguments up to renaming, while 3 and 4 attack themselves; or 0
\* attacks all others and leaves nothing.
SmallFrameworks ==
  {R \cup {<<3, 3>>, <<4, 4>>} :
     R \in {Q \in SUBSET ((0 .. 2) \X (0 .. 2)) :
              OutDegree(Q, 0) >= OutDegree(Q, 1) /\ OutDegree(Q, 1) >= OutDegree(Q, 2)}}
    \cup {{<<0, a>> : a \in 1 .. 4}}

SmallCalls ==
  UNION {{[af |-> R, active_arguments |-> active] : active \in SearchActives(R, 3)} :
           R \in SmallFrameworks}

\* 0, 1, 2 and 3 attack each other in a circle, so that {0, 2} and {1, 3} may
\* be initial.
CycleCalls ==
  {[af |-> {<<0, 1>>, <<1, 2>>, <<2, 3>>, <<3, 0>>, <<4, 4>>} \cup E, active_arguments |-> AllActive] :
     E \in SUBSET {<<0, 0>>, <<0, 2>>, <<1, 3>>, <<2, 0>>}}

\* 0 and 1 are unattacked and both attack 2, so that choosing {0} and then {1}
\* leaves the bit of 2 set.
PhantomCalls ==
  {[af |-> R, active_arguments |-> get_reduct(R, get_reduct(R, AllActive, {0}), {1})] :
     R \in {{<<0, 2>>, <<1, 2>>} \cup E :
              E \in SUBSET {<<2, 3>>, <<2, 4>>, <<3, 2>>, <<3, 4>>, <<4, 3>>, <<4, 4>>}}}

AllCalls == SmallCalls \cup CycleCalls \cup PhantomCalls
=============================================================================
