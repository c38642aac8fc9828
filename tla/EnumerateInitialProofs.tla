----------------------- MODULE EnumerateInitialProofs -----------------------
(***************************************************************************)
(* Proofs about enumerate_initial, for every number of arguments, every    *)
(* framework and every set of active arguments that it can be called with, *)
(* whatever models the SAT solver returns.                                 *)
(***************************************************************************)
EXTENDS EnumerateInitial, ArgumentationProofs

Assignments == SUBSET (1 .. 2 * args)

Listed(active, sigma) == {a \in active.array : a + 1 \in sigma}

\* The sets of listed arguments that some model of the clauses C accepts.
ModelSets(active, C) ==
  {S \in SUBSET active.array :
     \E sigma \in Assignments : Satisfies(sigma, C) /\ S = Listed(active, sigma)}

(***************************************************************************)
(* The clauses of admissible_nonempty, one by one (src/Encodings.cpp).     *)
(***************************************************************************)
LEMMA EncodingClauses ==
  ASSUME NEW R \in Framework, NEW active \in IterableBitSet,
         NEW sigma \in Assignments
  PROVE  Satisfies(sigma, admissible_nonempty(R, active)) <=>
           /\ \A a \in active.array : a + 1 \notin sigma \/ args + a + 1 \notin sigma
           /\ \A a \in active.array : \A b \in active_attackers(R, active, a) :
                a + 1 \in sigma => args + b + 1 \in sigma
           /\ \A a \in active.array : args + a + 1 \in sigma =>
                \E b \in active_attackers(R, active, a) : b + 1 \in sigma
           /\ \E a \in active.array : a + 1 \in sigma
<1> DEFINE att(a) == active_attackers(R, active, a)
           not_both(a) == {-accepted_var(a), -rejected_var(a)}
           out_clause(a) == {accepted_var(b) : b \in att(a)} \cup {-rejected_var(a)}
           reject(a, b) == {-accepted_var(a), rejected_var(b)}
           nonempty == {accepted_var(a) : a \in active.array}
<1>1. active.array \subseteq Arg /\ \A a \in Arg : att(a) \subseteq Arg
  BY DEF IterableBitSet, active_attackers, attackers
<1>2. \A a \in Arg :
        /\ Holds(sigma, accepted_var(a)) <=> a + 1 \in sigma
        /\ Holds(sigma, -accepted_var(a)) <=> a + 1 \notin sigma
        /\ Holds(sigma, rejected_var(a)) <=> args + a + 1 \in sigma
        /\ Holds(sigma, -rejected_var(a)) <=> args + a + 1 \notin sigma
  <2>1. TAKE a \in Arg
  <2>2. /\ accepted_var(a) = a + 1 /\ a + 1 \in Int /\ a + 1 > 0 /\ ~(-(a + 1) > 0) /\ -(-(a + 1)) = a + 1
        /\ rejected_var(a) = args + a + 1 /\ args + a + 1 \in Int /\ args + a + 1 > 0
        /\ ~(-(args + a + 1) > 0) /\ -(-(args + a + 1)) = args + a + 1
    BY VariablesApart, ArgsAssumption
  <2>3. QED
    BY <2>2 DEF Holds
<1> DEFINE sat(clause) == \E lit \in clause : Holds(sigma, lit)
<1>3. \A a \in active.array : sat(not_both(a)) <=> a + 1 \notin sigma \/ args + a + 1 \notin sigma
  BY <1>1, <1>2
<1>4. \A a \in active.array : \A b \in att(a) :
        sat(reject(a, b)) <=> (a + 1 \in sigma => args + b + 1 \in sigma)
  BY <1>1, <1>2
<1>5. \A a \in active.array :
        sat(out_clause(a)) <=> (args + a + 1 \in sigma => \E b \in att(a) : b + 1 \in sigma)
  BY <1>1, <1>2
<1>6. sat(nonempty) <=> \E a \in active.array : a + 1 \in sigma
  BY <1>1, <1>2
<1>7. Satisfies(sigma, admissible_nonempty(R, active)) <=>
        /\ \A a \in active.array : sat(not_both(a))
        /\ \A a \in active.array : \A b \in att(a) : sat(reject(a, b))
        /\ \A a \in active.array : sat(out_clause(a))
        /\ sat(nonempty)
  <2> HIDE DEF att
  <2>1. admissible_nonempty(R, active) =
          {not_both(a) : a \in active.array}
            \cup (UNION {{reject(a, b) : b \in att(a)} : a \in active.array})
            \cup {out_clause(a) : a \in active.array}
            \cup {nonempty}
    BY DEF admissible_nonempty, att
  <2>2. Satisfies(sigma, admissible_nonempty(R, active)) <=>
          \A clause \in admissible_nonempty(R, active) : sat(clause)
    BY DEF Satisfies
  <2> HIDE DEF not_both, reject, out_clause, nonempty, sat
  <2>3. \A clause : clause \in admissible_nonempty(R, active) <=>
          \/ \E a \in active.array : clause = not_both(a)
          \/ \E a \in active.array : \E b \in att(a) : clause = reject(a, b)
          \/ \E a \in active.array : clause = out_clause(a)
          \/ clause = nonempty
    BY <2>1
  <2>4. QED
    BY <2>2, <2>3
<1>8. QED
  <2> HIDE DEF sat, not_both, reject, out_clause, nonempty
  <2>1. QED
    BY <1>3, <1>4, <1>5, <1>6, <1>7

(***************************************************************************)
(* The models of the encoding, seen through the listed arguments, are the  *)
(* sets that EncodedAdmissible describes.                                  *)
(***************************************************************************)
LEMMA EncodingModels ==
  ASSUME NEW R \in Framework, NEW active \in IterableBitSet,
         active.array \subseteq active.bitset
  PROVE  ModelSets(active, admissible_nonempty(R, active))
           = {S \in SUBSET active.array : EncodedAdmissible(R, active, S)}
<1> DEFINE att(a) == active_attackers(R, active, a)
<1>1. active.array \subseteq Arg /\ active.bitset \subseteq Arg
  BY DEF IterableBitSet
<1>2. \A a \in Arg : att(a) \subseteq active.bitset
  BY DEF active_attackers
<1>3. args \in Nat /\ \A a \in Arg : a \in Nat /\ a < args
  BY ArgsAssumption DEF Arg
<1>4. ASSUME NEW sigma \in Assignments, Satisfies(sigma, admissible_nonempty(R, active))
      PROVE  EncodedAdmissible(R, active, Listed(active, sigma))
  <2> DEFINE S == Listed(active, sigma)
  <2>1. S \subseteq active.array /\ S # {}
    BY <1>4, EncodingClauses DEF Listed
  <2>2. ASSUME NEW a \in S, NEW b \in att(a) \cap active.array
        PROVE  b \notin S /\ att(b) \cap (S \cup Phantoms(active)) # {}
    <3>1. args + b + 1 \in sigma
      BY <1>4, <2>2, EncodingClauses DEF Listed
    <3>2. b \notin S
      BY <1>4, <2>2, <3>1, EncodingClauses DEF Listed
    <3>3. PICK c \in att(b) : c + 1 \in sigma
      BY <1>4, <2>2, <3>1, EncodingClauses
    <3>4. c \in S \cup Phantoms(active)
      BY <1>1, <1>2, <2>2, <3>3 DEF Listed, Phantoms
    <3>5. QED
      BY <3>2, <3>3, <3>4
  <2>3. QED
    BY <2>1, <2>2 DEF EncodedAdmissible
<1>5. ASSUME NEW S \in SUBSET active.array, EncodedAdmissible(R, active, S)
      PROVE  \E sigma \in Assignments :
               Satisfies(sigma, admissible_nonempty(R, active)) /\ S = Listed(active, sigma)
  <2> DEFINE true == S \cup Phantoms(active)
             out == {b \in active.bitset : \E a \in S : b \in att(a)}
             sigma == {v \in 1 .. 2 * args :
                         (\E a \in true : v = a + 1) \/ (\E b \in out : v = args + b + 1)}
  <2>1. true \subseteq Arg /\ out \subseteq Arg
    BY <1>1 DEF Phantoms
  <2>2. sigma \in Assignments
    BY DEF Assignments
  <2>3. \A a \in Arg : a + 1 \in sigma <=> a \in true
    <3> HIDE DEF true, out
    <3>1. QED
      BY <1>3, <2>1
  <2>4. \A a \in Arg : args + a + 1 \in sigma <=> a \in out
    <3> HIDE DEF true, out
    <3>1. QED
      BY <1>3, <2>1
  <2> HIDE DEF sigma
  <2>5. \A a \in active.array : a + 1 \notin sigma \/ args + a + 1 \notin sigma
    <3>1. SUFFICES ASSUME NEW a \in active.array, a \in true, a \in out
                   PROVE  FALSE
      BY <1>1, <2>3, <2>4
    <3>2. a \in S
      BY <3>1 DEF Phantoms
    <3>3. QED
      BY <1>5, <3>1, <3>2 DEF EncodedAdmissible
  <2>6. \A a \in active.array : \A b \in att(a) : a + 1 \in sigma => args + b + 1 \in sigma
    <3>1. SUFFICES ASSUME NEW a \in active.array, NEW b \in att(a), a \in true
                   PROVE  b \in out
      BY <1>1, <1>2, <2>3, <2>4
    <3>2. a \in S
      BY <3>1 DEF Phantoms
    <3>3. QED
      BY <1>1, <1>2, <3>1, <3>2
  <2>7. \A a \in active.array : args + a + 1 \in sigma => \E b \in att(a) : b + 1 \in sigma
    <3>1. SUFFICES ASSUME NEW a \in active.array, a \in out
                   PROVE  \E b \in att(a) : b \in true
      BY <1>1, <1>2, <2>3, <2>4
    <3>2. QED
      BY <1>5, <3>1 DEF EncodedAdmissible
  <2>8. \E a \in active.array : a + 1 \in sigma
    BY <1>1, <1>5, <2>3 DEF EncodedAdmissible
  <2>9. Satisfies(sigma, admissible_nonempty(R, active))
    <3> HIDE DEF out, true
    <3>1. QED
      BY <2>2, <2>5, <2>6, <2>7, <2>8, EncodingClauses
  <2>10. S = Listed(active, sigma)
    BY <1>1, <2>3 DEF Listed, Phantoms
  <2>11. QED
    BY <2>2, <2>9, <2>10
<1>6. QED
  BY <1>4, <1>5 DEF ModelSets

(***************************************************************************)
(* A minimization clause blocks a set and its supersets (src/EE-IT.cpp).   *)
(***************************************************************************)
LEMMA BlockedModels ==
  ASSUME NEW active \in IterableBitSet, NEW T \in SUBSET active.array, NEW C
  PROVE  ModelSets(active, C \cup {{-accepted_var(a) : a \in T}})
           = {S \in ModelSets(active, C) : ~(T \subseteq S)}
<1> DEFINE block == {-accepted_var(a) : a \in T}
<1>1. active.array \subseteq Arg
  BY DEF IterableBitSet
<1>2. ASSUME NEW sigma \in Assignments
      PROVE  (\E lit \in block : Holds(sigma, lit)) <=> ~(T \subseteq Listed(active, sigma))
  <2>1. \A a \in T : Holds(sigma, -accepted_var(a)) <=> a + 1 \notin sigma
    <3>1. TAKE a \in T
    <3>2. accepted_var(a) = a + 1 /\ a + 1 \in Int /\ ~(-(a + 1) > 0) /\ -(-(a + 1)) = a + 1
      BY <1>1, VariablesApart, ArgsAssumption
    <3>3. QED
      BY <3>2 DEF Holds
  <2>2. QED
    BY <2>1 DEF Listed
<1>3. \A sigma \in Assignments :
        Satisfies(sigma, C \cup {block}) <=>
          Satisfies(sigma, C) /\ ~(T \subseteq Listed(active, sigma))
  <2> HIDE DEF block
  <2>1. QED
    BY <1>2 DEF Satisfies
<1>4. QED
  <2> HIDE DEF block
  <2>1. ModelSets(active, C \cup {block}) = {S \in ModelSets(active, C) : ~(T \subseteq S)}
    BY <1>3 DEF ModelSets
  <2>2. QED
    BY <2>1 DEF block

-----------------------------------------------------------------------------
(***************************************************************************)
(* What solve may return, before and after the assumptions of the inner    *)
(* loop (src/CadicalSatSolver.cpp).                                        *)
(***************************************************************************)
LEMMA FreeSolutions ==
  ASSUME NEW s \in Solver,
         s.state \in {"SATISFIED", "UNSATISFIED"} \/ s.assumptions = {}
  PROVE  Solutions(s) = {sigma \in Assignments : Satisfies(sigma, s.clauses)}
<1>1. /\ transition_to_steady_state(s).assumptions = {}
      /\ transition_to_steady_state(s).clauses = s.clauses
  BY DEF transition_to_steady_state, Solver
<1>2. QED
  BY <1>1 DEF Solutions, Assignments

\* Assuming the negation of all accepted variables outside T asks for models inside T.
LEMMA RestrictedSolutions ==
  ASSUME NEW active \in IterableBitSet, NEW T,
         NEW s \in Solver, s.state = "STEADY",
         s.assumptions = {-accepted_var(a) : a \in active.array \ T}
  PROVE  Solutions(s) = {sigma \in Assignments :
                           Satisfies(sigma, s.clauses) /\ Listed(active, sigma) \subseteq T}
<1>1. /\ transition_to_steady_state(s).assumptions = s.assumptions
      /\ transition_to_steady_state(s).clauses = s.clauses
  BY DEF transition_to_steady_state, Solver
<1>2. active.array \subseteq Arg
  BY DEF IterableBitSet
<1>3. \A a \in active.array : \A sigma : Holds(sigma, -accepted_var(a)) <=> a + 1 \notin sigma
  <2>1. TAKE a \in active.array
  <2>2. accepted_var(a) = a + 1 /\ a + 1 \in Int /\ ~(-(a + 1) > 0) /\ -(-(a + 1)) = a + 1
    BY <1>2, VariablesApart, ArgsAssumption
  <2>3. QED
    BY <2>2 DEF Holds
<1>4. \A sigma \in Assignments :
        (\A lit \in s.assumptions : Holds(sigma, lit)) <=> Listed(active, sigma) \subseteq T
  BY <1>3 DEF Listed
<1>5. QED
  BY <1>1, <1>4 DEF Solutions, Assignments

-----------------------------------------------------------------------------
(***************************************************************************)
(* The inductive invariant.  Encoded are the sets the clauses described at *)
(* the start, Remaining the ones the clauses still allow.                  *)
(***************************************************************************)
Encoded == {S \in SUBSET active_arguments.array : EncodedAdmissible(af, active_arguments, S)}

Remaining == ModelSets(active_arguments, solver.clauses)

Current == accepted(solver)

\* The array is part of the bitset, as at every call.
Parameter == active_arguments.array \subseteq active_arguments.bitset

Start == pc = "call" => result = <<>> /\ ~found_extension

\* Before the first model the clauses are those of the encoding.
FreshClauses ==
  pc = "solve" /\ result = <<>> /\ ~found_extension =>
    solver.clauses = admissible_nonempty(af, active_arguments) /\ solver.assumptions = {}

\* A set is only blocked by a delivered set or the current one below it,
\* and every delivered set blocks its supersets.
Blocking ==
  pc \in {"solve", "minimize"} =>
    /\ Remaining \subseteq Encoded
    /\ \A S \in Encoded \ Remaining :
         (\E T \in Found : T \subseteq S) \/ (found_extension /\ Current \subseteq S)
    /\ \A T \in Found, S \in Remaining : ~(T \subseteq S)

\* Between two rounds no assumption reaches the next solve.
Outer ==
  pc = "solve" /\ ~found_extension =>
    solver.state \in {"SATISFIED", "UNSATISFIED"} \/ solver.assumptions = {}

\* Within a round the next solve looks below the current set, which is blocked.
Inner ==
  pc = "solve" /\ found_extension =>
    /\ Current \in Encoded
    /\ \A S \in Remaining : ~(Current \subseteq S)
    /\ \A T \in Found : ~(T \subseteq Current)
    /\ solver.state = "STEADY"
    /\ solver.assumptions = not_accepted

Shrinking ==
  pc = "minimize" => found_extension /\ Current \in Remaining /\ solver.state = "SATISFIED"

Delivered ==
  /\ Found \subseteq EncodedInitialSets(af, active_arguments)
  /\ \A i, j \in 1 .. Len(result) : result[i] = result[j] => i = j

Finished == pc = "done" => Found = EncodedInitialSets(af, active_arguments)

IInv ==
  /\ TypeOK
  /\ Parameter
  /\ Start
  /\ FreshClauses
  /\ Blocking
  /\ Outer
  /\ Inner
  /\ Shrinking
  /\ Delivered
  /\ Finished

\* What every step leaves alone.
LEMMA ParameterFixed ==
  ASSUME IInv, active_arguments' = active_arguments, af' = af
  PROVE  /\ af \in Framework /\ active_arguments \in IterableBitSet
         /\ Parameter' /\ Encoded' = Encoded
         /\ EncodedInitialSets(af, active_arguments)' = EncodedInitialSets(af, active_arguments)
BY DEF IInv, TypeOK, Parameter, Encoded

\* The sets to deliver are the minimal ones among the encoded sets.
LEMMA InitialSetsEncoded ==
  ASSUME IInv
  PROVE  /\ EncodedInitialSets(af, active_arguments) \subseteq Encoded
         /\ \A S \in EncodedInitialSets(af, active_arguments) : \A T \in Encoded :
              T \subseteq S => T = S
         /\ Remaining \subseteq SUBSET active_arguments.array
         /\ Current \subseteq active_arguments.array
         /\ Encoded \subseteq SUBSET active_arguments.array
BY DEF Encoded, EncodedInitialSets, Remaining, ModelSets, Current, accepted

\* An unsuccessful search of the outer loop has nothing left to find.
LEMMA NoneRemaining ==
  ASSUME IInv, pc = "solve", ~found_extension
  PROVE  Solutions(solver) = {} <=> Remaining = {}
<1>1. solver \in Solver
  BY DEF IInv, TypeOK
<1>2. Solutions(solver) = {sigma \in Assignments : Satisfies(sigma, solver.clauses)}
  BY <1>1, FreeSolutions DEF IInv, Outer
<1>3. \A sigma \in Assignments : Listed(active_arguments, sigma) \in SUBSET active_arguments.array
  BY DEF Listed
<1>4. QED
  BY <1>2, <1>3 DEF Remaining, ModelSets

\* When no model remains, all initial sets are in the result.
LEMMA AllDelivered ==
  ASSUME IInv, pc = "solve", ~found_extension, Remaining = {}
  PROVE  Found = EncodedInitialSets(af, active_arguments)
<1>1. SUFFICES ASSUME NEW S \in EncodedInitialSets(af, active_arguments)
               PROVE  S \in Found
  BY DEF IInv, Delivered
<1>2. PICK T \in Found : T \subseteq S
  BY InitialSetsEncoded DEF IInv, Blocking
<1>3. QED
  BY <1>2, InitialSetsEncoded DEF IInv, Delivered

-----------------------------------------------------------------------------
\* The call starts with an empty solver and an empty result.
LEMMA InitIInv == Init => IInv
<1>1. SUFFICES ASSUME Init PROVE IInv
  OBVIOUS
<1>2. TypeOK /\ Parameter
  <2>1. solver \in Solver
    BY <1>1 DEF Init, NewSolver, Solver, APIStates
  <2>2. PICK c \in Calls : af = c.af /\ active_arguments = c.active_arguments
    BY <1>1 DEF Init
  <2>3. /\ af \in Framework /\ active_arguments \in IterableBitSet
        /\ active_arguments.array \subseteq active_arguments.bitset
    BY <2>2, CallsAssumption
  <2>4. QED
    <3>1. result = <<>> /\ found_extension = FALSE /\ pc = "call"
      BY <1>1 DEF Init
    <3>2. result \in Seq(SUBSET Arg)
      BY <3>1
    <3>3. found_extension \in BOOLEAN /\ pc \in PC
      BY <3>1 DEF PC
    <3>4. QED
      BY <2>1, <2>3, <3>2, <3>3 DEF TypeOK, Parameter
<1>3. QED
  BY <1>1, <1>2 DEF Init, IInv, Start, FreshClauses, Blocking, Outer, Inner, Shrinking,
       Delivered, Finished, Found

\* The early return without active arguments.
LEMMA StepCallEmpty == IInv /\ CallEmpty => IInv'
<1>1. SUFFICES ASSUME IInv, CallEmpty PROVE IInv'
  OBVIOUS
<1>2. TypeOK' /\ Parameter'
  BY <1>1 DEF IInv, CallEmpty, TypeOK, Parameter, PC
<1>3. EncodedInitialSets(af, active_arguments) = {}
  BY <1>1 DEF CallEmpty, EncodedInitialSets, EncodedAdmissible
<1>4. Found' = {} /\ result' = <<>>
  BY <1>1 DEF IInv, CallEmpty, Start, Found
<1>5. QED
  BY <1>1, <1>2, <1>3, <1>4 DEF IInv, CallEmpty, Start, FreshClauses, Blocking, Outer, Inner,
       Shrinking, Delivered, Finished

\* The clauses of admissible_nonempty, and nothing else, are in the solver.
LEMMA StepCallEncode == IInv /\ CallEncode => IInv'
<1>1. SUFFICES ASSUME IInv, CallEncode PROVE IInv'
  OBVIOUS
<1> DEFINE C == admissible_nonempty(af, active_arguments)
<1>2. /\ af' = af /\ active_arguments' = active_arguments /\ pc' = "solve"
      /\ result' = <<>> /\ ~found_extension' /\ found_extension' \in BOOLEAN
  BY <1>1 DEF IInv, TypeOK, CallEncode, Start
<1>3. solver' = [state |-> "STEADY", clauses |-> C, assumptions |-> {}, model |-> {}]
  BY <1>1 DEF CallEncode, add_clauses, transition_to_steady_state, NewSolver
<1>4. C \in SUBSET SUBSET Int
  <2>1. \A a \in Arg : accepted_var(a) \in Int /\ rejected_var(a) \in Int
    BY VariablesApart, ArgsAssumption
  <2>2. active_arguments.array \subseteq Arg
    BY <1>1 DEF IInv, TypeOK, IterableBitSet
  <2>3. \A a \in Arg : active_attackers(af, active_arguments, a) \subseteq Arg
    BY DEF active_attackers, attackers
  <2>4. QED
    BY <2>1, <2>2, <2>3 DEF admissible_nonempty
<1>5. TypeOK'
  BY <1>1, <1>2, <1>3, <1>4 DEF IInv, TypeOK, PC, Solver, APIStates
<1>6. Remaining' = Encoded'
  BY <1>1, <1>2, <1>3, EncodingModels DEF IInv, TypeOK, Parameter, Remaining, Encoded
<1>7. Found' = {}
  BY <1>2 DEF Found
<1>8. QED
  BY <1>1, <1>2, <1>3, <1>5, <1>6, <1>7, ParameterFixed
     DEF IInv, Start, FreshClauses, Blocking, Outer, Inner, Shrinking, Delivered, Finished

\* A model of the outer or of the inner loop.
LEMMA StepSolveSat == IInv /\ SolveSat => IInv'
<1>1. SUFFICES ASSUME IInv, SolveSat PROVE IInv'
  OBVIOUS
<1>2. /\ af' = af /\ active_arguments' = active_arguments /\ pc = "solve" /\ pc' = "minimize"
      /\ result' = result /\ found_extension' = TRUE /\ Found' = Found
  BY <1>1 DEF SolveSat, Found
<1>3. PICK sigma \in Solutions(solver) : solver' = solved_sat(solver, sigma)
  BY <1>1 DEF SolveSat
<1>4. /\ solver' \in Solver /\ solver'.clauses = solver.clauses /\ solver'.state = "SATISFIED"
      /\ solver'.model = {a \in Arg : a + 1 \in sigma}
  BY <1>1, <1>3 DEF IInv, TypeOK, solved_sat, transition_to_steady_state, Solver, APIStates
<1>5. sigma \in Assignments /\ Satisfies(sigma, solver.clauses)
  BY DEF Solutions, Assignments, transition_to_steady_state
<1>6. Current' = Listed(active_arguments, sigma)
  BY <1>1, <1>2, <1>4 DEF IInv, TypeOK, IterableBitSet, Current, accepted, Listed
<1>7. Remaining' = Remaining /\ Current' \in Remaining
  BY <1>2, <1>4, <1>5, <1>6 DEF Remaining, ModelSets, Listed
<1>8. found_extension => Current' \subseteq Current
  <2>1. SUFFICES ASSUME found_extension PROVE Current' \subseteq Current
    OBVIOUS
  <2>2. /\ solver \in Solver /\ solver.state = "STEADY"
        /\ solver.assumptions = {-accepted_var(a) : a \in active_arguments.array \ Current}
        /\ active_arguments \in IterableBitSet
    BY <1>1, <1>2, <2>1 DEF IInv, TypeOK, Inner, not_accepted, Current
  <2>3. Listed(active_arguments, sigma) \subseteq Current
    BY <1>3, <2>2, RestrictedSolutions
  <2>4. QED
    BY <1>6, <2>3
<1>9. Blocking'
  BY <1>1, <1>2, <1>7, <1>8, ParameterFixed DEF IInv, Blocking
<1>10. TypeOK'
  BY <1>1, <1>2, <1>4 DEF IInv, TypeOK, PC
<1>11. QED
  BY <1>1, <1>2, <1>4, <1>7, <1>9, <1>10, ParameterFixed
     DEF IInv, Start, FreshClauses, Outer, Inner, Shrinking, Delivered, Finished

\* The clause and the assumptions that ask for a smaller set.
LEMMA StepMinimize == IInv /\ Minimize => IInv'
<1>1. SUFFICES ASSUME IInv, Minimize PROVE IInv'
  OBVIOUS
<1>2. /\ af' = af /\ active_arguments' = active_arguments /\ pc = "minimize" /\ pc' = "solve"
      /\ result' = result /\ found_extension' = found_extension /\ Found' = Found
      /\ found_extension /\ solver \in Solver /\ solver.state = "SATISFIED"
      /\ Current \in Remaining
  BY <1>1 DEF Minimize, Found, IInv, TypeOK, Shrinking
<1>3. solver' = [state |-> "STEADY", clauses |-> solver.clauses \cup {minimization_clause},
                 assumptions |-> not_accepted, model |-> solver.model]
  <2> HIDE DEF minimization_clause, not_accepted
  <2>1. CASE not_accepted = {}
    BY <1>1, <1>2, <2>1
       DEF Minimize, add_clause, add_clauses, assume, transition_to_steady_state, Solver
  <2>2. CASE not_accepted # {}
    BY <1>1, <1>2, <2>2
       DEF Minimize, add_clause, add_clauses, assume, transition_to_steady_state, Solver
  <2>3. QED
    BY <2>1, <2>2
<1>4. \A a \in active_arguments.array : -accepted_var(a) \in Int
  BY <1>1, VariablesApart, ArgsAssumption DEF IInv, TypeOK, IterableBitSet
<1>5. TypeOK'
  <2>1. minimization_clause \subseteq Int /\ not_accepted \subseteq Int
    BY <1>4 DEF minimization_clause, not_accepted, accepted
  <2>2. solver' \in Solver
    <3> HIDE DEF minimization_clause, not_accepted
    <3>1. solver.clauses \cup {minimization_clause} \in SUBSET SUBSET Int /\ solver.model \in SUBSET Arg
      BY <1>2, <2>1 DEF Solver
    <3>2. QED
      BY <1>3, <2>1, <3>1 DEF Solver, APIStates
  <2>3. QED
    BY <1>1, <1>2, <2>2 DEF IInv, TypeOK, PC
<1>6. Current' = Current /\ not_accepted' = not_accepted
  BY <1>2, <1>3 DEF Current, accepted, not_accepted
<1>7. Remaining' = {S \in Remaining : ~(Current \subseteq S)}
  <2>1. /\ active_arguments \in IterableBitSet /\ Current \in SUBSET active_arguments.array
        /\ minimization_clause = {-accepted_var(a) : a \in Current}
    BY <1>1 DEF IInv, TypeOK, Current, accepted, minimization_clause
  <2>2. Remaining' = ModelSets(active_arguments, solver.clauses \cup {minimization_clause})
    BY <1>2, <1>3 DEF Remaining
  <2>3. QED
    BY <2>1, <2>2, BlockedModels DEF Remaining
<1>8. Blocking'
  BY <1>1, <1>2, <1>6, <1>7, ParameterFixed DEF IInv, Blocking
<1>9. Inner'
  BY <1>1, <1>2, <1>3, <1>6, <1>7, ParameterFixed DEF IInv, Blocking, Inner
<1>10. QED
  BY <1>1, <1>2, <1>5, <1>8, <1>9, ParameterFixed
     DEF IInv, Start, FreshClauses, Outer, Shrinking, Delivered, Finished

\* emplace_back on the result.
LEMMA AppendFound ==
  ASSUME NEW q \in Seq(SUBSET Arg), NEW S \in SUBSET Arg
  PROVE  /\ Append(q, S) \in Seq(SUBSET Arg) /\ Append(q, S) # <<>>
         /\ Len(Append(q, S)) = Len(q) + 1 /\ Len(q) \in Nat
         /\ \A i \in 1 .. Len(q) : Append(q, S)[i] = q[i]
         /\ Append(q, S)[Len(q) + 1] = S
OBVIOUS

\* No smaller set: the current one is minimal, is delivered and blocked.
LEMMA StepSolveUnsatFound == IInv /\ SolveUnsatFound => IInv'
<1>1. SUFFICES ASSUME IInv, SolveUnsatFound PROVE IInv'
  OBVIOUS
<1>2. /\ af' = af /\ active_arguments' = active_arguments /\ pc = "solve" /\ pc' = "solve"
      /\ found_extension /\ found_extension' = FALSE /\ Solutions(solver) = {}
      /\ result \in Seq(SUBSET Arg) /\ solver \in Solver
      /\ active_arguments \in IterableBitSet
  BY <1>1 DEF SolveUnsatFound, IInv, TypeOK
<1>3. solver' \in Solver /\ solver'.clauses = solver.clauses /\ solver'.model = solver.model
      /\ solver'.state = "UNSATISFIED"
  BY <1>1, <1>2 DEF SolveUnsatFound, solved_unsat, transition_to_steady_state, Solver, APIStates
<1>4. result' = Append(result, Current) /\ Current \in SUBSET Arg /\ Remaining' = Remaining
  BY <1>1, <1>2, <1>3 DEF SolveUnsatFound, Current, accepted, IterableBitSet, Remaining
<1>5. Found' = Found \cup {Current}
  BY <1>2, <1>4, AppendFound DEF Found
<1>6. /\ Current \in Encoded
      /\ \A S \in Remaining : ~(Current \subseteq S)
      /\ \A T \in Found : ~(T \subseteq Current)
      /\ solver.state = "STEADY" /\ solver.assumptions = not_accepted
  BY <1>1, <1>2 DEF IInv, Inner
<1>7. \A S \in Remaining : ~(S \subseteq Current)
  <2>1. /\ solver \in Solver /\ solver.state = "STEADY"
        /\ solver.assumptions = {-accepted_var(a) : a \in active_arguments.array \ Current}
        /\ active_arguments \in IterableBitSet
    BY <1>2, <1>6 DEF not_accepted, Current
  <2>2. Solutions(solver) = {sigma \in Assignments : Satisfies(sigma, solver.clauses)
                               /\ Listed(active_arguments, sigma) \subseteq Current}
    BY <2>1, RestrictedSolutions
  <2>3. QED
    BY <1>2, <2>2 DEF Remaining, ModelSets
<1>8. Current \in EncodedInitialSets(af, active_arguments)
  <2>1. ASSUME NEW T \in SUBSET Current, EncodedAdmissible(af, active_arguments, T)
        PROVE  T = Current
    <3>1. T \in Encoded
      BY <1>6, <2>1 DEF Encoded
    <3>2. T \notin Remaining
      BY <1>7
    <3>3. (\E U \in Found : U \subseteq T) \/ Current \subseteq T
      BY <1>1, <1>2, <3>1, <3>2 DEF IInv, Blocking
    <3>4. QED
      BY <1>6, <3>3
  <2>2. QED
    BY <1>6, <2>1 DEF Encoded, EncodedInitialSets
<1>9. Delivered'
  <2>1. Current \notin Found
    BY <1>6
  <2>2. ASSUME NEW i \in 1 .. Len(result'), NEW j \in 1 .. Len(result'), result'[i] = result'[j]
        PROVE  i = j
    <3>1. /\ Len(result') = Len(result) + 1 /\ Len(result) \in Nat
          /\ \A k \in 1 .. Len(result) : result'[k] = result[k]
          /\ result'[Len(result) + 1] = Current
      BY <1>2, <1>4, AppendFound
    <3>2. \A k \in 1 .. Len(result) : result[k] \in Found
      BY DEF Found
    <3>3. \A k \in 1 .. Len(result') : k \in 1 .. Len(result) \/ k = Len(result) + 1
      BY <3>1
    <3>4. CASE i \in 1 .. Len(result) /\ j \in 1 .. Len(result)
      BY <1>1, <2>2, <3>1, <3>4 DEF IInv, Delivered
    <3>5. CASE i = Len(result) + 1 \/ j = Len(result) + 1
      BY <2>1, <2>2, <3>1, <3>2, <3>3, <3>5
    <3>6. QED
      BY <3>3, <3>4, <3>5
  <2>3. QED
    BY <1>1, <1>2, <1>5, <1>8, <2>2, ParameterFixed DEF IInv, Delivered
<1>10. Blocking'
  BY <1>1, <1>2, <1>4, <1>5, <1>6, ParameterFixed DEF IInv, Blocking
<1>11. TypeOK' /\ result' # <<>>
  BY <1>1, <1>2, <1>3, <1>4, AppendFound DEF IInv, TypeOK
<1>12. QED
  BY <1>1, <1>2, <1>3, <1>9, <1>10, <1>11, ParameterFixed
     DEF IInv, Start, FreshClauses, Outer, Inner, Shrinking, Finished

\* No model in the outer loop: the call returns.
LEMMA StepSolveUnsatEmpty == IInv /\ SolveUnsatEmpty => IInv'
<1>1. SUFFICES ASSUME IInv, SolveUnsatEmpty PROVE IInv'
  OBVIOUS
<1>2. /\ af' = af /\ active_arguments' = active_arguments /\ pc = "solve" /\ pc' = "done"
      /\ found_extension' = found_extension /\ ~found_extension /\ Solutions(solver) = {}
      /\ result' = result /\ Found' = Found
  BY <1>1 DEF SolveUnsatEmpty, Found
<1>3. solver' \in Solver
  BY <1>1 DEF IInv, TypeOK, SolveUnsatEmpty, solved_unsat, transition_to_steady_state, Solver, APIStates
<1>4. TypeOK'
  BY <1>1, <1>2, <1>3 DEF IInv, TypeOK, PC
<1>5. Found = EncodedInitialSets(af, active_arguments)
  BY <1>1, <1>2, NoneRemaining, AllDelivered
<1>6. QED
  BY <1>1, <1>2, <1>4, <1>5, ParameterFixed
     DEF IInv, Start, FreshClauses, Blocking, Outer, Inner, Shrinking, Delivered, Finished

\* The wrapper exits.
LEMMA StepSolveUnknown == IInv /\ SolveUnknown => IInv'
<1>1. SUFFICES ASSUME IInv, SolveUnknown PROVE IInv'
  OBVIOUS
<1>2. /\ pc' = "exit" /\ Found' = Found
      /\ UNCHANGED <<af, active_arguments, solver, found_extension, result>>
  BY <1>1 DEF SolveUnknown, Found
<1>3. TypeOK'
  BY <1>1, <1>2 DEF IInv, TypeOK, PC
<1>4. QED
  BY <1>1, <1>2, <1>3, ParameterFixed
     DEF IInv, Start, FreshClauses, Blocking, Outer, Inner, Shrinking, Delivered, Finished

\* A stuttering step.
LEMMA UnchangedIInv == IInv /\ UNCHANGED vars => IInv'
<1>1. SUFFICES ASSUME IInv, UNCHANGED vars PROVE IInv'
  OBVIOUS
<1>2. /\ Found' = Found /\ Encoded' = Encoded /\ Remaining' = Remaining
      /\ Current' = Current /\ not_accepted' = not_accepted
      /\ UNCHANGED <<af, active_arguments, solver, found_extension, result, pc>>
  BY <1>1 DEF vars, Found, Encoded, Remaining, Current, accepted, not_accepted
<1>3. TypeOK'
  BY <1>1, <1>2 DEF IInv, TypeOK
<1>4. Start' /\ FreshClauses' /\ Outer'
  BY <1>1, <1>2 DEF IInv, Start, FreshClauses, Outer
<1>5. Blocking' /\ Inner' /\ Shrinking'
  BY <1>1, <1>2 DEF IInv, Blocking, Inner, Shrinking
<1>6. Parameter' /\ Delivered' /\ Finished'
  BY <1>1, <1>2 DEF IInv, Parameter, Delivered, Finished
<1>7. QED
  BY <1>3, <1>4, <1>5, <1>6 DEF IInv

(***************************************************************************)
(* The invariant holds throughout every call of enumerate_initial.         *)
(***************************************************************************)
THEOREM Invariance == Spec => []IInv
<1>1. ASSUME IInv, [Next \/ Returned]_vars PROVE IInv'
  BY <1>1, StepCallEmpty, StepCallEncode, StepSolveSat, StepMinimize, StepSolveUnsatFound,
     StepSolveUnsatEmpty, StepSolveUnknown, UnchangedIInv DEF Next, Returned
<1>2. QED
  BY <1>1, InitIInv, PTL DEF Spec

(***************************************************************************)
(* The state of a call stays within its types.                             *)
(***************************************************************************)
THEOREM TypeCorrect == Spec => []TypeOK
<1>1. IInv => TypeOK
  BY DEF IInv
<1>2. QED
  BY <1>1, Invariance, PTL

(***************************************************************************)
(* The models of the clauses that Encodings::admissible_nonempty builds    *)
(* are exactly the sets the encoding is meant to describe.                 *)
(***************************************************************************)
THEOREM EncodingCorrect == Spec => []EncodingExact
<1>1. IInv => EncodingExact
  <2>1. SUFFICES ASSUME IInv, pc = "solve", result = <<>>, ~found_extension
                 PROVE  {{a \in active_arguments.array : a + 1 \in sigma} : sigma \in Solutions(solver)}
                          = {S \in SUBSET Arg : EncodedAdmissible(af, active_arguments, S)}
    BY DEF EncodingExact
  <2>2. /\ solver \in Solver /\ af \in Framework /\ active_arguments \in IterableBitSet
        /\ active_arguments.array \subseteq active_arguments.bitset
        /\ solver.clauses = admissible_nonempty(af, active_arguments) /\ solver.assumptions = {}
    BY <2>1 DEF IInv, TypeOK, Parameter, FreshClauses
  <2>3. Solutions(solver) = {sigma \in Assignments : Satisfies(sigma, solver.clauses)}
    BY <2>2, FreeSolutions
  <2>4. {{a \in active_arguments.array : a + 1 \in sigma} : sigma \in Solutions(solver)}
          = ModelSets(active_arguments, solver.clauses)
    BY <2>3 DEF ModelSets, Listed
  <2>5. ModelSets(active_arguments, solver.clauses) = Encoded
    BY <2>2, EncodingModels DEF Encoded
  <2>6. Encoded = {S \in SUBSET Arg : EncodedAdmissible(af, active_arguments, S)}
    BY <2>2 DEF Encoded, EncodedAdmissible, IterableBitSet
  <2>7. QED
    BY <2>4, <2>5, <2>6
<1>2. QED
  BY <1>1, Invariance, PTL

(***************************************************************************)
(* enumerate_initial returns every initial set of the active arguments,    *)
(* and each once, in whatever order the SAT solver finds its models.       *)
(***************************************************************************)
THEOREM InitialSetsCorrect == Spec => []InitialSetsExact
<1>1. IInv => InitialSetsExact
  <2>1. SUFFICES ASSUME IInv, pc = "done", Phantoms(active_arguments) = {}
                 PROVE  /\ Found = InitialSets(af, active_arguments.array)
                        /\ \A i, j \in 1 .. Len(result) : result[i] = result[j] => i = j
    BY DEF InitialSetsExact
  <2>2. /\ af \in Framework /\ active_arguments \in IterableBitSet
        /\ active_arguments.bitset = active_arguments.array
    BY <2>1 DEF IInv, TypeOK, Parameter, Phantoms
  <2>3. QED
    BY <2>1, <2>2, EncodedIsInitial DEF IInv, Finished, Delivered
<1>2. QED
  BY <1>1, Invariance, PTL

(***************************************************************************)
(* The temporary assumptions never restrict the solve that starts a new    *)
(* round.                                                                  *)
(***************************************************************************)
THEOREM OuterSolveCorrect == Spec => []OuterSolveUnrestricted
<1>1. IInv => OuterSolveUnrestricted
  <2>1. SUFFICES ASSUME IInv, pc = "solve", ~found_extension,
                        EncodedInitialSets(af, active_arguments) = Found
                 PROVE  Remaining = {}
    BY NoneRemaining, AllDelivered DEF OuterSolveUnrestricted
  <2>2. SUFFICES ASSUME NEW S \in Remaining PROVE FALSE
    OBVIOUS
  <2>3. EncodedAdmissible(af, active_arguments, S)
    BY <2>1 DEF IInv, Blocking, Encoded
  <2>4. PICK T \in EncodedInitialSets(af, active_arguments) : T \subseteq S
    BY <2>1, <2>3, InitialBelow DEF IInv, TypeOK
  <2>5. QED
    BY <2>1, <2>4 DEF IInv, Blocking
<1>2. QED
  BY <1>1, Invariance, PTL

(***************************************************************************)
(* Blocking a model with all its supersets loses no initial set.           *)
(***************************************************************************)
THEOREM NothingLostCorrect == Spec => []NothingLost
<1>1. IInv => NothingLost
  <2>1. SUFFICES ASSUME IInv, pc \in {"solve", "minimize"},
                        NEW S \in EncodedInitialSets(af, active_arguments) \ Found,
                        ~(found_extension /\ S = accepted(solver))
                 PROVE  \E sigma \in SUBSET (1 .. 2 * args) :
                          /\ Satisfies(sigma, solver.clauses)
                          /\ S = {a \in active_arguments.array : a + 1 \in sigma}
    BY DEF NothingLost
  <2>2. S \in Encoded /\ \A T \in Encoded : T \subseteq S => T = S
    BY <2>1, InitialSetsEncoded
  <2>3. Found \subseteq Encoded
    BY <2>1, InitialSetsEncoded DEF IInv, Delivered
  <2>4. found_extension => Current \in Encoded
    BY <2>1 DEF IInv, Inner, Shrinking, Blocking
  <2>5. S \in Remaining
    BY <2>1, <2>2, <2>3, <2>4 DEF IInv, Blocking, Current
  <2>6. QED
    BY <2>5 DEF Remaining, ModelSets, Assignments, Listed
<1>2. QED
  BY <1>1, Invariance, PTL

(***************************************************************************)
(* enumerate_initial implements the abstract enumeration: it only delivers *)
(* sets that are wanted, each once, and returns when all are delivered.    *)
(***************************************************************************)
THEOREM EnumerationImplemented == Spec => ImplementsEnumeration
<1>1. Init => Enum!Init
  BY DEF Init, Enum!Init, Found
<1>2. ASSUME IInv, [Next \/ Returned]_vars PROVE [Enum!Next]_Enum!vars
  <2> DEFINE Ini == EncodedInitialSets(af, active_arguments)
  <2>1. CASE CallEmpty
    <3>1. /\ pc = "call" /\ pc' = "done" /\ Found' = Found /\ Ini' = Ini
          /\ Found = {} /\ active_arguments.array = {}
      BY <1>2, <2>1 DEF CallEmpty, Found, IInv, Start
    <3>2. Ini = {}
      BY <3>1 DEF EncodedInitialSets, EncodedAdmissible
    <3>3. QED
      BY <3>1, <3>2 DEF Enum!Next, Enum!Complete
  <2>2. CASE CallEncode \/ SolveSat \/ Minimize \/ SolveUnknown \/ Returned \/ UNCHANGED vars
    <3>1. Found' = Found /\ Ini' = Ini /\ (pc' = "done") = (pc = "done")
      BY <2>2 DEF CallEncode, SolveSat, Minimize, SolveUnknown, Returned, vars, Found
    <3>2. QED
      BY <3>1 DEF Enum!vars
  <2>3. CASE SolveUnsatFound
    <3>1. /\ pc = "solve" /\ pc' = "solve" /\ Ini' = Ini /\ result' = Append(result, Current)
          /\ result \in Seq(SUBSET Arg) /\ Current \in SUBSET Arg
      BY <1>2, <2>3 DEF IInv, TypeOK, SolveUnsatFound, solved_unsat, transition_to_steady_state,
           Current, accepted, Solver, IterableBitSet
    <3>2. Found' = Found \cup {Current}
      BY <3>1, AppendFound DEF Found
    <3>3. Current \notin Found
      BY <1>2, <2>3 DEF IInv, Inner, SolveUnsatFound
    <3>4. Current \in Ini
      BY <1>2, <2>3, <3>1, <3>2, StepSolveUnsatFound DEF IInv, Delivered
    <3>5. QED
      BY <3>1, <3>2, <3>3, <3>4 DEF Enum!Next, Enum!Deliver
  <2>4. CASE SolveUnsatEmpty
    <3>1. /\ pc = "solve" /\ pc' = "done" /\ Found' = Found /\ Ini' = Ini
          /\ Solutions(solver) = {} /\ ~found_extension
      BY <2>4 DEF SolveUnsatEmpty, Found
    <3>2. Found = Ini
      BY <1>2, <3>1, NoneRemaining, AllDelivered
    <3>3. QED
      BY <3>1, <3>2 DEF Enum!Next, Enum!Complete
  <2>5. QED
    BY <1>2, <2>1, <2>2, <2>3, <2>4 DEF Next
<1>3. QED
  BY <1>1, <1>2, Invariance, PTL DEF Spec, ImplementsEnumeration, Enum!Spec
=============================================================================
