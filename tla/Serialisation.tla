--------------------------- MODULE Serialisation ---------------------------
(***************************************************************************)
(* The recursive searches of the solver: enumerate_sequences_admissible,   *)
(* _strong_admissible, _complete, _stable, _unchallenged (src/ES-*.cpp)    *)
(* and sequences_argument_admissible (src/AS-AD.cpp).                      *)
(*                                                                         *)
(* The C++ call stack is the variable stack, one record per activation.    *)
(* enumerate_initial is one step here, with the result that module         *)
(* EnumerateInitial establishes for it; the order of its result, which the *)
(* SAT solver decides, is the order in which \E picks pending sets.        *)
(***************************************************************************)
EXTENDS Argumentation

CONSTANTS
  Frameworks,   \* the frameworks to consider
  Tasks         \* the calls to consider: records [alg, flag, argument]

Algs == {"admissible", "strong_admissible", "complete", "stable",
         "unchallenged", "argument"}

\* flag is the parameter preferred, grounded or maximal; argument is the
\* query of "argument".
Task == [alg : Algs, flag : BOOLEAN, argument : Nat]

ASSUME InputAssumption == Frameworks \subseteq Framework /\ Tasks \subseteq Task

VARIABLES
  af,        \* the attack relation; fixed
  task,      \* the call made by main; fixed
  stack,     \* the activations, the running one last
  printed,   \* the sequences given to print_sequence so far
  exited     \* has main written the final newline and returned?

vars == <<af, task, stack, printed, exited>>

Activation ==
  [active                    : IterableBitSet,
   sequence                  : Seq(SUBSET Arg),
   entered                   : BOOLEAN,          \* past the loop's header?
   initial_sets              : SUBSET SUBSET Arg,
   pending                   : SUBSET SUBSET Arg, \* still to be visited
   is_maximal                : BOOLEAN,
   has_unattacked_initialset : BOOLEAN]

\* Mutant: the loop that copies the sequence stops one short.
NewActivation_drops_last(active, sequence) ==
  [active |-> active, sequence |-> SubSeq(sequence, 1, Len(sequence) - 1),
   entered |-> FALSE, initial_sets |-> {}, pending |-> {},
   is_maximal |-> TRUE, has_unattacked_initialset |-> FALSE]

NewActivation(active, sequence) ==
  [active |-> active, sequence |-> sequence, entered |-> FALSE,
   initial_sets |-> {}, pending |-> {},
   is_maximal |-> TRUE, has_unattacked_initialset |-> FALSE]

TypeOK ==
  /\ af \in Framework
  /\ task \in Task
  /\ stack \in Seq(Activation)
  /\ printed \in SUBSET Seq(SUBSET Arg)
  /\ exited \in BOOLEAN

Init ==
  /\ af \in Frameworks
  /\ task \in Tasks
  /\ stack = <<NewActivation(AllActive, <<>>)>>
  /\ printed = {}
  /\ exited = FALSE

Top == stack[Len(stack)]

Entering(alg) == task.alg = alg /\ stack # <<>> /\ ~Top.entered

Looping(alg) == task.alg = alg /\ stack # <<>> /\ Top.entered

(***************************************************************************)
(* The steps that the searches share.  is_maximal is only read by the      *)
(* searches that have it, has_unattacked_initialset only by complete.      *)
(***************************************************************************)
Enter(sets) ==            \* reach the loop over sets
  /\ stack' = [stack EXCEPT ![Len(stack)].entered = TRUE,
                            ![Len(stack)].initial_sets = sets,
                            ![Len(stack)].pending = sets]
  /\ UNCHANGED <<af, task, printed, exited>>

\* Mutant: the iterator does not advance.
Skip_stays(S) == UNCHANGED vars

Skip(S) ==                \* continue with the next set
  /\ stack' = [stack EXCEPT ![Len(stack)].pending = @ \ {S}]
  /\ UNCHANGED <<af, task, printed, exited>>

Descend(S, unattacked) == \* extend the sequence by S and recurse
  /\ stack' = Append([stack EXCEPT
                        ![Len(stack)].pending = @ \ {S},
                        ![Len(stack)].is_maximal = FALSE,
                        ![Len(stack)].has_unattacked_initialset = @ \/ unattacked],
                     NewActivation(get_reduct(af, Top.active, S),
                                   Append(Top.sequence, S)))
  /\ UNCHANGED <<af, task, printed, exited>>

Return(print) ==          \* print the sequence or not, and return
  /\ printed' = IF print THEN printed \cup {Top.sequence} ELSE printed
  /\ stack' = SubSeq(stack, 1, Len(stack) - 1)
  /\ UNCHANGED <<af, task, exited>>

\* Mutant: attackers count even when they are no longer active.
IsAttacked_any(S) == \E a \in S : attackers(af, a) # {}

\* Mutant: attackers are not looked at.
IsAttacked_never(S) == FALSE

\* Is an argument of S attacked by a set in the bitset of the activation?
IsAttacked(S) == \E a \in S : active_attackers(af, Top.active, a) # {}

(***************************************************************************)
(* src/ES-AD.cpp                                                           *)
(***************************************************************************)
AdmissibleEnter ==
  /\ Entering("admissible")
  /\ Enter(EncodedInitialSets(af, Top.active))

AdmissibleVisit ==
  /\ Looping("admissible")
  /\ \E S \in Top.pending : Descend(S, FALSE)

AdmissibleReturn ==
  /\ Looping("admissible") /\ Top.pending = {}
  /\ Return(~task.flag \/ Top.is_maximal)

(***************************************************************************)
(* src/ES-GR.cpp: no SAT solver, the loop ranges over single arguments.    *)
(***************************************************************************)
StrongEnter ==
  /\ Entering("strong_admissible")
  /\ Enter({{a} : a \in Top.active.array})

StrongSkip ==
  /\ Looping("strong_admissible")
  /\ \E S \in Top.pending : IsAttacked(S) /\ Skip(S)

StrongVisit ==
  /\ Looping("strong_admissible")
  /\ \E S \in Top.pending : ~IsAttacked(S) /\ Descend(S, FALSE)

StrongReturn ==
  /\ Looping("strong_admissible") /\ Top.pending = {}
  /\ Return(~task.flag \/ Top.is_maximal)

(***************************************************************************)
(* src/ES-CO.cpp                                                           *)
(***************************************************************************)
CompleteEnter ==
  /\ Entering("complete")
  /\ Enter(EncodedInitialSets(af, Top.active))

IsSingleton(S) == \E a \in S : S = {a}

CompleteVisit ==
  /\ Looping("complete")
  /\ \E S \in Top.pending : Descend(S, IsSingleton(S) /\ ~IsAttacked(S))

CompleteReturn ==
  /\ Looping("complete") /\ Top.pending = {}
  /\ Return(~Top.has_unattacked_initialset)

(***************************************************************************)
(* src/ES-ST.cpp                                                           *)
(***************************************************************************)
StableFinish ==
  /\ Entering("stable")
  /\ Top.active.array = {}
  /\ Return(TRUE)

StableEnter ==
  /\ Entering("stable")
  /\ Top.active.array # {}
  /\ Enter(EncodedInitialSets(af, Top.active))

StableVisit ==
  /\ Looping("stable")
  /\ \E S \in Top.pending : Descend(S, FALSE)

StableReturn ==
  /\ Looping("stable") /\ Top.pending = {}
  /\ Return(FALSE)

(***************************************************************************)
(* src/ES-UC.cpp                                                           *)
(***************************************************************************)
UnchallengedEnter ==
  /\ Entering("unchallenged")
  /\ Enter(EncodedInitialSets(af, Top.active))

\* Mutant: no set is challenged.
IsChallenged_never(S) == FALSE

IsChallenged(S) ==
  \E T \in Top.initial_sets : \E a \in S :
    active_attackers(af, Top.active, a) \cap T # {}

UnchallengedSkip ==
  /\ Looping("unchallenged")
  /\ \E S \in Top.pending : IsChallenged(S) /\ Skip(S)

UnchallengedVisit ==
  /\ Looping("unchallenged")
  /\ \E S \in Top.pending : ~IsChallenged(S) /\ Descend(S, FALSE)

UnchallengedReturn ==
  /\ Looping("unchallenged") /\ Top.pending = {}
  /\ Return(~task.flag \/ Top.is_maximal)

(***************************************************************************)
(* src/AS-AD.cpp                                                           *)
(***************************************************************************)
LastSet == IF Top.sequence = <<>> THEN {} ELSE Top.sequence[Len(Top.sequence)]

\* The loop over the last set stops at the first member that is the query or
\* attacks it; members are in ascending order.
ContainsArgument ==
  /\ task.argument \in LastSet
  /\ \A a \in LastSet : a < task.argument => <<a, task.argument>> \notin af

AttacksArgument == task.argument \in Attacked(af, LastSet)

ArgumentFinish ==
  /\ Entering("argument")
  /\ ContainsArgument \/ AttacksArgument
  /\ Return(ContainsArgument)

ArgumentEnter ==
  /\ Entering("argument")
  /\ ~ContainsArgument /\ ~AttacksArgument
  /\ Enter(EncodedInitialSets(af, Top.active))

ArgumentVisit ==
  /\ Looping("argument")
  /\ \E S \in Top.pending : Descend(S, FALSE)

ArgumentReturn ==
  /\ Looping("argument") /\ Top.pending = {}
  /\ Return(FALSE)

(***************************************************************************)
(* The outermost call is back in main, which ends the line and returns 0.  *)
(***************************************************************************)
MainReturn ==
  /\ stack = <<>>
  /\ ~exited
  /\ exited' = TRUE
  /\ UNCHANGED <<af, task, stack, printed>>

-----------------------------------------------------------------------------
Next ==
  \/ AdmissibleEnter   \/ AdmissibleVisit   \/ AdmissibleReturn
  \/ StrongEnter       \/ StrongSkip        \/ StrongVisit  \/ StrongReturn
  \/ CompleteEnter     \/ CompleteVisit     \/ CompleteReturn
  \/ StableFinish      \/ StableEnter       \/ StableVisit  \/ StableReturn
  \/ UnchallengedEnter \/ UnchallengedSkip
  \/ UnchallengedVisit \/ UnchallengedReturn
  \/ ArgumentFinish    \/ ArgumentEnter     \/ ArgumentVisit \/ ArgumentReturn
  \/ MainReturn

Exited == exited /\ UNCHANGED vars   \* the process has ended

Spec == Init /\ [][Next \/ Exited]_vars

\* A single thread: whenever the search can take a step it takes one.
FairSpec == Spec /\ WF_vars(Next)

-----------------------------------------------------------------------------
(***************************************************************************)
(* What each task has to print, in terms of module Argumentation.          *)
(***************************************************************************)
\* The sets by which a task extends a sequence whose reduct is X.
Picks(R, t, X) ==
  IF t.alg = "strong_admissible" THEN UnattackedSets(R, X)
  ELSE IF t.alg = "unchallenged" THEN Unchallenged(R, X)
  ELSE InitialSets(R, X)

IsPath(R, t, q) ==
  \A i \in 1 .. Len(q) : q[i] \in Picks(R, t, Reduct(R, Before(q, i)))

\* Where a task ends a sequence; flag says that it must not be extensible.
IsEnd(R, t, q) ==
  LET X == Reduct(R, Covered(q))
  IN  /\ t.alg \in {"admissible", "strong_admissible", "unchallenged"} /\ t.flag =>
           Picks(R, t, X) = {}
      /\ t.alg = "complete" => Unattacked(R, X) = {}
      /\ t.alg = "stable" => X = {}
      /\ t.alg = "argument" => q # <<>> /\ t.argument \in q[Len(q)]

Wanted(R, t, q) == IsPath(R, t, q) /\ IsEnd(R, t, q)

\* The frameworks on which get_reduct leaves no bits set in excess.
NeverReattacks(R) == \A q \in Serialisations(R) : ~Reattacks(R, q)

ExpectedSequences == {q \in Serialisations(af) : Wanted(af, task, q)}

ExpectedExtensions ==
  CASE task.alg = "admissible" ->
         IF task.flag THEN PreferredSets(af) ELSE AdmissibleSets(af)
    [] task.alg = "strong_admissible" ->
         IF task.flag THEN GroundedSets(af) ELSE StronglyAdmissibleSets(af)
    [] task.alg = "complete" -> CompleteSets(af)
    [] task.alg = "stable" -> StableSets(af)
    [] OTHER -> {Covered(q) : q \in ExpectedSequences}

Reattacked(R, q) ==      \* by the last element of q
  IF q = <<>> THEN {}
  ELSE Attacked(R, q[Len(q)]) \ Reduct(R, Before(q, Len(q)))

(***************************************************************************)
(* get_reduct's array is right at every depth: an activation lists exactly *)
(* the arguments that its sequence neither contains nor attacks.  Its      *)
(* bitset has in addition what the last set attacked once more.            *)
(***************************************************************************)
ActiveIsReduct ==
  \A i \in 1 .. Len(stack) :
    /\ stack[i].active.array = Reduct(af, Covered(stack[i].sequence))
    /\ Phantoms(stack[i].active) = Reattacked(af, stack[i].sequence)

(***************************************************************************)
(* A sequence is finished with once: no activation holds a sequence that   *)
(* has been printed, and none of its pending sets leads to one.            *)
(***************************************************************************)
NeverReprinted ==
  \A i \in 1 .. Len(stack) : \A p \in printed :
    /\ p # stack[i].sequence
    /\ \A S \in stack[i].pending :
         LET q == Append(stack[i].sequence, S)
         IN  Len(q) <= Len(p) => SubSeq(p, 1, Len(q)) # q

IsForward(R, q) ==
  \A i \in 1 .. Len(q) :
    /\ q[i] # {}
    /\ ConflictFree(R, q[i])
    /\ q[i] \subseteq Reduct(R, Before(q, i))

(***************************************************************************)
(* Sets are printed in an order in which they can be accepted: no set is   *)
(* empty, in conflict with itself or attacked by a set before it.          *)
(***************************************************************************)
ForwardConsistent == \A q \in printed : IsForward(af, q)

(***************************************************************************)
(* ES-SA and ES-GR never go wrong in what they print, re-attacks or not:   *)
(* each element is one argument that is unattacked at its turn.            *)
(***************************************************************************)
StrongSound ==
  task.alg = "strong_admissible" => \A q \in printed : IsStrong(af, q)

IsSoundUnlessReattack(R, q) ==
  ~Reattacks(R, SubSeq(q, 1, Len(q) - 1)) =>
    /\ IsSerialisation(R, q)
    /\ Admissible(R, Arg, Covered(q))

(***************************************************************************)
(* A printed sequence no element of which (but perhaps the last) attacks   *)
(* an argument that is already out is a serialisation sequence, and its    *)
(* union is admissible.                                                    *)
(***************************************************************************)
SoundUnlessReattack == \A q \in printed : IsSoundUnlessReattack(af, q)

(***************************************************************************)
(* When the search is over, the unions of the printed sequences are        *)
(* exactly the extensions of the semantics in its classical definition     *)
(* (on the frameworks of the run, where no sequence re-attacks anything).  *)
(***************************************************************************)
ExtensionsExact == exited => {Covered(q) : q \in printed} = ExpectedExtensions

Enum == INSTANCE Enumeration WITH
  target    <- ExpectedSequences,
  delivered <- printed,
  complete  <- exited

(***************************************************************************)
(* The search implements the abstract enumeration of the sequences that    *)
(* its task asks for (on the same frameworks).                             *)
(***************************************************************************)
ImplementsEnumeration == Enum!Spec

(***************************************************************************)
(* The recursion ends, on every framework.                                 *)
(***************************************************************************)
Terminates == <>exited

(***************************************************************************)
(* "ES : Enumerate Serialisation Sequences" (src/Main.cpp:14): whatever is *)
(* printed is a serialisation sequence of the framework.                   *)
(***************************************************************************)
OnlySerialisations == \A q \in printed : IsSerialisation(af, q)
=============================================================================
