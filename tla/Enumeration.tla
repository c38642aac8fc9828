---------------------------- MODULE Enumeration ----------------------------
(***************************************************************************)
(* What an enumeration promises: it delivers members of a target set, one  *)
(* at a time and each at most once, and reports completion only when every *)
(* member has been delivered.                                              *)
(***************************************************************************)
VARIABLES
  target,      \* the set to enumerate; fixed
  delivered,   \* the members delivered so far
  complete     \* has completion been reported?

vars == <<target, delivered, complete>>

Init ==
  /\ delivered = {}
  /\ complete = FALSE

Deliver ==
  /\ ~complete
  /\ \E x \in target \ delivered : delivered' = delivered \cup {x}
  /\ UNCHANGED <<target, complete>>

Complete ==
  /\ ~complete
  /\ delivered = target
  /\ complete' = TRUE
  /\ UNCHANGED <<target, delivered>>

Next == Deliver \/ Complete

Spec == Init /\ [][Next]_vars
=============================================================================
