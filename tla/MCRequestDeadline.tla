-------------------------- MODULE MCRequestDeadline -------------------------
(* RequestDeadline for TLC: one connection and one slow three-byte request. *)
EXTENDS RequestDeadline, TLC

CONSTANTS p1, a1

SlowDest == (p1 :> a1)
SlowScript == (p1 :> {[at |-> 0, need |-> 3, len |-> 3, verdict |-> "keep"]})
SlowLen == (p1 :> 3)
=============================================================================
