---------------------------- MODULE MCEventLoop -----------------------------
(* Small instances of EventLoop for TLC. *)
EXTENDS EventLoop, TLC

CONSTANTS p1, p2, a1, a2

(* Two requests of one connection, pipelined: the second one closes it.    *)
(* The first body is split from its head (need = len = 2).                 *)
Pipelined == {[at |-> 0, need |-> 2, len |-> 2, verdict |-> "keep"],
              [at |-> 2, need |-> 1, len |-> 1, verdict |-> "close"]}

(* A request refused on its head, before its body is there (a 413).        *)
TooLarge == {[at |-> 0, need |-> 1, len |-> 2, verdict |-> "reject"]}

OneDest == (p1 :> a1)
SplitDest == (p1 :> a1) @@ (p2 :> a2)
SharedDest == (p1 :> a1) @@ (p2 :> a1)

MixedScript == (p1 :> Pipelined) @@ (p2 :> TooLarge)
MixedLen == (p1 :> 3) @@ (p2 :> 2)

(* Two short requests of one connection, both kept alive.                  *)
Twice == {[at |-> 0, need |-> 1, len |-> 1, verdict |-> "keep"],
          [at |-> 1, need |-> 1, len |-> 1, verdict |-> "keep"]}

TwiceScript == (p1 :> Twice)
TwiceLen == (p1 :> 2)
=============================================================================
