-------------------------- MODULE RequestDeadline ---------------------------
(***************************************************************************)
(* EventLoop with a clock per connection that sweep_timeouts does not      *)
(* have: how long the oldest byte of an unfinished request has been in     *)
(* inbuf.  The code only keeps last_activity, which every read renews.     *)
(***************************************************************************)
EXTENDS EventLoop

VARIABLE waited     \* history: descriptor -> age of its unfinished request

dvars == <<vars, waited>>

Unfinished(c) == c.out = "none" /\ c.hi > c.lo

DInit == Init /\ waited = [fd \in Fds |-> 0]

DNext ==
    /\ Next
    /\ waited' = [fd \in Fds |->
          IF fd \notin DOMAIN clients \/ fd \notin DOMAIN clients' THEN 0
          ELSE IF ~Unfinished(clients[fd]) \/ ~Unfinished(clients'[fd]) THEN 0
          ELSE IF clients'[fd].age > clients[fd].age
               THEN LesserOf(waited[fd] + 1, RequestTimeout)
          ELSE waited[fd]]

DSpec == DInit /\ [][DNext]_dvars

(* What the comment on REQUEST_TIMEOUT says: a connection that has sent a  *)
(* partial request and not finished it within the window gets a 408.  So   *)
(* after a sweep no client holds a request that has been unfinished for    *)
(* RequestTimeout.                                                         *)
PartialRequestsExpire ==
    [][phase = "dispatch" /\ phase' = "poll" =>
          \A fd \in DOMAIN clients' :
              Unfinished(clients'[fd]) => waited'[fd] < RequestTimeout]_dvars
=============================================================================
