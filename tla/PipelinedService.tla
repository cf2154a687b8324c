-------------------------- MODULE PipelinedService --------------------------
(***************************************************************************)
(* What one servoxide connection promises to its peer, without sockets,    *)
(* descriptors, buffers or timers: the requests of the connection's byte   *)
(* stream are answered one at a time, in stream order, each only after its *)
(* last byte was sent; an error answer is the last one; nothing follows a  *)
(* close.  EventLoop is shown to implement this specification.             *)
(***************************************************************************)
EXTENDS Naturals, Sequences

CONSTANTS
    Peers,      \* the connections
    Script,     \* Script[p]: the requests in the byte stream peer p may send
    StreamLen   \* StreamLen[p]: the length of that stream

VARIABLES
    status,     \* status[p]: "new", "open" or "done"
    sent,       \* sent[p]: how many bytes of its stream p has sent
    answers     \* answers[p]: the answers given so far, oldest first

svars == <<status, sent, answers>>

RequestAt(p, pos) == CHOOSE r \in Script[p] : r.at = pos

(* Where the first request that is not answered yet begins.                *)
NextPos(p) ==
    IF answers[p] = <<>> THEN 0
    ELSE LET last == answers[p][Len(answers[p])]
         IN  last.at + RequestAt(p, last.at).len

SInit ==
    /\ status = [p \in Peers |-> "new"]
    /\ sent = [p \in Peers |-> 0]
    /\ answers = [p \in Peers |-> <<>>]

Transmit(p) ==
    /\ sent[p] < StreamLen[p]
    /\ sent' = [sent EXCEPT ![p] = @ + 1]
    /\ UNCHANGED <<status, answers>>

(* The next request, sent in full, is answered.  The connection stays open *)
(* only if the request allows it.                                          *)
Answer(p) ==
    /\ status[p] = "open"
    /\ \E r \in Script[p] :
          /\ r.at = NextPos(p)
          /\ r.verdict \in {"keep", "close"}
          /\ sent[p] >= r.at + r.len
          /\ answers' = [answers EXCEPT ![p] = Append(@, [at |-> r.at, kind |-> "ok"])]
          /\ \/ r.verdict = "keep" /\ UNCHANGED status
             \/ status' = [status EXCEPT ![p] = "done"]
    /\ UNCHANGED sent

(* A request that was at least begun is refused, and that ends it.         *)
Refuse(p) ==
    /\ status[p] = "open"
    /\ sent[p] > NextPos(p)
    /\ answers' = [answers EXCEPT ![p] = Append(@, [at |-> NextPos(p), kind |-> "error"])]
    /\ status' = [status EXCEPT ![p] = "done"]
    /\ UNCHANGED sent

(* Connections are taken on, and ended without a further answer: one step  *)
(* of the server may do so for several of them.                            *)
Turnover ==
    /\ status' \in [Peers -> {"new", "open", "done"}]
    /\ \A p \in Peers :
          \/ status'[p] \in {status[p], "done"}
          \/ status[p] = "new" /\ status'[p] = "open"
    /\ UNCHANGED <<sent, answers>>

SNext == Turnover \/ \E p \in Peers : Transmit(p) \/ Answer(p) \/ Refuse(p)

SSpec == SInit /\ [][SNext]_svars
=============================================================================
