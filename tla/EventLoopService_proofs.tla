---------------------- MODULE EventLoopService_proofs -----------------------
(***************************************************************************)
(* What a peer of EventLoop is promised, for every value of the constants: *)
(* no request of its stream is skipped, none is handled twice, an answer   *)
(* under way is not disturbed, and the answers are those of                *)
(* PipelinedService.                                                       *)
(*                                                                         *)
(* These are about histories (handled, replies).  HInv ties the histories  *)
(* of a connection to the state of its client: where the buffer begins,    *)
(* whether its first request was handled, and why a client that is writing *)
(* may be told to read at all.  It is inductive together with IInv, which  *)
(* EventLoop_proofs shows to be invariant.                                 *)
(***************************************************************************)
EXTENDS EventLoop_proofs

(* AnsweredUpTo, of any history of answers.                                *)
EndOf(p, rs) ==
    IF rs = <<>> THEN 0
    ELSE LET last == rs[Len(rs)]
         IN  last.at + RequestAt(p, last.at).len

(* An answer is unfinished, and is the one its request calls for.          *)
AnswerOK(p, c) ==
    /\ c.out # "none" => c.written < ResponseLen
    /\ c.out = "ok" => RequestAt(p, c.lo).verdict \in {"keep", "close"}
    /\ c.keep => RequestAt(p, c.lo).verdict = "keep"
    /\ c.out = "error" => c.lo < c.hi

(* The buffer begins where the last answer ended, and nothing beyond its   *)
(* first request was handled; nor that one, while there is no answer.      *)
ServedOK(p, c, hs, rs) ==
    /\ AnswerOK(p, c)
    /\ c.lo = EndOf(p, rs)
    /\ \A i \in DOMAIN hs : hs[i] <= c.lo /\ (c.out = "none" => hs[i] < c.lo)

(* Where a hangup cannot make a writing client read.                       *)
Orderly(p) == Backend = "kqueue" \/ sock[p].peer # "reset"

ClientsServed ==
    \A fd \in DOMAIN clients :
        ServedOK(fdTable[fd], clients[fd], handled[fdTable[fd]], replies[fdTable[fd]])

NewUntouched ==
    \A p \in Peers :
        sock[p].st \in {"new", "backlog"} => handled[p] = <<>> /\ replies[p] = <<>>

InOrder == \A p \in Peers : Orderly(p) => Ascending(handled[p])

(* Only a hangup reported by epoll is a read that no filter asked for.     *)
ReadsWanted ==
    \A e \in events :
        e.fd \in DOMAIN clients /\ e.readable =>
            interest[e.fd] = "read" \/ ~Orderly(fdTable[e.fd])

HInv == ClientsServed /\ NewUntouched /\ InOrder /\ ReadsWanted

-----------------------------------------------------------------------------
(***************************************************************************)
(* Histories.                                                              *)
(***************************************************************************)

(* Handling a request beyond all that were handled keeps the order.        *)
LEMMA AscendingAppend ==
    ASSUME NEW s \in Seq(Nat), NEW x \in Nat, Ascending(s), \A i \in DOMAIN s : s[i] < x
    PROVE  Ascending(Append(s, x))
<1>1. /\ Len(Append(s, x)) = Len(s) + 1 /\ Len(s) \in Nat
      /\ \A i \in 1 .. Len(s) : Append(s, x)[i] = s[i]
      /\ Append(s, x)[Len(s) + 1] = x
    OBVIOUS
<1>2. ASSUME NEW i \in 1 .. Len(Append(s, x)) - 1
      PROVE  Append(s, x)[i] < Append(s, x)[i + 1]
    <2>1. CASE i = Len(s)
        <3>1. i \in DOMAIN s
            BY <1>1, <2>1
        <3> QED
            BY <1>1, <2>1, <3>1
    <2>2. CASE i # Len(s)
        <3>1. i \in 1 .. Len(s) - 1 /\ i + 1 \in 1 .. Len(s)
            BY <1>1, <2>2
        <3> QED
            BY <1>1, <3>1 DEF Ascending
    <2> QED
        BY <2>1, <2>2
<1> QED
    BY <1>2 DEF Ascending

(* The buffer's new beginning is the end of the request just answered.     *)
LEMMA EndAppend ==
    ASSUME NEW p, NEW rs \in Seq(Reply), NEW r \in Reply
    PROVE  EndOf(p, Append(rs, r)) = r.at + RequestAt(p, r.at).len
<1>1. Append(rs, r) # <<>> /\ Append(rs, r)[Len(Append(rs, r))] = r
    OBVIOUS
<1> QED
    BY <1>1 DEF EndOf

(* A decided request is not empty, and its verdict is that of the stream.  *)
LEMMA VerdictDecided ==
    ASSUME NEW p \in Peers, NEW c \in Client, c.lo <= c.hi, Verdict(p, c) # "need_more"
    PROVE  /\ c.lo < c.hi
           /\ Verdict(p, c) \in {"keep", "close"} =>
                 StartsAt(p, c.lo) /\ RequestAt(p, c.lo).verdict = Verdict(p, c)
<1>1. c.lo \in Nat /\ c.hi \in Nat
    BY DEF Client
<1> QED
    BY <1>1 DEF Verdict

-----------------------------------------------------------------------------
(***************************************************************************)
(* What the shared parts of the handlers do to one client.                 *)
(***************************************************************************)

(* Of a handler's effects on the connection of fd, those that the peer can *)
(* tell, whether the client is kept or dropped.                            *)
Outcome(fd, socks) ==
    LET p == fdTable[fd]
    IN  /\ DOMAIN clients' \in {DOMAIN clients, DOMAIN clients \ {fd}}
        /\ fd \in DOMAIN clients' => fdTable'[fd] = p /\ sock'[p] = socks[p]
        /\ fd \notin DOMAIN clients' => sock'[p] = Closed(socks[p])
        /\ \A q \in Peers : q # p => sock'[q] = socks[q]

(* remove_client as the end of a handler.                                  *)
LEMMA RemoveOutcome ==
    ASSUME NEW fd, NEW socks, Handles(fd, socks), RemoveClients({fd}, socks)
    PROVE  Outcome(fd, socks) /\ DOMAIN clients' = DOMAIN clients \ {fd}
<1>1. DOMAIN clients' = DOMAIN clients \ {fd}
    BY DEF RemoveClients, Restrict
<1>2. fdTable[fd] \in Peers
    BY TablesFacts DEF Handles
<1> QED
    BY <1>1, <1>2 DEF RemoveClients, Outcome

(* The registration of a client as the end of a handler.                   *)
LEMMA ArmOutcome ==
    ASSUME NEW fd, NEW socks, Handles(fd, socks), NEW c, NEW i, Arm(fd, c, i, socks)
    PROVE  Outcome(fd, socks) /\ DOMAIN clients' = DOMAIN clients /\ clients'[fd] = c
<1>1. fd \in DOMAIN clients /\ clients \in [DOMAIN clients -> Client]
    BY DEF Handles, TablesOK, TablesTyped
<1> QED
    BY <1>1 DEF Arm, Outcome

(* queue_response as the end of a handler.                                 *)
LEMMA QueueOutcome ==
    ASSUME NEW fd, NEW socks, Handles(fd, socks), NEW c, QueueResponse(fd, c, socks)
    PROVE  Outcome(fd, socks) /\ (fd \in DOMAIN clients' => clients'[fd] = c)
BY RemoveOutcome, ArmOutcome DEF QueueResponse

(* try_dispatch answers at most the first request of the buffer, once, and *)
(* refuses only what has begun.                                            *)
LEMMA DispatchServed ==
    ASSUME NEW fd, NEW socks, Handles(fd, socks), NEW c \in Client, NEW i,
           NEW rs, c.lo <= c.hi, handled \in [Peers -> Seq(Nat)],
           ServedOK(fdTable[fd], c, handled[fdTable[fd]], rs),
           TryDispatch(fd, c, i, socks)
    PROVE  LET p == fdTable[fd]
           IN  /\ Outcome(fd, socks)
               /\ fd \in DOMAIN clients' => /\ ServedOK(p, clients'[fd], handled'[p], rs)
                                            /\ clients'[fd].lo = c.lo
               /\ \A q \in Peers : q # p => handled'[q] = handled[q]
               /\ Ascending(handled[p]) /\ c.out = "none" => Ascending(handled'[p])
<1> DEFINE p == fdTable[fd]
           hs == handled[p]
<1>1. p \in Peers /\ hs \in Seq(Nat) /\ c.lo \in Nat
    BY TablesFacts DEF Handles, Client
<1>2. CASE Verdict(p, c) = "need_more" /\ Arm(fd, c, i, socks) /\ UNCHANGED handled
    BY <1>2, ArmOutcome
<1>3. CASE /\ Verdict(p, c) = "reject" /\ QueueResponse(fd, WithError(c), socks)
           /\ UNCHANGED handled
    <2>1. Outcome(fd, socks) /\ (fd \in DOMAIN clients' => clients'[fd] = WithError(c))
        BY <1>3, QueueOutcome
    <2>2. /\ WithError(c).lo = c.lo /\ WithError(c).hi = c.hi /\ WithError(c).out = "error"
          /\ WithError(c).written = 0 /\ WithError(c).keep = FALSE
        BY DEF WithError, Client
    <2>3. c.lo < c.hi
        BY <1>1, <1>3, VerdictDecided
    <2>4. ServedOK(p, WithError(c), hs, rs)
        BY <2>2, <2>3, ConstAssumption DEF ServedOK, AnswerOK
    <2> QED
        BY <1>3, <2>1, <2>2, <2>4
<1>4. CASE /\ Verdict(p, c) \in {"keep", "close"}
           /\ handled' = [handled EXCEPT ![p] = Append(@, c.lo)]
           /\ QueueResponse(fd, WithResponse(p, c), socks)
    <2>1. Outcome(fd, socks) /\ (fd \in DOMAIN clients' => clients'[fd] = WithResponse(p, c))
        BY <1>4, QueueOutcome
    <2>2. /\ WithResponse(p, c).lo = c.lo /\ WithResponse(p, c).out = "ok"
          /\ WithResponse(p, c).written = 0
          /\ WithResponse(p, c).keep => Verdict(p, c) = "keep"
        BY DEF WithResponse, Client
    <2>3. RequestAt(p, c.lo).verdict = Verdict(p, c)
        BY <1>1, <1>4, VerdictDecided
    <2>4. handled'[p] = Append(hs, c.lo) /\ \A q \in Peers : q # p => handled'[q] = handled[q]
        BY <1>1, <1>4
    <2>5. \A j \in DOMAIN Append(hs, c.lo) : Append(hs, c.lo)[j] <= c.lo
        <3>1. \A j \in DOMAIN hs : hs[j] <= c.lo
            BY DEF ServedOK
        <3> QED
            BY <1>1, <3>1
    <2>6. ServedOK(p, WithResponse(p, c), handled'[p], rs)
        <3>1. AnswerOK(p, WithResponse(p, c))
            BY <1>4, <2>2, <2>3, ConstAssumption DEF AnswerOK
        <3> QED
            BY <2>2, <2>4, <2>5, <3>1 DEF ServedOK
    <2>7. ASSUME Ascending(hs), c.out = "none" PROVE Ascending(handled'[p])
        BY <1>1, <2>4, <2>7, AscendingAppend DEF ServedOK
    <2> QED
        BY <2>1, <2>2, <2>4, <2>6, <2>7
<1> QED
    BY <1>2, <1>3, <1>4 DEF TryDispatch

-----------------------------------------------------------------------------
(***************************************************************************)
(* What a handler does to the connection of its event, and what follows.   *)
(***************************************************************************)

(* The history of fd's connection grows as its client allows; no other     *)
(* connection has anything to do with it.                                  *)
ClientStep(fd) ==
    LET p == fdTable[fd]
    IN  /\ DOMAIN clients' \in {DOMAIN clients, DOMAIN clients \ {fd}}
        /\ fd \in DOMAIN clients' => /\ fdTable'[fd] = p
                                     /\ ServedOK(p, clients'[fd], handled'[p], replies'[p])
        /\ sock'[p].st \in IF fd \in DOMAIN clients' THEN {"open"} ELSE {"closed", "aborted"}
        /\ sock'[p].sent = sock[p].sent /\ sock'[p].peer = sock[p].peer
        /\ \A q \in Peers : q # p => /\ sock'[q] = sock[q] /\ handled'[q] = handled[q]
                                     /\ replies'[q] = replies[q]
        /\ Orderly(p) => Ascending(handled'[p])

(* An answer under way is still the same one, and no shorter.              *)
UndisturbedAt(fd) ==
    LET c == clients[fd]
        d == clients'[fd]
    IN  Orderly(fdTable[fd]) /\ c.out # "none" /\ d.lo = c.lo
            => /\ d.out = c.out
               /\ d.written >= c.written
               /\ d.pending = c.pending

(* One answer more, and what it is an answer to.                           *)
AnswerStep(fd) ==
    LET p == fdTable[fd]
        c == clients[fd]
        r == RequestAt(p, c.lo)
    IN  /\ c.out # "none" /\ c.lo = EndOf(p, replies[p])
        /\ replies' = [replies EXCEPT ![p] = Append(@, [at |-> c.lo, kind |-> c.out])]
        /\ c.out = "ok" => /\ r \in Script[p] /\ r.at = c.lo /\ r.verdict \in {"keep", "close"}
                           /\ sock[p].sent >= r.at + r.len
                           /\ fd \in DOMAIN clients' => r.verdict = "keep"
        /\ c.out = "error" => sock[p].sent > c.lo /\ fd \notin DOMAIN clients'

(* What a close leaves of a socket: the counters that requests and answers *)
(* are reckoned by.                                                        *)
LEMMA ClosedFields ==
    ASSUME NEW s \in Socket
    PROVE  /\ Closed(s).st \in {"closed", "aborted"}
           /\ Closed(s).sent = s.sent /\ Closed(s).peer = s.peer
BY DEF Closed, Socket

(* What the sockets say after a handler whose outcome is known.            *)
LEMMA OutcomeSockets ==
    ASSUME NEW fd, NEW socks, Handles(fd, socks), Outcome(fd, socks),
           socks[fdTable[fd]].sent = sock[fdTable[fd]].sent,
           socks[fdTable[fd]].peer = sock[fdTable[fd]].peer
    PROVE  LET p == fdTable[fd]
           IN  /\ sock'[p].st \in IF fd \in DOMAIN clients' THEN {"open"}
                                  ELSE {"closed", "aborted"}
               /\ sock'[p].sent = sock[p].sent /\ sock'[p].peer = sock[p].peer
               /\ \A q \in Peers : q # p => sock'[q] = sock[q]
<1> DEFINE p == fdTable[fd]
<1>1. /\ p \in Peers /\ socks[p] \in Socket /\ sock[p].st = "open"
      /\ socks[p].st = sock[p].st /\ \A q \in Peers : q # p => socks[q] = sock[q]
    BY TablesFacts DEF Handles, SocketsOK
<1> QED
    BY <1>1, ClosedFields DEF Outcome

(* So the handler keeps HInv.                                              *)
LEMMA ClientStepServed ==
    ASSUME IInv, HInv, IInv', NEW e \in events, Consume(e), e.fd \in DOMAIN clients,
           OthersKept(e.fd), ClientStep(e.fd)
    PROVE  HInv'
<1> DEFINE fd == e.fd
           p == fdTable[fd]
<1>1. TablesOK /\ EventsOK
    BY DEF IInv
<1>2. /\ p \in Peers
      /\ \A g \in DOMAIN clients : fdTable[g] \in Peers /\ (fdTable[g] = p => g = fd)
      /\ \A g \in DOMAIN clients \ {fd} :
            /\ g \in DOMAIN clients' /\ clients'[g] = clients[g] /\ fdTable'[g] = fdTable[g]
            /\ interest'[g] = interest[g] /\ sock'[fdTable[g]] = sock[fdTable[g]]
            /\ handled'[fdTable[g]] = handled[fdTable[g]]
            /\ replies'[fdTable[g]] = replies[fdTable[g]]
      /\ DOMAIN clients' \subseteq DOMAIN clients
    BY <1>1, TablesFacts DEF OthersKept, ClientStep
<1>3. ClientsServed'
    BY <1>2 DEF ClientsServed, ClientStep, HInv
<1>4. NewUntouched'
    BY <1>2 DEF NewUntouched, ClientStep, HInv
<1>5. InOrder'
    BY <1>2 DEF InOrder, Orderly, ClientStep, HInv
<1>6. ReadsWanted'
    <2> SUFFICES ASSUME NEW f \in events', f.fd \in DOMAIN clients', f.readable
                 PROVE  (interest[f.fd] = "read" \/ ~Orderly(fdTable[f.fd]))'
        BY DEF ReadsWanted, Orderly
    <2>1. f \in events /\ f.fd # fd
        BY <1>1 DEF Consume, EventsOK
    <2>2. f.fd \in DOMAIN clients \ {fd}
        BY <1>2, <2>1
    <2>3. interest[f.fd] = "read" \/ ~Orderly(fdTable[f.fd])
        BY <2>1, <2>2 DEF HInv, ReadsWanted
    <2> QED
        BY <1>2, <2>2, <2>3 DEF Orderly
<1> QED
    BY <1>3, <1>4, <1>5, <1>6 DEF HInv

(* A read.  While an answer is being written it happens only after a       *)
(* hangup on epoll, when nothing is promised any more.                     *)
LEMMA HandleReadServed ==
    ASSUME IInv, HInv, NEW e \in events, HandleRead(e)
    PROVE  /\ ClientStep(e.fd) /\ UNCHANGED replies
           /\ e.fd \in DOMAIN clients' => UndisturbedAt(e.fd)
<1> DEFINE fd == e.fd
           p == fdTable[fd]
           n == LesserOf(ReadMax, sock[p].sent - sock[p].read)
           c == [clients[fd] EXCEPT !.hi = @ + n, !.age = 0]
           socks == [sock EXCEPT ![p].read = @ + n]
<1>1. /\ TypeOK /\ TablesOK /\ fd \in DOMAIN clients /\ e.readable /\ UNCHANGED replies
      /\ handled \in [Peers -> Seq(Nat)]
    BY DEF IInv, HandleRead, TypeOK
<1>2. /\ p \in Peers /\ clients[fd] \in Client /\ ClientOK(p, clients[fd], interest[fd], sock[p])
      /\ ServedOK(p, clients[fd], handled[p], replies[p])
      /\ Orderly(p) => Ascending(handled[p])
    BY <1>1, TablesFacts DEF HInv, ClientsServed, InOrder
<1>3. Orderly(p) => clients[fd].out = "none"
    BY <1>1, <1>2 DEF HInv, ReadsWanted, ClientOK, InterestOK, ServedOK, AnswerOK
<1>4. /\ n \in Nat /\ c \in Client /\ c.hi = clients[fd].hi + n
      /\ c.lo = clients[fd].lo /\ c.out = clients[fd].out /\ c.keep = clients[fd].keep
      /\ c.written = clients[fd].written
      /\ socks[p].sent = sock[p].sent /\ socks[p].peer = sock[p].peer
      /\ Handles(fd, socks) /\ Handles(fd, sock) /\ BufferOK(p, c, socks[p])
    BY <1>1, ReadPrepared
<1>5. CASE TryDispatch(fd, c, interest[fd], socks)
    <2> HIDE DEF fd, p, n, c, socks
    <2>1. ServedOK(p, c, handled[p], replies[p]) /\ c.lo <= c.hi
        <3>0. /\ c.lo \in Nat /\ c.hi \in Nat /\ clients[fd].hi \in Nat /\ clients[fd].lo \in Nat
              /\ c.lo <= c.hi
            BY <1>2, <1>4 DEF BufferOK, Client
        <3>1. c.hi >= clients[fd].hi
            BY <1>4, <3>0
        <3>2. AnswerOK(p, c)
            BY <1>2, <1>4, <3>0, <3>1 DEF ServedOK, AnswerOK
        <3> QED
            BY <1>2, <1>4, <3>0, <3>2 DEF ServedOK
    <2> USE DEF p
    <2>2. /\ Outcome(fd, socks)
          /\ fd \in DOMAIN clients' => ServedOK(p, clients'[fd], handled'[p], replies[p])
          /\ \A q \in Peers : q # p => handled'[q] = handled[q]
          /\ Ascending(handled[p]) /\ c.out = "none" => Ascending(handled'[p])
        BY <1>1, <1>4, <1>5, <2>1, DispatchServed
    <2>3. /\ sock'[p].st \in IF fd \in DOMAIN clients' THEN {"open"} ELSE {"closed", "aborted"}
          /\ sock'[p].sent = sock[p].sent /\ sock'[p].peer = sock[p].peer
          /\ \A q \in Peers : q # p => sock'[q] = sock[q]
        BY <1>4, <2>2, OutcomeSockets
    <2>4. ClientStep(fd)
        BY <1>1, <1>2, <1>3, <1>4, <2>2, <2>3 DEF ClientStep, Outcome
    <2> QED
        BY <1>1, <1>3, <2>4 DEF UndisturbedAt, fd
<1>6. CASE RemoveClients({fd}, sock) /\ UNCHANGED handled
    <2>1. Outcome(fd, sock) /\ DOMAIN clients' = DOMAIN clients \ {fd}
        BY <1>4, <1>6, RemoveOutcome
    <2>2. /\ sock'[p].st \in {"closed", "aborted"}
          /\ sock'[p].sent = sock[p].sent /\ sock'[p].peer = sock[p].peer
          /\ \A q \in Peers : q # p => sock'[q] = sock[q]
        <3> HIDE DEF fd, n, c, socks
        <3> QED
            BY <1>4, <2>1, OutcomeSockets
    <2>3. ClientStep(fd)
        BY <1>1, <1>2, <1>6, <2>1, <2>2 DEF ClientStep
    <2> QED
        BY <1>1, <2>1, <2>3
<1> QED
    BY <1>5, <1>6 DEF HandleRead

(* finish_response drains exactly the request that was answered, so the    *)
(* next one begins where the answer's request ended.                       *)
LEMMA DrainedServed ==
    ASSUME NEW p \in Peers, NEW c \in Client, NEW s \in Socket, BufferOK(p, c, s), c.keep,
           NEW hs \in Seq(Nat), NEW rs \in Seq(Reply),
           \A i \in DOMAIN hs : hs[i] <= c.lo
    PROVE  /\ Drained(c) \in Client /\ Drained(c).out = "none"
           /\ c.lo < Drained(c).lo /\ Drained(c).lo <= Drained(c).hi
           /\ ServedOK(p, Drained(c), hs, Append(rs, [at |-> c.lo, kind |-> c.out]))
<1> DEFINE r == RequestAt(p, c.lo)
           rs1 == Append(rs, [at |-> c.lo, kind |-> c.out])
<1>1. /\ c.out = "ok" /\ StartsAt(p, c.lo) /\ c.pending = r.len /\ c.lo + c.pending <= c.hi
      /\ c.lo \in Nat /\ c.hi \in Nat
    BY DEF BufferOK, Client
<1>2. r \in Request /\ r.len \in Nat \ {0}
    BY <1>1, RequestAtStart DEF Request
<1>3. /\ Drained(c) \in Client /\ BufferOK(p, Drained(c), s)
    BY DrainedOK
<1>4. /\ Drained(c).lo = c.lo + r.len /\ Drained(c).out = "none"
      /\ Drained(c).keep = FALSE
    BY <1>1, <1>2 DEF Drained, Client
<1>5. EndOf(p, rs1) = c.lo + r.len
    <2>1. [at |-> c.lo, kind |-> c.out] \in Reply
        BY <1>1 DEF Reply
    <2> QED
        BY <2>1, EndAppend
<1>6. \A i \in DOMAIN hs : hs[i] <= c.lo /\ hs[i] \in Nat
    OBVIOUS
<1>7. c.lo < Drained(c).lo /\ Drained(c).lo <= Drained(c).hi
    BY <1>1, <1>2, <1>3, <1>4 DEF BufferOK
<1> HIDE DEF r, rs1
<1>8. \A i \in DOMAIN hs : hs[i] < Drained(c).lo
    <2>1. \A k \in Nat : k <= c.lo => k < c.lo + r.len
        BY <1>1, <1>2
    <2>2. Drained(c).lo = c.lo + r.len
        BY <1>4
    <2> QED
        BY <1>6, <2>1, <2>2
<1>9. ServedOK(p, Drained(c), hs, rs1)
    BY <1>4, <1>5, <1>6, <1>8, <1>3 DEF ServedOK, AnswerOK, Client
<1> QED
    BY <1>3, <1>4, <1>7, <1>9 DEF rs1

(* A write.  Only the write that ends an answer adds one to the history,   *)
(* and the connection goes on only if the request allowed it.              *)
LEMMA HandleWriteServed ==
    ASSUME IInv, HInv, NEW e \in events, HandleWrite(e)
    PROVE  /\ ClientStep(e.fd)
           /\ UNCHANGED replies \/ AnswerStep(e.fd)
           /\ e.fd \in DOMAIN clients' => UndisturbedAt(e.fd)
<1> DEFINE fd == e.fd
           p == fdTable[fd]
           s == sock[p]
           n == LesserOf(ResponseLen - clients[fd].written, SendBuf - s.sndq)
           c == [clients[fd] EXCEPT !.written = @ + n, !.age = 0]
           socks == [sock EXCEPT ![p].sndq = @ + n]
           rs1 == Append(replies[p], [at |-> c.lo, kind |-> c.out])
<1>1. /\ TypeOK /\ TablesOK /\ fd \in DOMAIN clients /\ ~e.readable
      /\ handled \in [Peers -> Seq(Nat)] /\ replies \in [Peers -> Seq(Reply)]
    BY DEF IInv, HandleWrite, TypeOK
<1>2. /\ p \in Peers /\ clients[fd] \in Client /\ s \in Socket /\ SocketOK(p, s)
      /\ ServedOK(p, clients[fd], handled[p], replies[p])
      /\ Orderly(p) => Ascending(handled[p])
    BY <1>1, TablesFacts DEF HInv, ClientsServed, InOrder
<1>3. clients[fd].out # "none" /\ Handles(fd, sock)
    BY <1>1, WritePrepared
<1>4. ASSUME s.peer # "reset"
      PROVE  /\ n \in Nat /\ c \in Client /\ c.hi = clients[fd].hi /\ c.lo = clients[fd].lo
             /\ c.out = clients[fd].out /\ c.keep = clients[fd].keep
             /\ c.pending = clients[fd].pending /\ c.written = clients[fd].written + n
             /\ socks[p] \in Socket /\ socks[p].sent = s.sent /\ socks[p].peer = s.peer
             /\ Handles(fd, socks) /\ BufferOK(p, c, socks[p])
    BY <1>1, <1>4, WritePrepared
<1> HIDE DEF c, socks, n
<1>5. CASE /\ s.peer # "reset" /\ c.written < ResponseLen
           /\ Arm(fd, c, interest[fd], socks)
           /\ UNCHANGED <<handled, replies>>
    <2>1. ServedOK(p, c, handled[p], replies[p])
        BY <1>2, <1>4, <1>5 DEF ServedOK, AnswerOK
    <2>2. Outcome(fd, socks) /\ DOMAIN clients' = DOMAIN clients /\ clients'[fd] = c
        BY <1>4, <1>5, ArmOutcome
    <2>3. /\ sock'[p].st = "open" /\ sock'[p].sent = s.sent /\ sock'[p].peer = s.peer
          /\ \A q \in Peers : q # p => sock'[q] = sock[q]
        <3> HIDE DEF fd
        <3> QED
            BY <1>1, <1>4, <1>5, <2>2, OutcomeSockets
    <2>4. ClientStep(fd)
        BY <1>1, <1>2, <1>5, <2>1, <2>2, <2>3 DEF ClientStep, Outcome
    <2>5. UndisturbedAt(fd)
        BY <1>2, <1>4, <1>5, <2>2 DEF UndisturbedAt, Client
    <2> QED
        BY <1>5, <2>4, <2>5
<1>6. CASE /\ s.peer # "reset" /\ FinishResponse(fd, c, socks)
    <2>1. /\ replies' = [replies EXCEPT ![p] = rs1] /\ replies'[p] = rs1
          /\ \A q \in Peers : q # p => replies'[q] = replies[q]
        BY <1>1, <1>2, <1>6 DEF FinishResponse
    <2>2. /\ c.lo \in Nat /\ c.lo = EndOf(p, replies[p])
          /\ \A i \in DOMAIN handled[p] : handled[p][i] <= c.lo
          /\ c.out = "ok" => RequestAt(p, c.lo).verdict \in {"keep", "close"}
          /\ c.keep => c.out = "ok" /\ RequestAt(p, c.lo).verdict = "keep"
          /\ c.out = "error" => c.lo < c.hi
        BY <1>2, <1>4, <1>6 DEF ServedOK, AnswerOK, Client, BufferOK
    <2>3. ASSUME c.keep, TryDispatch(fd, Drained(c), "read", socks)
          PROVE  ClientStep(fd) /\ (fd \in DOMAIN clients' => UndisturbedAt(fd))
        <3> DEFINE d == Drained(c)
        <3>1. /\ d \in Client /\ d.out = "none" /\ c.lo < d.lo /\ d.lo <= d.hi
              /\ ServedOK(p, d, handled[p], rs1)
            BY <1>1, <1>2, <1>4, <1>6, <2>2, <2>3, DrainedServed
        <3> HIDE DEF fd, d, rs1
        <3>2. /\ Outcome(fd, socks)
              /\ fd \in DOMAIN clients' => /\ ServedOK(p, clients'[fd], handled'[p], rs1)
                                           /\ clients'[fd].lo = d.lo
              /\ \A q \in Peers : q # p => handled'[q] = handled[q]
              /\ Ascending(handled[p]) => Ascending(handled'[p])
            BY <1>1, <1>4, <1>6, <2>3, <3>1, DispatchServed DEF d
        <3>3. /\ sock'[p].st \in IF fd \in DOMAIN clients' THEN {"open"} ELSE {"closed", "aborted"}
              /\ sock'[p].sent = s.sent /\ sock'[p].peer = s.peer
              /\ \A q \in Peers : q # p => sock'[q] = sock[q]
            BY <1>4, <1>6, <3>2, OutcomeSockets
        <3>4. ClientStep(fd)
            BY <1>1, <1>2, <2>1, <3>2, <3>3 DEF ClientStep, Outcome
        <3>5. fd \in DOMAIN clients' => UndisturbedAt(fd)
            BY <1>4, <1>6, <2>2, <3>1, <3>2 DEF UndisturbedAt, Client
        <3> QED
            BY <3>4, <3>5
    <2>4. ASSUME RemoveClients({fd}, socks), UNCHANGED handled
          PROVE  ClientStep(fd) /\ fd \notin DOMAIN clients'
        <3>1. Outcome(fd, socks) /\ DOMAIN clients' = DOMAIN clients \ {fd}
            BY <1>4, <1>6, <2>4, RemoveOutcome
        <3>2. /\ sock'[p].st \in {"closed", "aborted"}
              /\ sock'[p].sent = s.sent /\ sock'[p].peer = s.peer
              /\ \A q \in Peers : q # p => sock'[q] = sock[q]
            <4> HIDE DEF fd
            <4> QED
                BY <1>4, <1>6, <3>1, OutcomeSockets
        <3> QED
            BY <1>1, <1>2, <2>1, <2>4, <3>1, <3>2 DEF ClientStep
    <2>5. /\ ClientStep(fd)
          /\ fd \in DOMAIN clients' => c.keep /\ UndisturbedAt(fd)
        BY <1>6, <2>3, <2>4 DEF FinishResponse
    <2>6. AnswerStep(fd)
        <3>1. c.hi \in Nat /\ s.sent \in Nat /\ c.hi <= s.sent
            <4>1. SocketOK(p, socks[p]) /\ c.hi = socks[p].read
                BY <1>2, <1>4, <1>6 DEF Handles, SocketsOK, BufferOK
            <4> QED
                BY <1>2, <1>4, <1>6, <4>1 DEF SocketOK, Socket, Client
        <3>2. ASSUME c.out = "ok"
              PROVE  LET r == RequestAt(p, c.lo)
                     IN  r \in Script[p] /\ r.at = c.lo /\ s.sent >= r.at + r.len
            <4>1. StartsAt(p, c.lo) /\ c.lo + RequestAt(p, c.lo).len <= c.hi
                BY <1>4, <1>6, <3>2 DEF BufferOK
            <4>2. /\ RequestAt(p, c.lo) \in Script[p] /\ RequestAt(p, c.lo).at = c.lo
                  /\ RequestAt(p, c.lo).len \in Nat
                BY <1>2, <4>1, RequestAtStart DEF Request
            <4> QED
                BY <2>2, <3>1, <4>1, <4>2
        <3>3. c.out = "error" => s.sent > c.lo /\ ~c.keep
            BY <2>2, <3>1
        <3> QED
            BY <1>3, <1>4, <1>6, <2>1, <2>2, <2>5, <3>2, <3>3 DEF AnswerStep, rs1
    <2> QED
        BY <2>5, <2>6
<1>7. CASE RemoveClients({fd}, sock) /\ UNCHANGED <<handled, replies>>
    <2>1. Outcome(fd, sock) /\ DOMAIN clients' = DOMAIN clients \ {fd}
        BY <1>3, <1>7, RemoveOutcome
    <2>2. /\ sock'[p].st \in {"closed", "aborted"}
          /\ sock'[p].sent = sock[p].sent /\ sock'[p].peer = sock[p].peer
          /\ \A q \in Peers : q # p => sock'[q] = sock[q]
        BY <1>3, <2>1, OutcomeSockets
    <2>3. ClientStep(fd)
        BY <1>1, <1>2, <1>7, <2>1, <2>2 DEF ClientStep
    <2> QED
        BY <1>7, <2>1, <2>3
<1> QED
    BY <1>5, <1>6, <1>7 DEF HandleWrite, c, socks, n

-----------------------------------------------------------------------------
(***************************************************************************)
(* Steps that are not about one client's event.                            *)
(***************************************************************************)

(* accept_all makes clients only of connections that were waiting, and     *)
(* tells nothing about a connection but that it was accepted or closed.    *)
LEMMA Accepted ==
    ASSUME IInv, NEW e \in events, AcceptAll(e)
    PROVE  /\ e.fd \notin DOMAIN clients /\ UNCHANGED <<handled, replies>>
           /\ events' = events \ {e}
           /\ DOMAIN clients \subseteq DOMAIN clients'
           /\ \A fd \in DOMAIN clients' \ DOMAIN clients :
                 /\ clients'[fd] = FreshClient(e.fd) /\ interest'[fd] = "read"
                 /\ fdTable'[fd] \in Peers /\ sock[fdTable'[fd]].st = "backlog"
           /\ \A p \in Peers :
                 /\ sock'[p].sent = sock[p].sent /\ sock'[p].peer = sock[p].peer
                 /\ \/ sock'[p].st = sock[p].st
                    \/ /\ sock[p].st = "backlog"
                       /\ sock'[p].st \in {"open", "closed", "aborted"}
<1>1. /\ TablesOK /\ e.fd \in Addrs /\ UNCHANGED <<handled, replies>> /\ events' = events \ {e}
    BY DEF IInv, AcceptAll, Consume
<1>2. PICK taken, refused, at :
         /\ taken \subseteq Backlog(e.fd) /\ refused \subseteq taken
         /\ at \in [taken \ refused -> Fds \ DOMAIN fdTable]
         /\ Register(e.fd, taken, refused, at)
    BY DEF AcceptAll
<1> DEFINE new == {at[p] : p \in taken \ refused}
           peerAt(fd) == CHOOSE p \in taken \ refused : at[p] = fd
<1>3. /\ clients' = [fd \in DOMAIN clients \cup new |->
                        IF fd \in new THEN FreshClient(e.fd) ELSE clients[fd]]
      /\ interest' = [fd \in DOMAIN interest \cup new |->
                        IF fd \in new THEN "read" ELSE interest[fd]]
      /\ fdTable' = [fd \in DOMAIN fdTable \cup new |->
                        IF fd \in new THEN peerAt(fd) ELSE fdTable[fd]]
      /\ sock' = [p \in Peers |->
                        IF p \in refused THEN Closed(sock[p])
                        ELSE IF p \in taken THEN [sock[p] EXCEPT !.st = "open"]
                        ELSE sock[p]]
    BY <1>2 DEF Register
<1>4. \A fd \in new : peerAt(fd) \in taken
    OBVIOUS
<1> HIDE DEF new, peerAt
<1>5. \A p \in taken : p \in Peers /\ sock[p].st = "backlog"
    BY <1>2 DEF Backlog
<1>6. e.fd \notin DOMAIN clients
    BY <1>1, TablesFacts, ConstAssumption
<1>7. ASSUME NEW fd \in DOMAIN clients' \ DOMAIN clients
      PROVE  /\ clients'[fd] = FreshClient(e.fd) /\ interest'[fd] = "read"
             /\ fdTable'[fd] \in Peers /\ sock[fdTable'[fd]].st = "backlog"
    BY <1>3, <1>4, <1>5, <1>7
<1>8. ASSUME NEW p \in Peers
      PROVE  /\ sock'[p].sent = sock[p].sent /\ sock'[p].peer = sock[p].peer
             /\ \/ sock'[p].st = sock[p].st
                \/ sock[p].st = "backlog" /\ sock'[p].st \in {"open", "closed", "aborted"}
    <2>1. sock[p] \in Socket
        BY <1>1 DEF TablesOK, TablesTyped
    <2>2. LET s == [sock[p] EXCEPT !.st = "open"]
          IN  s.st = "open" /\ s.sent = sock[p].sent /\ s.peer = sock[p].peer
        BY <2>1 DEF Socket
    <2> QED
        BY <1>2, <1>3, <1>5, <2>1, <2>2, ClosedFields
<1> QED
    BY <1>1, <1>3, <1>6, <1>7, <1>8

(* accept_all begins clients that nothing has been handled for.            *)
LEMMA AcceptAllServed ==
    ASSUME IInv, HInv, NEW e \in events, AcceptAll(e)
    PROVE  HInv'
<1>1. /\ TablesOK /\ OthersKept(e.fd)
    BY AcceptAllOK DEF IInv
<1>2. /\ \A fd \in DOMAIN clients : /\ fd \in DOMAIN clients' /\ clients'[fd] = clients[fd]
                                    /\ fdTable'[fd] = fdTable[fd] /\ fdTable[fd] \in Peers
                                    /\ interest'[fd] = interest[fd]
      /\ \A p \in Peers : sock'[p].peer = sock[p].peer
      /\ UNCHANGED <<handled, replies>> /\ events' \subseteq events
    BY <1>1, Accepted, TablesFacts DEF OthersKept
<1>3. ClientsServed'
    <2> SUFFICES ASSUME NEW fd \in DOMAIN clients'
                 PROVE  ServedOK(fdTable[fd], clients[fd], handled[fdTable[fd]],
                                 replies[fdTable[fd]])'
        BY DEF ClientsServed
    <2>1. CASE fd \in DOMAIN clients
        BY <1>2, <2>1 DEF HInv, ClientsServed
    <2>2. CASE fd \notin DOMAIN clients
        <3> DEFINE p == fdTable'[fd]
        <3>1. clients'[fd] = FreshClient(e.fd) /\ p \in Peers /\ sock[p].st = "backlog"
            BY <2>2, Accepted
        <3>2. handled'[p] = <<>> /\ replies'[p] = <<>>
            BY <1>2, <3>1 DEF HInv, NewUntouched
        <3> HIDE DEF p
        <3>3. ServedOK(p, FreshClient(e.fd), <<>>, <<>>)
            BY DEF ServedOK, AnswerOK, EndOf, FreshClient
        <3> QED
            BY <3>1, <3>2, <3>3 DEF p
    <2> QED
        BY <2>1, <2>2
<1>4. NewUntouched'
    BY <1>2, Accepted DEF HInv, NewUntouched
<1>5. InOrder'
    BY <1>2 DEF HInv, InOrder, Orderly
<1>6. ReadsWanted'
    BY <1>2, Accepted DEF HInv, ReadsWanted, Orderly
<1> QED
    BY <1>3, <1>4, <1>5, <1>6 DEF HInv

(* poll reports a descriptor readable whose filter is armed for writing    *)
(* only on epoll, and only after a reset.                                  *)
LEMMA PollServed ==
    ASSUME IInv, HInv, Poll
    PROVE  HInv'
<1>1. TablesOK /\ UNCHANGED <<clients, interest, fdTable, sock, handled, replies>>
    BY DEF IInv, Poll
<1>2. ASSUME NEW e \in events', e.fd \in DOMAIN clients, e.readable
      PROVE  interest[e.fd] = "read" \/ ~Orderly(fdTable[e.fd])
    <2>1. e \in ReadyEvents /\ e.fd \notin Addrs
        BY <1>1, <1>2, TablesFacts, ConstAssumption DEF Poll
    <2>2. PICK fd \in DOMAIN interest :
             e = [fd |-> fd, conn |-> fdTable[fd], readable |-> Readable(fd),
                  writable |-> Writable(fd)]
        BY <2>1 DEF ReadyEvents
    <2>3. Readable(e.fd)
        BY <1>2, <2>2
    <2> QED
        BY <2>3, ConstAssumption DEF Readable, Orderly
<1>3. ReadsWanted'
    BY <1>1, <1>2 DEF ReadsWanted, Orderly
<1> QED
    BY <1>1, <1>3 DEF HInv, ClientsServed, NewUntouched, InOrder, Orderly

(* The sweep refuses a request that has begun, never one already answered. *)
LEMMA SweepServed ==
    ASSUME IInv, HInv, SweepTimeouts
    PROVE  /\ HInv' /\ UNCHANGED <<handled, replies>>
           /\ \A fd \in DOMAIN clients \cap DOMAIN clients' :
                 clients'[fd] = clients[fd] \/ clients[fd].out = "none"
           /\ \A p \in Peers :
                 /\ sock'[p].sent = sock[p].sent
                 /\ \/ sock'[p].st = sock[p].st
                    \/ sock[p].st = "open" /\ sock'[p].st \in {"closed", "aborted"}
<1>1. TablesOK /\ events' = {} /\ UNCHANGED <<handled, replies>>
    BY DEF IInv, SweepTimeouts
<1>2. PICK refused \in SUBSET Stalled : Sweep(refused)
    BY DEF SweepTimeouts
<1> DEFINE gone == Idle \cup refused
           left == DOMAIN clients \ gone
<1>3. gone \subseteq DOMAIN clients
    BY DEF Idle, Stalled, Waiting
<1>4. /\ DOMAIN clients' = left
      /\ \A fd \in left :
            /\ clients'[fd] = IF fd \in Stalled THEN WithError(clients[fd]) ELSE clients[fd]
            /\ fdTable'[fd] = fdTable[fd] /\ fdTable[fd] \in Peers /\ clients[fd] \in Client
    BY <1>1, <1>2, TablesFacts DEF Sweep, Restrict
<1>5. sock' = [p \in Peers |-> IF \E fd \in gone : fdTable[fd] = p
                               THEN Closed(sock[p]) ELSE sock[p]]
    BY <1>2 DEF Sweep
<1> HIDE DEF gone, left
<1>6. ASSUME NEW p \in Peers
      PROVE  /\ sock'[p].sent = sock[p].sent /\ sock'[p].peer = sock[p].peer
             /\ \/ sock'[p].st = sock[p].st
                \/ sock[p].st = "open" /\ sock'[p].st \in {"closed", "aborted"}
    BY <1>1, <1>3, <1>5, TablesFacts, ClosedFields DEF TablesOK, TablesTyped
<1>7. ASSUME NEW fd \in left
      PROVE  /\ clients'[fd] = clients[fd] \/ clients[fd].out = "none"
             /\ ServedOK(fdTable[fd], clients'[fd], handled[fdTable[fd]], replies[fdTable[fd]])
    <2>1. fd \in DOMAIN clients
        BY <1>7 DEF left
    <2>2. ServedOK(fdTable[fd], clients[fd], handled[fdTable[fd]], replies[fdTable[fd]])
        BY <2>1 DEF HInv, ClientsServed
    <2>3. CASE fd \in Stalled
        <3>1. clients[fd].out = "none" /\ clients[fd].hi > clients[fd].lo
            BY <2>3 DEF Stalled, Waiting
        <3>2. /\ WithError(clients[fd]).lo = clients[fd].lo /\ WithError(clients[fd]).hi = clients[fd].hi
              /\ WithError(clients[fd]).out = "error" /\ WithError(clients[fd]).written = 0
              /\ WithError(clients[fd]).keep = FALSE
            BY <1>4 DEF WithError, Client
        <3>3. ServedOK(fdTable[fd], WithError(clients[fd]), handled[fdTable[fd]],
                       replies[fdTable[fd]])
            BY <1>4, <2>2, <3>1, <3>2, ConstAssumption DEF ServedOK, AnswerOK, Client
        <3> QED
            BY <1>4, <2>3, <3>1, <3>3
    <2>4. CASE fd \notin Stalled
        BY <1>4, <2>2, <2>4
    <2> QED
        BY <2>3, <2>4
<1>8. ClientsServed'
    BY <1>1, <1>4, <1>7 DEF ClientsServed
<1>9. NewUntouched' /\ InOrder' /\ ReadsWanted'
    BY <1>1, <1>6 DEF HInv, NewUntouched, InOrder, ReadsWanted, Orderly
<1> QED
    BY <1>1, <1>4, <1>6, <1>7, <1>8, <1>9 DEF HInv

(* What a peer does changes no history, and a reset only takes promises    *)
(* away.                                                                   *)
LEMMA PeersServed ==
    ASSUME IInv, HInv, NEW p \in Peers,
           Connect(p) \/ Send(p) \/ HalfClose(p) \/ Reset(p) \/ Receive(p)
    PROVE  HInv'
<1>1. sock \in [Peers -> Socket] /\ \A q \in Peers : sock[q] \in Socket
    BY DEF IInv, TypeOK
<1>2. UNCHANGED <<clients, interest, events, fdTable, handled, replies>>
    BY DEF Connect, Send, HalfClose, Reset, Receive, server
<1>3. \A q \in Peers : /\ sock[q].peer = "reset" => sock'[q].peer = "reset"
                       /\ sock'[q].st \in {"new", "backlog"} => sock[q].st \in {"new", "backlog"}
    BY <1>1 DEF Connect, Send, HalfClose, Reset, Receive, Socket
<1>4. \A fd \in DOMAIN clients : fdTable[fd] \in Peers
    BY TablesFacts DEF IInv
<1> QED
    BY <1>2, <1>3, <1>4 DEF HInv, ClientsServed, NewUntouched, InOrder, ReadsWanted, Orderly

(* Time passing touches neither histories nor answers.                     *)
LEMMA TickServed ==
    ASSUME IInv, HInv, Tick
    PROVE  /\ HInv' /\ DOMAIN clients' = DOMAIN clients
           /\ \A fd \in DOMAIN clients :
                 /\ clients'[fd].out = clients[fd].out /\ clients'[fd].written = clients[fd].written
                 /\ clients'[fd].pending = clients[fd].pending
                 /\ clients[fd].written \in Nat
<1>1. UNCHANGED <<interest, events, phase, fdTable, sock, handled, replies>>
    BY DEF Tick
<1>2. \A fd \in DOMAIN clients : clients[fd] \in Client
    BY TablesFacts DEF IInv
<1>3. /\ DOMAIN clients' = DOMAIN clients
      /\ \A fd \in DOMAIN clients :
            LET c == clients[fd]
                d == clients'[fd]
            IN  /\ d.lo = c.lo /\ d.hi = c.hi /\ d.out = c.out
                /\ d.written = c.written /\ d.keep = c.keep /\ d.pending = c.pending
    <2>1. \A c \in Client : \A a :
             LET d == [c EXCEPT !.age = a]
             IN  /\ d.lo = c.lo /\ d.hi = c.hi /\ d.out = c.out
                 /\ d.written = c.written /\ d.keep = c.keep /\ d.pending = c.pending
        BY DEF Client
    <2>2. clients' = [fd \in DOMAIN clients |->
                        [clients[fd] EXCEPT !.age = LesserOf(clients[fd].age + 1, IdleTimeout)]]
        BY DEF Tick
    <2>3. \A fd \in DOMAIN clients :
             clients'[fd] = [clients[fd] EXCEPT !.age = LesserOf(clients[fd].age + 1, IdleTimeout)]
        BY <2>2
    <2>4. DOMAIN clients' = DOMAIN clients
        BY <2>2
    <2>5. ASSUME NEW fd \in DOMAIN clients
          PROVE  LET c == clients[fd]
                     d == clients'[fd]
                 IN  /\ d.lo = c.lo /\ d.hi = c.hi /\ d.out = c.out
                     /\ d.written = c.written /\ d.keep = c.keep /\ d.pending = c.pending
        <3> DEFINE a == LesserOf(clients[fd].age + 1, IdleTimeout)
        <3>1. clients'[fd] = [clients[fd] EXCEPT !.age = a] /\ clients[fd] \in Client
            BY <1>2, <2>3
        <3> HIDE DEF a
        <3> QED
            BY <2>1, <3>1
    <2> QED
        BY <2>4, <2>5
<1>4. ClientsServed'
    BY <1>1, <1>3 DEF HInv, ClientsServed, ServedOK, AnswerOK
<1>5. NewUntouched' /\ InOrder' /\ ReadsWanted'
    BY <1>1, <1>3 DEF HInv, NewUntouched, InOrder, ReadsWanted, Orderly
<1> QED
    BY <1>2, <1>3, <1>4, <1>5 DEF HInv, Client

-----------------------------------------------------------------------------
(***************************************************************************)
(* Every step.                                                             *)
(***************************************************************************)

(* An answer that some step may not disturb: AnswerUndisturbed, but for    *)
(* connections that epoll reports a hangup of.                             *)
UndisturbedStep ==
    \A fd \in DOMAIN clients \cap DOMAIN clients' : UndisturbedAt(fd)

(* A client that a step leaves alone, or that is writing no answer, is not *)
(* disturbed.                                                              *)
LEMMA SameClientUndisturbed ==
    ASSUME IInv, NEW fd \in DOMAIN clients,
           clients'[fd] = clients[fd] \/ clients[fd].out = "none"
    PROVE  UndisturbedAt(fd)
<1>1. clients[fd].written \in Nat
    BY TablesFacts DEF IInv, Client
<1> QED
    BY <1>1 DEF UndisturbedAt

(* Both handlers of a client's events keep the histories and leave the     *)
(* answer in progress alone.                                               *)
LEMMA HandlersServed ==
    ASSUME IInv, HInv, NEW e \in events, HandleRead(e) \/ HandleWrite(e)
    PROVE  HInv' /\ UndisturbedStep
<1>1. /\ ClientStep(e.fd) /\ OthersKept(e.fd) /\ IInv' /\ Consume(e) /\ e.fd \in DOMAIN clients
      /\ e.fd \in DOMAIN clients' => UndisturbedAt(e.fd)
    BY HandleReadServed, HandleWriteServed, HandleReadOK, HandleWriteOK
    DEF HandleRead, HandleWrite
<1>2. HInv'
    BY <1>1, ClientStepServed
<1>3. \A g \in DOMAIN clients \ {e.fd} : UndisturbedAt(g)
    BY <1>1, SameClientUndisturbed DEF OthersKept
<1> QED
    BY <1>1, <1>2, <1>3 DEF UndisturbedStep

(* So does every step of the system.                                       *)
LEMMA NextServed ==
    ASSUME IInv, HInv, [Next]_vars
    PROVE  HInv' /\ UndisturbedStep
<1>1. CASE Poll
    BY <1>1, PollServed, SameClientUndisturbed DEF Poll, UndisturbedStep
<1>2. ASSUME NEW e \in events, AcceptAll(e) PROVE HInv' /\ UndisturbedStep
    <2>1. e.fd \notin DOMAIN clients /\ OthersKept(e.fd)
        BY <1>2, Accepted, AcceptAllOK
    <2> QED
        BY <1>2, <2>1, AcceptAllServed, SameClientUndisturbed DEF OthersKept, UndisturbedStep
<1>3. ASSUME NEW e \in events, HandleRead(e) \/ HandleWrite(e)
      PROVE  HInv' /\ UndisturbedStep
    BY <1>3, HandlersServed
<1>4. CASE SweepTimeouts
    BY <1>4, SweepServed, SameClientUndisturbed DEF UndisturbedStep
<1>5. ASSUME NEW p \in Peers, Connect(p) \/ Send(p) \/ HalfClose(p) \/ Reset(p) \/ Receive(p)
      PROVE  HInv' /\ UndisturbedStep
    <2>1. UNCHANGED clients
        BY <1>5 DEF Connect, Send, HalfClose, Reset, Receive, server
    <2> QED
        BY <1>5, <2>1, PeersServed, SameClientUndisturbed DEF UndisturbedStep
<1>6. CASE Tick
    BY <1>6, TickServed DEF UndisturbedStep, UndisturbedAt
<1>7. CASE UNCHANGED vars
    <2>1. HInv'
        BY <1>7 DEF vars, HInv, ClientsServed, NewUntouched, InOrder, ReadsWanted, Orderly
    <2> QED
        BY <1>7, <2>1, SameClientUndisturbed DEF vars, UndisturbedStep
<1> QED
    BY <1>1, <1>2, <1>3, <1>4, <1>5, <1>6, <1>7 DEF Next, ServerStep, Environment

(* The histories agree when the server starts.                             *)
LEMMA InitServed == Init => HInv
<1> SUFFICES ASSUME Init PROVE HInv
    OBVIOUS
<1>1. DOMAIN clients = {} /\ events = {}
    BY DEF Init
<1>2. \A p \in Peers : handled[p] = <<>> /\ replies[p] = <<>>
    BY DEF Init
<1>3. Ascending(<<>>)
    BY DEF Ascending
<1> QED
    BY <1>1, <1>2, <1>3 DEF HInv, ClientsServed, NewUntouched, InOrder, ReadsWanted

(* The histories of a connection agree with the state of its client.       *)
THEOREM HistoriesAgree == Spec => [](IInv /\ HInv)
<1>1. Init => IInv /\ HInv
    BY InitOK, InitServed
<1>2. IInv /\ HInv /\ [Next]_vars => (IInv /\ HInv)'
    BY NextOK, NextServed
<1> QED
    BY <1>1, <1>2, PTL DEF Spec

(* Pipelined requests are taken one after the other: the buffer always     *)
(* begins where the last answered request ended.                           *)
THEOREM NothingEverSkipped == Spec => []NothingSkipped
<1>1. HInv => NothingSkipped
    BY DEF HInv, ClientsServed, ServedOK, EndOf, NothingSkipped, AnsweredUpTo
<1> QED
    BY <1>1, HistoriesAgree, PTL

(* No side effect happens twice on a connection that was not reset.        *)
THEOREM HandledAtMostOnce == Spec => []HandledOnce
<1>1. HInv => HandledOnce
    BY DEF HInv, InOrder, Orderly, HandledOnce
<1> QED
    BY <1>1, HistoriesAgree, PTL

(* On kqueue, not even on one that was.                                    *)
THEOREM HandledAtMostOnceOnKqueue ==
    ASSUME Backend = "kqueue"
    PROVE  Spec => []HandledOnceAlways
<1>1. HInv => HandledOnceAlways
    BY DEF HInv, InOrder, Orderly, HandledOnceAlways
<1> QED
    BY <1>1, HistoriesAgree, PTL

(* Whatever the backend, an answer is disturbed only after a reset, when   *)
(* its peer cannot read it any more.                                       *)
THEOREM UndisturbedUnlessReset == Spec => [][UndisturbedStep]_vars
<1>1. IInv /\ HInv /\ [Next]_vars => [UndisturbedStep]_vars
    BY NextServed
<1> QED
    BY <1>1, HistoriesAgree, PTL DEF Spec

(* On kqueue no answer is disturbed at all.                                *)
THEOREM AnswersUndisturbedOnKqueue ==
    ASSUME Backend = "kqueue"
    PROVE  Spec => AnswerUndisturbed
<1> DEFINE Step == \A fd \in DOMAIN clients \cap DOMAIN clients' :
                      LET c == clients[fd]
                          d == clients'[fd]
                      IN  c.out # "none" /\ d.lo = c.lo => /\ d.out = c.out
                                                           /\ d.written >= c.written
                                                           /\ d.pending = c.pending
<1>1. UndisturbedStep => Step
    BY DEF UndisturbedStep, UndisturbedAt, Orderly
<1>2. [UndisturbedStep]_vars => [Step]_vars
    BY <1>1
<1>3. Spec => [][Step]_vars
    <2> HIDE DEF Step
    <2> QED
        BY <1>2, UndisturbedUnlessReset, PTL
<1> QED
    BY <1>3 DEF AnswerUndisturbed

-----------------------------------------------------------------------------
(***************************************************************************)
(* The refinement.  A connection is "open" while its socket is; an answer  *)
(* is given in the step that writes its last byte; every step that neither *)
(* sends, answers, accepts nor closes is invisible to the service.         *)
(***************************************************************************)

ServiceStep == Service!SNext \/ UNCHANGED Service!svars

(* A step that gives no answer and takes no byte but opens and closes      *)
(* connections as accept_all, remove_client and sweep_timeouts do.         *)
LEMMA TurnoverStep ==
    ASSUME IInv, IInv', UNCHANGED replies,
           \A p \in Peers :
              /\ sock'[p].sent = sock[p].sent
              /\ \/ sock'[p].st = sock[p].st
                 \/ sock[p].st \in {"new", "backlog"} /\ sock'[p].st \in {"new", "backlog"}
                 \/ sock[p].st = "backlog" /\ sock'[p].st = "open"
                 \/ sock'[p].st \in {"closed", "aborted"}
    PROVE  ServiceStep
<1>1. \A p \in Peers : sock[p] \in Socket /\ sock'[p] \in Socket
    BY DEF IInv, TypeOK
<1>2. \A p \in Peers : /\ Status(p)' \in {"new", "open", "done"}
                       /\ \/ Status(p)' \in {Status(p), "done"}
                          \/ Status(p) = "new" /\ Status(p)' = "open"
    BY <1>1 DEF Status, Socket
<1>3. [p \in Peers |-> Status(p)]' \in [Peers -> {"new", "open", "done"}]
    BY <1>2
<1>4. UNCHANGED [p \in Peers |-> sock[p].sent]
    OBVIOUS
<1>5. Service!Turnover
    BY <1>2, <1>3, <1>4 DEF Service!Turnover
<1> QED
    BY <1>5 DEF ServiceStep, Service!SNext

(* handle_read gives no answer: at most it ends the connection.            *)
LEMMA ReadService ==
    ASSUME IInv, HInv, NEW e \in events, HandleRead(e)
    PROVE  ServiceStep
<1>1. IInv' /\ ClientStep(e.fd) /\ UNCHANGED replies /\ e.fd \in DOMAIN clients
    BY HandleReadOK, HandleReadServed DEF HandleRead
<1>2. sock[fdTable[e.fd]].st = "open"
    BY <1>1, TablesFacts DEF IInv
<1> QED
    BY <1>1, <1>2, TurnoverStep DEF ClientStep

(* The last byte of an answer is the service's Answer or Refuse.           *)
LEMMA WriteService ==
    ASSUME IInv, HInv, NEW e \in events, HandleWrite(e)
    PROVE  ServiceStep
<1> DEFINE fd == e.fd
           p == fdTable[fd]
           c == clients[fd]
           r == RequestAt(p, c.lo)
           st == [q \in Peers |-> Status(q)]
           snt == [q \in Peers |-> sock[q].sent]
<1>1. /\ IInv' /\ ClientStep(fd) /\ fd \in DOMAIN clients
      /\ UNCHANGED replies \/ AnswerStep(fd)
    BY HandleWriteOK, HandleWriteServed DEF HandleWrite
<1>2. p \in Peers /\ sock[p].st = "open" /\ c \in Client
    BY <1>1, TablesFacts DEF IInv
<1>3. CASE UNCHANGED replies
    BY <1>1, <1>2, <1>3, TurnoverStep DEF ClientStep
<1>4. CASE AnswerStep(fd)
    <2>1. /\ st[p] = "open" /\ snt[p] = sock[p].sent
          /\ UNCHANGED snt
        <3>1. \A q \in Peers : sock'[q].sent = sock[q].sent
            BY <1>1 DEF ClientStep
        <3> QED
            BY <1>2, <3>1 DEF Status
    <2>2. \A q \in Peers : q # p => Status(q)' = Status(q)
        BY <1>1 DEF ClientStep, Status
    <2>3. /\ fd \in DOMAIN clients' => sock'[p].st = "open"
          /\ fd \notin DOMAIN clients' => sock'[p].st \in {"closed", "aborted"}
        BY <1>1 DEF ClientStep
    <2>4. fd \in DOMAIN clients' => UNCHANGED st
        <3>1. \A q \in Peers : q = p /\ fd \in DOMAIN clients' => Status(q)' = Status(q)
            BY <1>2, <2>3 DEF Status
        <3> QED
            BY <2>2, <3>1
    <2>5. fd \notin DOMAIN clients' => st' = [st EXCEPT ![p] = "done"]
        <3>1. \A q \in Peers : q = p /\ fd \notin DOMAIN clients' => Status(q)' = "done"
            BY <2>3 DEF Status
        <3> QED
            BY <1>2, <2>2, <3>1
    <2>6. Service!NextPos(p) = c.lo
        BY <1>4 DEF AnswerStep, EndOf, Service!NextPos, Service!RequestAt, RequestAt
    <2>7. CASE c.out = "ok"
        <3>1. /\ r \in Script[p] /\ r.at = Service!NextPos(p) /\ r.verdict \in {"keep", "close"}
              /\ snt[p] >= r.at + r.len
              /\ replies' = [replies EXCEPT ![p] = Append(@, [at |-> r.at, kind |-> "ok"])]
              /\ fd \in DOMAIN clients' => r.verdict = "keep"
            BY <1>4, <2>1, <2>6, <2>7 DEF AnswerStep
        <3>2. Service!Answer(p)
            BY <2>1, <2>4, <2>5, <3>1 DEF Service!Answer
        <3> QED
            BY <1>2, <3>2 DEF ServiceStep, Service!SNext
    <2>8. CASE c.out = "error"
        <3>1. /\ snt[p] > Service!NextPos(p) /\ fd \notin DOMAIN clients'
              /\ replies' = [replies EXCEPT ![p] =
                                Append(@, [at |-> Service!NextPos(p), kind |-> "error"])]
            BY <1>4, <2>1, <2>6, <2>8 DEF AnswerStep
        <3>2. Service!Refuse(p)
            BY <2>1, <2>5, <3>1 DEF Service!Refuse
        <3> QED
            BY <1>2, <3>2 DEF ServiceStep, Service!SNext
    <2> QED
        BY <1>2, <1>4, <2>7, <2>8 DEF AnswerStep, Client
<1> QED
    BY <1>1, <1>3, <1>4

(* A peer's step is one of the peer's, or of the connection's beginning or *)
(* end, in the service.                                                    *)
LEMMA PeersService ==
    ASSUME IInv, NEW p \in Peers,
           Connect(p) \/ Send(p) \/ HalfClose(p) \/ Reset(p) \/ Receive(p)
    PROVE  ServiceStep
<1>1. IInv' /\ sock \in [Peers -> Socket] /\ sock[p] \in Socket
    BY PeersOK DEF IInv, TypeOK
<1>2. UNCHANGED replies
    BY DEF Connect, Send, HalfClose, Reset, Receive, server
<1>3. CASE Send(p)
    <2>1. /\ sock[p].sent < StreamLen[p]
          /\ sock' = [sock EXCEPT ![p].sent = sock[p].sent + 1]
        BY <1>3 DEF Send
    <2>2. /\ \A q \in Peers : sock'[q].st = sock[q].st
          /\ sock'[p].sent = sock[p].sent + 1
          /\ \A q \in Peers : q # p => sock'[q].sent = sock[q].sent
        BY <1>1, <2>1 DEF Socket
    <2>3. UNCHANGED [q \in Peers |-> Status(q)]
        BY <2>2 DEF Status
    <2>4. Service!Transmit(p)
        BY <1>2, <2>1, <2>2, <2>3 DEF Service!Transmit
    <2> QED
        BY <2>4 DEF ServiceStep, Service!SNext
<1>4. CASE Connect(p) \/ HalfClose(p) \/ Reset(p) \/ Receive(p)
    <2>1. \A q \in Peers :
             /\ sock'[q].sent = sock[q].sent
             /\ \/ sock'[q].st = sock[q].st
                \/ sock[q].st \in {"new", "backlog"} /\ sock'[q].st \in {"new", "backlog"}
        BY <1>1, <1>4 DEF Connect, HalfClose, Reset, Receive, Socket
    <2> QED
        BY <1>1, <1>2, <2>1, TurnoverStep
<1> QED
    BY <1>3, <1>4

(* Every step is a step of the service or a stutter.                       *)
LEMMA NextService ==
    ASSUME IInv, HInv, [Next]_vars
    PROVE  ServiceStep
<1>1. IInv'
    BY NextOK
<1>2. CASE Poll \/ Tick \/ UNCHANGED vars
    <2>1. UNCHANGED <<sock, replies>>
        BY <1>2 DEF Poll, Tick, vars
    <2> QED
        BY <1>1, <2>1, TurnoverStep
<1>3. ASSUME NEW e \in events, AcceptAll(e) PROVE ServiceStep
    <2>1. /\ UNCHANGED replies
          /\ \A p \in Peers :
                /\ sock'[p].sent = sock[p].sent
                /\ \/ sock'[p].st = sock[p].st
                   \/ sock[p].st = "backlog" /\ sock'[p].st \in {"open", "closed", "aborted"}
        BY <1>3, Accepted
    <2> QED
        BY <1>1, <2>1, TurnoverStep
<1>4. ASSUME NEW e \in events, HandleRead(e) \/ HandleWrite(e) PROVE ServiceStep
    BY <1>4, ReadService, WriteService
<1>5. CASE SweepTimeouts
    BY <1>1, <1>5, SweepServed, TurnoverStep
<1>6. ASSUME NEW p \in Peers, Connect(p) \/ Send(p) \/ HalfClose(p) \/ Reset(p) \/ Receive(p)
      PROVE  ServiceStep
    BY <1>6, PeersService
<1> QED
    BY <1>2, <1>3, <1>4, <1>5, <1>6 DEF Next, ServerStep, Environment

(* The initial states are initial states of the service.                   *)
LEMMA InitService == Init => Service!SInit
BY DEF Init, Service!SInit, Status

(* Each connection is served as PipelinedService promises: its requests    *)
(* answered one at a time, in stream order, none before it was sent, none  *)
(* after an error answer or a close.                                       *)
THEOREM ServiceImplemented == Spec => ImplementsService
<1>1. IInv /\ HInv /\ [Next]_vars => [Service!SNext]_Service!svars
    BY NextService DEF ServiceStep
<1> QED
    BY <1>1, InitService, HistoriesAgree, PTL DEF Spec, ImplementsService, Service!SSpec
=============================================================================
