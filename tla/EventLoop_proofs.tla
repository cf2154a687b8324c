-------------------------- MODULE EventLoop_proofs --------------------------
(***************************************************************************)
(* The safety invariants of EventLoop hold for every value of its          *)
(* constants: any number of connections, descriptors and listeners, any    *)
(* request streams, buffer sizes and timeouts, both backends, and with or  *)
(* without failing system calls.                                           *)
(*                                                                         *)
(* None of them is inductive alone: that a pending event still has work to *)
(* do rests on what the client waits for, which rests on what its buffer   *)
(* holds, which rests on the descriptor tables.  IInv is their joint       *)
(* strengthening, and the lemmas below say what RemoveClients, Arm,        *)
(* QueueResponse and TryDispatch, which the handlers share, do to it.      *)
(***************************************************************************)
EXTENDS EventLoop, TLAPS

(* A socket's counters; one that is not accepted yet was not read from.    *)
SocketOK(p, s) ==
    /\ s.read <= s.sent
    /\ s.sent <= StreamLen[p]
    /\ s.st \in {"new", "backlog"} => s.read = 0

(* inbuf against the stream: the parts of BuffersMatchStream.              *)
BufferOK(p, c, s) ==
    /\ c.hi = s.read
    /\ c.lo <= c.hi
    /\ c.lo = StreamLen[p] \/ StartsAt(p, c.lo)
    /\ c.out = "ok" => /\ StartsAt(p, c.lo)
                       /\ c.pending = RequestAt(p, c.lo).len
                       /\ c.lo + c.pending <= c.hi
    /\ c.keep => c.out = "ok"

(* What the poller waits for, given the client's answer.                   *)
InterestOK(c, i) == i = "write" <=> c.out # "none" /\ c.written < ResponseLen

ClientOK(p, c, i, s) ==
    /\ BufferOK(p, c, s)
    /\ InterestOK(c, i)
    /\ c.out = "none" => Verdict(p, c) = "need_more"

(* The events of a batch name distinct descriptors, and each leads to a    *)
(* system call that finds something to do.                                 *)
EventOK(e) ==
    \/ e.fd \in Addrs
    \/ /\ e.fd \in DOMAIN clients
       /\ fdTable[e.fd] = e.conn
       /\ e.readable => \/ sock[e.conn].sent > sock[e.conn].read
                        \/ sock[e.conn].peer # "alive"
       /\ ~e.readable => /\ e.writable
                         /\ interest[e.fd] = "write"
                         /\ sock[e.conn].sndq < SendBuf \/ sock[e.conn].peer = "reset"

EventsOK ==
    /\ \A e, f \in events : e.fd = f.fd => e = f
    /\ \A e \in events : EventOK(e)

(* The tables the handlers change together: the part of TypeOK about them. *)
TablesTyped ==
    /\ DOMAIN clients \subseteq Fds /\ clients \in [DOMAIN clients -> Client]
    /\ DOMAIN interest \subseteq Fds /\ interest \in [DOMAIN interest -> {"read", "write"}]
    /\ DOMAIN fdTable \subseteq Fds /\ fdTable \in [DOMAIN fdTable -> Peers]
    /\ sock \in [Peers -> Socket]

TablesOK ==
    /\ TablesTyped
    /\ DescriptorsAgree
    /\ \A p \in Peers : SocketOK(p, sock[p])
    /\ \A fd \in DOMAIN clients :
          ClientOK(fdTable[fd], clients[fd], interest[fd], sock[fdTable[fd]])

(* The inductive invariant.                                                *)
IInv == TypeOK /\ TablesOK /\ EventsOK
-----------------------------------------------------------------------------
(***************************************************************************)
(* The data: requests, and the steps of a client's state.                  *)
(***************************************************************************)

(* The lesser of two numbers is one of them at most as large as either.    *)
LEMMA LesserOfNat ==
    ASSUME NEW a \in Nat, NEW b \in Nat
    PROVE  LesserOf(a, b) \in Nat /\ LesserOf(a, b) <= a /\ LesserOf(a, b) <= b
BY DEF LesserOf

(* Where a request starts, RequestAt is it, and where it ends the stream   *)
(* ends or the next one starts.                                            *)
LEMMA RequestAtStart ==
    ASSUME NEW p \in Peers, NEW pos, StartsAt(p, pos)
    PROVE  LET r == RequestAt(p, pos)
           IN  /\ r \in Script[p] /\ r \in Request /\ r.at = pos
               /\ r.need <= r.len
               /\ r.verdict # "reject" => r.need = r.len
               /\ pos + r.len = StreamLen[p] \/ StartsAt(p, pos + r.len)
<1> DEFINE r == RequestAt(p, pos)
<1>1. r \in Script[p] /\ r.at = pos
    BY DEF StartsAt, RequestAt
<1>2. r \in Request
    BY <1>1, ScriptAssumption
<1>3. /\ r.need <= r.len
      /\ r.verdict # "reject" => r.need = r.len
      /\ r.at + r.len = StreamLen[p] \/ \E s \in Script[p] : s.at = r.at + r.len
    BY <1>1, ScriptAssumption
<1> QED
    BY <1>1, <1>2, <1>3 DEF StartsAt

(* try_dispatch decides one of four ways.                                  *)
LEMMA VerdictRange ==
    ASSUME NEW p \in Peers, NEW c \in Client
    PROVE  Verdict(p, c) \in {"need_more", "reject", "keep", "close"}
<1>1. CASE c.hi = c.lo \/ ~StartsAt(p, c.lo)
    BY <1>1 DEF Verdict
<1>2. CASE ~(c.hi = c.lo \/ ~StartsAt(p, c.lo))
    <2>1. RequestAt(p, c.lo).verdict \in {"keep", "close", "reject"}
        BY <1>2, RequestAtStart DEF Request
    <2> QED
        BY <1>2, <2>1 DEF Verdict
<1> QED
    BY <1>1, <1>2

(* A client that is accepted starts in order, whatever the peer has sent.  *)
LEMMA FreshClientOK ==
    ASSUME NEW p \in Peers, NEW s \in Socket, SocketOK(p, s), s.read = 0, NEW a \in Addrs
    PROVE  /\ FreshClient(a) \in Client /\ FreshClient(a).addr = a
           /\ ClientOK(p, FreshClient(a), "read", s)
<1>1. FreshClient(a) \in Client
    BY ConstAssumption DEF FreshClient, Client
<1>2. 0 = StreamLen[p] \/ StartsAt(p, 0)
    BY ScriptAssumption, ConstAssumption DEF StartsAt
<1>3. Verdict(p, FreshClient(a)) = "need_more"
    BY DEF Verdict, FreshClient
<1> QED
    BY <1>1, <1>2, <1>3 DEF ClientOK, BufferOK, InterestOK, FreshClient, Socket

(* An error answer leaves the buffer alone and waits to be written.        *)
LEMMA WithErrorOK ==
    ASSUME NEW p \in Peers, NEW c \in Client, NEW s \in Socket, BufferOK(p, c, s)
    PROVE  /\ WithError(c) \in Client /\ WithError(c).addr = c.addr
           /\ ClientOK(p, WithError(c), "write", s)
<1>1. WithError(c) \in Client /\ WithError(c).addr = c.addr
    BY DEF WithError, Client
<1>2. /\ WithError(c).hi = c.hi /\ WithError(c).lo = c.lo /\ WithError(c).out = "error"
      /\ WithError(c).written = 0 /\ WithError(c).keep = FALSE
    BY DEF WithError, Client
<1> QED
    BY <1>1, <1>2, ConstAssumption DEF ClientOK, BufferOK, InterestOK

(* An answer of http::handle names a request that is wholly buffered.      *)
LEMMA WithResponseOK ==
    ASSUME NEW p \in Peers, NEW c \in Client, NEW s \in Socket, BufferOK(p, c, s),
           Verdict(p, c) \in {"keep", "close"}
    PROVE  /\ WithResponse(p, c) \in Client /\ WithResponse(p, c).addr = c.addr
           /\ ClientOK(p, WithResponse(p, c), "write", s)
<1> DEFINE r == RequestAt(p, c.lo)
           d == WithResponse(p, c)
<1>1. StartsAt(p, c.lo) /\ c.hi - c.lo >= r.need /\ r.verdict \in {"keep", "close"}
    <2>1. c.hi # c.lo /\ StartsAt(p, c.lo)
        BY DEF Verdict
    <2>2. ~(c.hi - c.lo < r.need)
        BY <2>1 DEF Verdict
    <2>3. r \in Request
        BY <2>1, RequestAtStart
    <2> QED
        BY <2>1, <2>2, <2>3 DEF Verdict, Request, Client
<1>2. r \in Request /\ r.need = r.len
    BY <1>1, RequestAtStart
<1>3. d \in Client /\ d.addr = c.addr
    BY <1>2 DEF WithResponse, Client, Request
<1>4. d.hi = c.hi /\ d.lo = c.lo /\ d.out = "ok" /\ d.written = 0 /\ d.pending = r.len
    BY DEF WithResponse, Client
<1>5. c.lo + r.len <= c.hi
    BY <1>1, <1>2 DEF Request, Client
<1> QED
    BY <1>1, <1>3, <1>4, <1>5, ConstAssumption DEF ClientOK, BufferOK, InterestOK

(* Draining the answered request leaves the buffer at the next boundary.   *)
LEMMA DrainedOK ==
    ASSUME NEW p \in Peers, NEW c \in Client, NEW s \in Socket, BufferOK(p, c, s), c.keep
    PROVE  /\ Drained(c) \in Client /\ Drained(c).addr = c.addr
           /\ BufferOK(p, Drained(c), s) /\ InterestOK(Drained(c), "read")
<1> DEFINE r == RequestAt(p, c.lo)
<1>1. c.out = "ok" /\ StartsAt(p, c.lo) /\ c.pending = r.len /\ c.lo + r.len <= c.hi
    BY DEF BufferOK
<1>2. r \in Request /\ (c.lo + r.len = StreamLen[p] \/ StartsAt(p, c.lo + r.len))
    BY <1>1, RequestAtStart
<1>3. c.pending <= c.hi - c.lo
    BY <1>1, <1>2 DEF Request, Client
<1>4. /\ Drained(c) \in Client /\ Drained(c).addr = c.addr
      /\ Drained(c).lo = c.lo + r.len /\ Drained(c).hi = c.hi
      /\ Drained(c).out = "none" /\ Drained(c).keep = FALSE
    <2>1. Drained(c) = [c EXCEPT !.lo = c.lo + r.len, !.out = "none", !.written = 0,
                                 !.keep = FALSE, !.pending = 0]
        BY <1>1, <1>3 DEF Drained
    <2>2. c.lo + r.len \in Nat
        BY <1>2 DEF Client, Request
    <2> QED
        <3>1. \A x \in Nat :
                 LET d == [c EXCEPT !.lo = x, !.out = "none", !.written = 0,
                                    !.keep = FALSE, !.pending = 0]
                 IN  /\ d \in Client /\ d.addr = c.addr /\ d.lo = x /\ d.hi = c.hi
                     /\ d.out = "none" /\ d.keep = FALSE
            BY DEF Client
        <3> HIDE DEF r
        <3> QED
            BY <2>1, <2>2, <3>1
<1> QED
    BY <1>1, <1>2, <1>4 DEF BufferOK, InterestOK

(* The client's record after a read or a write of n bytes.                 *)
LEMMA ReadClient ==
    ASSUME NEW c \in Client, NEW n \in Nat
    PROVE  LET d == [c EXCEPT !.hi = @ + n, !.age = 0]
           IN  /\ d \in Client /\ d.hi = c.hi + n /\ d.addr = c.addr /\ d.lo = c.lo
               /\ d.out = c.out /\ d.keep = c.keep /\ d.pending = c.pending
               /\ d.written = c.written
<1>1. 0 \in 0 .. IdleTimeout /\ c.hi + n \in Nat
    BY ConstAssumption DEF Client
<1>2. \A x \in Nat, t \in 0 .. IdleTimeout :
         LET d == [c EXCEPT !.hi = x, !.age = t]
         IN  /\ d \in Client /\ d.hi = x /\ d.addr = c.addr /\ d.lo = c.lo
             /\ d.out = c.out /\ d.keep = c.keep /\ d.pending = c.pending
             /\ d.written = c.written
    BY DEF Client
<1> QED
    BY <1>1, <1>2

(* A write that the socket takes n bytes of changes the count of written   *)
(* bytes and the age of the client, and nothing else.                      *)
LEMMA WrittenClient ==
    ASSUME NEW c \in Client, NEW n \in Nat
    PROVE  LET d == [c EXCEPT !.written = @ + n, !.age = 0]
           IN  /\ d \in Client /\ d.hi = c.hi /\ d.addr = c.addr /\ d.lo = c.lo
               /\ d.out = c.out /\ d.keep = c.keep /\ d.pending = c.pending
               /\ d.written = c.written + n
<1>1. 0 \in 0 .. IdleTimeout /\ c.written + n \in Nat
    BY ConstAssumption DEF Client
<1>2. \A x \in Nat, t \in 0 .. IdleTimeout :
         LET d == [c EXCEPT !.written = x, !.age = t]
         IN  /\ d \in Client /\ d.hi = c.hi /\ d.addr = c.addr /\ d.lo = c.lo
             /\ d.out = c.out /\ d.keep = c.keep /\ d.pending = c.pending
             /\ d.written = x
    BY DEF Client
<1> QED
    BY <1>1, <1>2

-----------------------------------------------------------------------------
(***************************************************************************)
(* The tables: what the handlers' common parts do to them.                 *)
(***************************************************************************)

(* A handler's view of the sockets: it may have read, written or queued    *)
(* bytes, but opened and closed none.                                      *)
SocketsOK(socks) ==
    /\ socks \in [Peers -> Socket]
    /\ \A p \in Peers : SocketOK(p, socks[p]) /\ socks[p].st = sock[p].st

(* A socket that the server closes keeps its counters in order.            *)
LEMMA ClosedOK ==
    ASSUME NEW p, NEW s \in Socket, SocketOK(p, s)
    PROVE  /\ Closed(s) \in Socket /\ SocketOK(p, Closed(s))
           /\ Closed(s).st \in {"closed", "aborted"}
<1> DEFINE end == IF s.sent > s.read THEN "aborted" ELSE "closed"
<1>1. Closed(s) = [s EXCEPT !.st = end]
    BY DEF Closed
<1>2. end \in {"closed", "aborted"}
    OBVIOUS
<1> HIDE DEF end
<1> QED
    BY <1>1, <1>2 DEF Socket, SocketOK

(* The clients outside `left` are gone and those in it are in order.       *)
LEMMA TablesShrink ==
    ASSUME TablesOK,
           NEW left, left \subseteq DOMAIN clients,
           NEW socks, SocketsOK(socks),
           DOMAIN clients' = left, clients' \in [left -> Client],
           DOMAIN interest' = left, interest' \in [left -> {"read", "write"}],
           fdTable' = Restrict(fdTable, left),
           sock' = [p \in Peers |-> IF \E fd \in DOMAIN clients \ left : fdTable[fd] = p
                                    THEN Closed(socks[p]) ELSE socks[p]],
           \A fd \in left :
              /\ clients'[fd].addr = clients[fd].addr
              /\ ClientOK(fdTable[fd], clients'[fd], interest'[fd], socks[fdTable[fd]])
    PROVE  /\ TablesOK'
           /\ \A fd \in left : fdTable'[fd] = fdTable[fd]
           /\ \A fd \in left : sock'[fdTable[fd]] = socks[fdTable[fd]]
<1>1. /\ DOMAIN clients = DOMAIN fdTable /\ DOMAIN clients \subseteq Fds
      /\ fdTable \in [DOMAIN fdTable -> Peers]
      /\ \A f, g \in DOMAIN fdTable : fdTable[f] = fdTable[g] => f = g
      /\ \A p \in Peers : sock[p].st = "open" <=> \E fd \in DOMAIN fdTable : fdTable[fd] = p
      /\ \A fd \in DOMAIN clients : clients[fd].addr = Dest[fdTable[fd]]
    BY DEF TablesOK, TablesTyped, DescriptorsAgree
<1>2. /\ DOMAIN fdTable' = left /\ fdTable' \in [left -> Peers]
      /\ \A fd \in left : fdTable'[fd] = fdTable[fd] /\ fdTable[fd] \in Peers
    BY <1>1 DEF Restrict
<1>3. \A fd \in left : sock'[fdTable[fd]] = socks[fdTable[fd]]
    BY <1>1, <1>2
<1>4. \A p \in Peers :
         /\ Closed(socks[p]) \in Socket /\ SocketOK(p, Closed(socks[p]))
         /\ Closed(socks[p]).st \in {"closed", "aborted"}
    BY ClosedOK DEF SocketsOK
<1>5. sock' \in [Peers -> Socket] /\ \A p \in Peers : SocketOK(p, sock'[p])
    BY <1>4 DEF SocketsOK
<1>6. \A p \in Peers : sock'[p].st = "open" <=> \E fd \in left : fdTable[fd] = p
    <2> SUFFICES ASSUME NEW p \in Peers
                 PROVE  sock'[p].st = "open" <=> \E fd \in left : fdTable[fd] = p
        OBVIOUS
    <2>1. CASE \E fd \in DOMAIN clients \ left : fdTable[fd] = p
        <3>1. sock'[p].st # "open"
            BY <2>1, <1>4
        <3> QED
            BY <2>1, <3>1, <1>1
    <2>2. CASE ~ \E fd \in DOMAIN clients \ left : fdTable[fd] = p
        <3>1. sock'[p].st = sock[p].st
            BY <2>2 DEF SocketsOK
        <3> QED
            BY <2>2, <3>1, <1>1
    <2> QED
        BY <2>1, <2>2
<1>7. DescriptorsAgree'
    BY <1>1, <1>2, <1>6 DEF DescriptorsAgree
<1>8. TablesTyped'
    BY <1>1, <1>2, <1>5 DEF TablesTyped
<1>9. \A fd \in left :
         ClientOK(fdTable'[fd], clients'[fd], interest'[fd], sock'[fdTable'[fd]])
    BY <1>2, <1>3
<1>10. TablesOK'
    BY <1>2, <1>5, <1>7, <1>8, <1>9 DEF TablesOK
<1> QED
    BY <1>2, <1>3, <1>10

(* A handler of one descriptor leaves the other clients' tables alone.     *)
OthersKept(fd) ==
    \A g \in DOMAIN clients \ {fd} :
        /\ g \in DOMAIN clients' /\ clients'[g] = clients[g]
        /\ fdTable'[g] = fdTable[g] /\ interest'[g] = interest[g]
        /\ sock'[fdTable[g]] = sock[fdTable[g]]

(* What the lemmas on one descriptor's handlers have in common.            *)
Handles(fd, socks) ==
    /\ TablesOK
    /\ fd \in DOMAIN clients
    /\ SocketsOK(socks)
    /\ \A p \in Peers : p # fdTable[fd] => socks[p] = sock[p]

(* What the tables say of a descriptor that has a client: it has a         *)
(* registration and an open connection, and no other descriptor has that   *)
(* connection.                                                             *)
LEMMA TablesFacts ==
    ASSUME TablesOK
    PROVE  /\ DOMAIN fdTable = DOMAIN clients /\ DOMAIN interest = DOMAIN clients
           /\ \A fd \in DOMAIN clients :
                 /\ fd \in Fds /\ fdTable[fd] \in Peers /\ interest[fd] \in {"read", "write"}
                 /\ clients[fd] \in Client
                 /\ sock[fdTable[fd]] \in Socket /\ SocketOK(fdTable[fd], sock[fdTable[fd]])
                 /\ ClientOK(fdTable[fd], clients[fd], interest[fd], sock[fdTable[fd]])
                 /\ sock[fdTable[fd]].st = "open"
           /\ \A f, g \in DOMAIN clients : fdTable[f] = fdTable[g] => f = g
BY DEF TablesOK, TablesTyped, DescriptorsAgree

(* remove_client, in the middle of a handler: client, registration and     *)
(* socket go together.                                                     *)
LEMMA RemoveClientsOK ==
    ASSUME NEW fd, NEW socks, Handles(fd, socks), RemoveClients({fd}, socks)
    PROVE  TablesOK' /\ OthersKept(fd)
<1> DEFINE left == DOMAIN clients \ {fd}
<1>1. TablesOK /\ SocketsOK(socks) /\ fd \in DOMAIN clients
    BY DEF Handles
<1>2. \A g \in left : g \in DOMAIN clients /\ socks[fdTable[g]] = sock[fdTable[g]]
    BY <1>1, TablesFacts DEF Handles
<1>3. /\ clients' = [g \in left |-> clients[g]]
      /\ interest' = [g \in left |-> interest[g]]
      /\ fdTable' = Restrict(fdTable, left)
    BY <1>1, TablesFacts DEF RemoveClients, Restrict
<1>4. sock' = [p \in Peers |-> IF \E g \in DOMAIN clients \ left : fdTable[g] = p
                               THEN Closed(socks[p]) ELSE socks[p]]
    BY <1>1, TablesFacts DEF RemoveClients
<1>5. /\ DOMAIN clients' = left /\ clients' \in [left -> Client]
      /\ DOMAIN interest' = left /\ interest' \in [left -> {"read", "write"}]
      /\ \A g \in left :
            /\ clients'[g].addr = clients[g].addr
            /\ ClientOK(fdTable[g], clients'[g], interest'[g], socks[fdTable[g]])
    BY <1>1, <1>2, <1>3, TablesFacts
<1>6. /\ TablesOK'
      /\ \A g \in left : fdTable'[g] = fdTable[g]
      /\ \A g \in left : sock'[fdTable[g]] = socks[fdTable[g]]
    <2> HIDE DEF left
    <2>1. left \subseteq DOMAIN clients
        BY DEF left
    <2> QED
        BY <1>1, <1>3, <1>4, <1>5, <2>1, TablesShrink
<1> QED
    BY <1>2, <1>3, <1>6 DEF OthersKept

(* A handler that stores a client and registers it for what that client    *)
(* waits for keeps the tables in order.                                    *)
LEMMA ArmOK ==
    ASSUME NEW fd, NEW socks, Handles(fd, socks),
           NEW c \in Client, c.addr = clients[fd].addr, NEW i \in {"read", "write"},
           ClientOK(fdTable[fd], c, i, socks[fdTable[fd]]),
           Arm(fd, c, i, socks)
    PROVE  TablesOK' /\ OthersKept(fd)
<1> DEFINE left == DOMAIN clients
<1>1. TablesOK /\ SocketsOK(socks) /\ fd \in DOMAIN clients
    BY DEF Handles
<1>2. \A g \in left : g # fd => socks[fdTable[g]] = sock[fdTable[g]]
    BY <1>1, TablesFacts DEF Handles
<1>3. /\ clients' = [clients EXCEPT ![fd] = c] /\ interest' = [interest EXCEPT ![fd] = i]
      /\ sock' = socks /\ fdTable' = fdTable
    BY DEF Arm
<1>4. clients \in [left -> Client] /\ interest \in [left -> {"read", "write"}]
    BY <1>1 DEF TablesOK, TablesTyped, DescriptorsAgree
<1>5. /\ DOMAIN clients' = left /\ clients' \in [left -> Client]
      /\ DOMAIN interest' = left /\ interest' \in [left -> {"read", "write"}]
    BY <1>3, <1>4
<1>6. fdTable' = Restrict(fdTable, left)
    BY <1>1, <1>3 DEF Restrict, TablesOK, TablesTyped, DescriptorsAgree
<1>7. sock' = [p \in Peers |-> IF \E g \in DOMAIN clients \ left : fdTable[g] = p
                               THEN Closed(socks[p]) ELSE socks[p]]
    BY <1>1, <1>3 DEF SocketsOK
<1>8. \A g \in left :
         /\ clients'[g].addr = clients[g].addr
         /\ ClientOK(fdTable[g], clients'[g], interest'[g], socks[fdTable[g]])
    <2> SUFFICES ASSUME NEW g \in left
                 PROVE  /\ clients'[g].addr = clients[g].addr
                        /\ ClientOK(fdTable[g], clients'[g], interest'[g], socks[fdTable[g]])
        OBVIOUS
    <2>1. CASE g = fd
        BY <2>1, <1>3, <1>4
    <2>2. CASE g # fd
        BY <2>2, <1>1, <1>2, <1>3, <1>4, TablesFacts
    <2> QED
        BY <2>1, <2>2
<1>9. TablesOK'
    <2> HIDE DEF left
    <2>1. left \subseteq DOMAIN clients
        BY DEF left
    <2> QED
        BY <1>1, <1>5, <1>6, <1>7, <1>8, <2>1, TablesShrink
<1> QED
    BY <1>2, <1>3, <1>4, <1>9 DEF OthersKept

(* queue_response: the client with its answer is registered for writing,   *)
(* or removed when the poller refuses.                                     *)
LEMMA QueueResponseOK ==
    ASSUME NEW fd, NEW socks, Handles(fd, socks),
           NEW c \in Client, c.addr = clients[fd].addr,
           ClientOK(fdTable[fd], c, "write", socks[fdTable[fd]]),
           QueueResponse(fd, c, socks)
    PROVE  TablesOK' /\ OthersKept(fd)
BY ArmOK, RemoveClientsOK DEF QueueResponse

(* try_dispatch puts any buffered state of a client in order, whatever it  *)
(* finds in the buffer.                                                    *)
LEMMA TryDispatchOK ==
    ASSUME NEW fd, NEW socks, Handles(fd, socks),
           NEW c \in Client, c.addr = clients[fd].addr, NEW i \in {"read", "write"},
           BufferOK(fdTable[fd], c, socks[fdTable[fd]]), InterestOK(c, i),
           handled \in [Peers -> Seq(Nat)],
           TryDispatch(fd, c, i, socks)
    PROVE  TablesOK' /\ OthersKept(fd) /\ handled' \in [Peers -> Seq(Nat)]
<1> DEFINE p == fdTable[fd]
<1>1. p \in Peers /\ socks[p] \in Socket
    BY TablesFacts DEF Handles, SocketsOK
<1>2. CASE Verdict(p, c) = "need_more" /\ Arm(fd, c, i, socks) /\ UNCHANGED handled
    BY <1>2, ArmOK DEF ClientOK
<1>3. CASE /\ Verdict(p, c) = "reject" /\ QueueResponse(fd, WithError(c), socks)
           /\ UNCHANGED handled
    BY <1>1, <1>3, WithErrorOK, QueueResponseOK
<1>4. CASE /\ Verdict(p, c) \in {"keep", "close"}
           /\ handled' = [handled EXCEPT ![p] = Append(@, c.lo)]
           /\ QueueResponse(fd, WithResponse(p, c), socks)
    <2>1. TablesOK' /\ OthersKept(fd)
        BY <1>1, <1>4, WithResponseOK, QueueResponseOK
    <2>2. handled' \in [Peers -> Seq(Nat)]
        BY <1>1, <1>4 DEF Client
    <2> QED
        BY <2>1, <2>2
<1> QED
    BY <1>2, <1>3, <1>4 DEF TryDispatch

-----------------------------------------------------------------------------
(***************************************************************************)
(* Events.                                                                 *)
(***************************************************************************)

(* The fields of an event of the batch.                                    *)
LEMMA EventTyped ==
    ASSUME TypeOK, NEW e \in events
    PROVE  /\ e.fd \in Fds \cup Addrs /\ e.conn \in Peers \cup Addrs
           /\ e.readable \in BOOLEAN /\ e.writable \in BOOLEAN
BY DEF TypeOK, Event

(* Dispatching one event leaves the others of the batch with work to do.   *)
LEMMA ConsumeOK ==
    ASSUME EventsOK, TablesOK, NEW e \in events, Consume(e), OthersKept(e.fd)
    PROVE  EventsOK'
<1>1. events' = events \ {e}
    BY DEF Consume
<1>2. \A f, g \in events' : f.fd = g.fd => f = g
    BY <1>1 DEF EventsOK
<1>3. ASSUME NEW f \in events' PROVE EventOK(f)'
    <2>1. f \in events /\ f.fd # e.fd /\ EventOK(f)
        BY <1>1, <1>3 DEF EventsOK
    <2>2. CASE f.fd \in Addrs
        BY <2>2 DEF EventOK
    <2>3. CASE f.fd \notin Addrs
        <3>1. f.fd \in DOMAIN clients /\ fdTable[f.fd] = f.conn
            BY <2>1, <2>3 DEF EventOK
        <3>2. /\ f.fd \in DOMAIN clients' /\ fdTable'[f.fd] = f.conn
              /\ interest'[f.fd] = interest[f.fd] /\ sock'[f.conn] = sock[f.conn]
            BY <2>1, <3>1 DEF OthersKept
        <3> QED
            BY <2>1, <3>1, <3>2, <2>3 DEF EventOK
    <2> QED
        BY <2>2, <2>3
<1> QED
    BY <1>2, <1>3 DEF EventsOK

(* What a client's event tells its handler.                                *)
LEMMA ClientEvent ==
    ASSUME EventsOK, TablesOK, NEW e \in events, e.fd \in DOMAIN clients
    PROVE  /\ e.fd \notin Addrs /\ fdTable[e.fd] = e.conn
           /\ e.readable => \/ sock[e.conn].sent > sock[e.conn].read
                            \/ sock[e.conn].peer # "alive"
           /\ ~e.readable => /\ interest[e.fd] = "write" /\ clients[e.fd].out # "none"
                             /\ clients[e.fd].written < ResponseLen
                             /\ sock[e.conn].sndq < SendBuf \/ sock[e.conn].peer = "reset"
<1>1. e.fd \in Fds /\ e.fd \notin Addrs
    BY TablesFacts, ConstAssumption
<1>2. EventOK(e)
    BY DEF EventsOK
<1>3. ClientOK(fdTable[e.fd], clients[e.fd], interest[e.fd], sock[fdTable[e.fd]])
    BY TablesFacts
<1>4. InterestOK(clients[e.fd], interest[e.fd])
    BY <1>3 DEF ClientOK
<1> QED
    BY <1>1, <1>2, <1>4 DEF EventOK, InterestOK

(* poll: each event of the new batch is about a registered descriptor that *)
(* the kernel found ready, and finds something to do.                      *)
LEMMA PollOK ==
    ASSUME IInv, Poll
    PROVE  IInv'
<1>1. TypeOK /\ TablesOK
    BY DEF IInv
<1>2. /\ events' \subseteq ReadyEvents /\ phase' = "dispatch"
      /\ UNCHANGED <<clients, interest, fdTable, sock, handled, replies>>
    BY DEF Poll
<1>3. \A fd \in DOMAIN interest : Readable(fd) \in BOOLEAN /\ Writable(fd) \in BOOLEAN
    BY DEF Readable, Writable
<1> DEFINE Listens(e, a) == /\ a \in Addrs
                            /\ e = [fd |-> a, conn |-> a, readable |-> TRUE, writable |-> FALSE]
           Concerns(e, fd) == /\ fd \in DOMAIN interest
                              /\ Readable(fd) \/ Writable(fd)
                              /\ e = [fd |-> fd, conn |-> fdTable[fd],
                                      readable |-> Readable(fd), writable |-> Writable(fd)]
<1>4. ASSUME NEW e \in events'
      PROVE  (\E a : Listens(e, a)) \/ (\E fd : Concerns(e, fd))
    BY <1>2, <1>4 DEF ReadyEvents
<1>5. events' \subseteq Event
    <2> SUFFICES ASSUME NEW e \in events' PROVE e \in Event
        OBVIOUS
    <2>1. ASSUME NEW a, Listens(e, a) PROVE e \in Event
        BY <2>1 DEF Event
    <2>2. ASSUME NEW fd, Concerns(e, fd) PROVE e \in Event
        <3>1. fd \in Fds /\ fdTable[fd] \in Peers
            BY <1>1, <2>2, TablesFacts
        <3>2. Readable(fd) \in BOOLEAN /\ Writable(fd) \in BOOLEAN
            BY <1>3, <2>2
        <3> QED
            BY <2>2, <3>1, <3>2 DEF Event
    <2> HIDE DEF Listens, Concerns
    <2> QED
        BY <1>4, <2>1, <2>2
<1>6. TypeOK' /\ TablesOK'
    <2>1. TypeOK'
        BY <1>1, <1>2, <1>5 DEF TypeOK
    <2>2. TablesOK'
        BY <1>1, <1>2 DEF TablesOK, TablesTyped, DescriptorsAgree
    <2> QED
        BY <2>1, <2>2
<1>7. ASSUME NEW e \in events', NEW f \in events', e.fd = f.fd PROVE e = f
    <2>1. \A fd \in DOMAIN interest : fd \notin Addrs
        BY <1>1, TablesFacts, ConstAssumption
    <2>2. \A g \in {e, f} : \/ Listens(g, g.fd)
                            \/ Concerns(g, g.fd)
        BY <1>4
    <2>3. CASE Listens(e, e.fd) /\ Listens(f, e.fd)
        BY <2>3
    <2>4. CASE Concerns(e, e.fd) /\ Concerns(f, e.fd)
        BY <2>4
    <2>5. \A g : ~(Listens(g, e.fd) /\ Concerns(f, e.fd))
              /\ ~(Listens(g, e.fd) /\ Concerns(e, e.fd))
        BY <2>1
    <2> HIDE DEF Listens, Concerns
    <2> QED
        BY <1>7, <2>2, <2>3, <2>4, <2>5
<1>8. ASSUME NEW e \in events' PROVE EventOK(e)'
    <2>1. ASSUME NEW a, Listens(e, a) PROVE EventOK(e)'
        BY <2>1 DEF EventOK
    <2>2. ASSUME NEW fd, Concerns(e, fd) PROVE EventOK(e)'
        <3>1. fd \in DOMAIN clients
            BY <1>1, <2>2, TablesFacts
        <3>2. /\ e.fd = fd /\ fdTable[fd] = e.conn
              /\ Readable(fd) \/ Writable(fd)
              /\ e.readable = Readable(fd) /\ e.writable = Writable(fd)
            BY <2>2
        <3>3. Readable(fd) => \/ sock[e.conn].sent > sock[e.conn].read
                              \/ sock[e.conn].peer # "alive"
            BY <3>2 DEF Readable
        <3>4. Writable(fd) => /\ interest[fd] = "write"
                              /\ sock[e.conn].sndq < SendBuf \/ sock[e.conn].peer = "reset"
            BY <3>2 DEF Writable
        <3>5. EventOK(e)
            BY <3>1, <3>2, <3>3, <3>4 DEF EventOK
        <3> QED
            BY <1>2, <3>5 DEF EventOK
    <2> HIDE DEF Listens, Concerns
    <2> QED
        BY <1>4, <2>1, <2>2
<1> QED
    BY <1>6, <1>7, <1>8 DEF IInv, EventsOK

-----------------------------------------------------------------------------
(***************************************************************************)
(* The handlers.                                                           *)
(***************************************************************************)

(* What a handler of one client's event shows, to preserve IInv.           *)
LEMMA HandlerOK ==
    ASSUME IInv, NEW e \in events, Consume(e), TablesOK', OthersKept(e.fd),
           handled' \in [Peers -> Seq(Nat)], replies' \in [Peers -> Seq(Reply)]
    PROVE  IInv'
<1>1. TypeOK /\ TablesOK /\ EventsOK
    BY DEF IInv
<1>2. EventsOK'
    BY <1>1, ConsumeOK
<1>3. events' \in SUBSET Event /\ phase' \in {"poll", "dispatch"}
    BY <1>1 DEF Consume, TypeOK
<1>4. TypeOK'
    BY <1>3 DEF TypeOK, TablesOK, TablesTyped
<1> QED
    BY <1>2, <1>4 DEF IInv

(* The bytes of one read are appended to the buffer, which stays in order. *)
LEMMA ReadPrepared ==
    ASSUME IInv, NEW fd \in DOMAIN clients
    PROVE  LET p == fdTable[fd]
               s == sock[p]
               n == LesserOf(ReadMax, s.sent - s.read)
               c == [clients[fd] EXCEPT !.hi = @ + n, !.age = 0]
               socks == [sock EXCEPT ![p].read = @ + n]
           IN  /\ n \in Nat
               /\ c \in Client /\ c.hi = clients[fd].hi + n /\ c.addr = clients[fd].addr
               /\ c.lo = clients[fd].lo /\ c.out = clients[fd].out /\ c.keep = clients[fd].keep
               /\ c.pending = clients[fd].pending /\ c.written = clients[fd].written
               /\ socks[p] \in Socket /\ socks[p].sent = s.sent /\ socks[p].peer = s.peer
               /\ Handles(fd, socks) /\ Handles(fd, sock)
               /\ BufferOK(p, c, socks[p]) /\ InterestOK(c, interest[fd])
<1> DEFINE p == fdTable[fd]
           s == sock[p]
           n == LesserOf(ReadMax, s.sent - s.read)
           c == [clients[fd] EXCEPT !.hi = @ + n, !.age = 0]
           socks == [sock EXCEPT ![p].read = @ + n]
<1>1. TablesOK
    BY DEF IInv
<1>2. /\ p \in Peers /\ s \in Socket /\ SocketOK(p, s) /\ clients[fd] \in Client
      /\ s.st = "open" /\ interest[fd] \in {"read", "write"}
      /\ ClientOK(p, clients[fd], interest[fd], s)
      /\ sock \in [Peers -> Socket] /\ \A q \in Peers : SocketOK(q, sock[q])
    BY <1>1, TablesFacts DEF TablesOK, TablesTyped
<1>3. n \in Nat /\ n <= s.sent - s.read
    <2>1. s.sent - s.read \in Nat
        BY <1>2 DEF Socket, SocketOK
    <2> QED
        BY <2>1, ConstAssumption, LesserOfNat
<1> HIDE DEF n
<1>4. /\ c \in Client /\ c.hi = clients[fd].hi + n /\ c.addr = clients[fd].addr
      /\ c.lo = clients[fd].lo /\ c.out = clients[fd].out /\ c.keep = clients[fd].keep
      /\ c.pending = clients[fd].pending /\ c.written = clients[fd].written
    BY <1>2, <1>3, ReadClient
<1>5. /\ socks \in [Peers -> Socket] /\ socks[p].read = s.read + n /\ socks[p].sent = s.sent
      /\ socks[p].st = s.st /\ socks[p].peer = s.peer
      /\ \A q \in Peers : q # p => socks[q] = sock[q]
    BY <1>2, <1>3 DEF Socket
<1> HIDE DEF c, socks
<1>6. SocketOK(p, socks[p])
    BY <1>2, <1>3, <1>5 DEF SocketOK, Socket
<1>7. Handles(fd, socks) /\ Handles(fd, sock)
    BY <1>1, <1>2, <1>5, <1>6 DEF Handles, SocketsOK
<1>8. BufferOK(p, c, socks[p])
    BY <1>2, <1>3, <1>4, <1>5 DEF ClientOK, BufferOK, Client, Socket
<1>9. InterestOK(c, interest[fd])
    BY <1>2, <1>4 DEF ClientOK, InterestOK
<1> QED
    BY <1>2, <1>3, <1>4, <1>5, <1>7, <1>8, <1>9 DEF n, c, socks

(* handle_read with the try_dispatch at its end.                           *)
LEMMA HandleReadOK ==
    ASSUME IInv, NEW e \in events, HandleRead(e)
    PROVE  IInv' /\ OthersKept(e.fd)
<1> DEFINE fd == e.fd
           p == fdTable[fd]
           n == LesserOf(ReadMax, sock[p].sent - sock[p].read)
           c == [clients[fd] EXCEPT !.hi = @ + n, !.age = 0]
           socks == [sock EXCEPT ![p].read = @ + n]
<1>1. TypeOK /\ TablesOK /\ fd \in DOMAIN clients /\ Consume(e) /\ UNCHANGED replies
    BY DEF IInv, HandleRead
<1>2. /\ c \in Client /\ c.addr = clients[fd].addr
      /\ Handles(fd, socks) /\ Handles(fd, sock)
      /\ BufferOK(p, c, socks[p]) /\ InterestOK(c, interest[fd])
    BY <1>1, ReadPrepared
<1>3. interest[fd] \in {"read", "write"} /\ handled \in [Peers -> Seq(Nat)]
    BY <1>1, TablesFacts DEF TypeOK
<1>4. TablesOK' /\ OthersKept(fd) /\ handled' \in [Peers -> Seq(Nat)]
    <2>1. CASE TryDispatch(fd, c, interest[fd], socks)
        <3> HIDE DEF fd, c, socks
        <3> QED
            BY <1>2, <1>3, <2>1, TryDispatchOK
    <2>2. CASE RemoveClients({fd}, sock) /\ UNCHANGED handled
        BY <1>2, <1>3, <2>2, RemoveClientsOK
    <2> QED
        BY <2>1, <2>2 DEF HandleRead
<1> QED
    BY <1>1, <1>4, HandlerOK DEF TypeOK

(* finish_response: the answered request is drained and the next one in    *)
(* the buffer dispatched, or the connection is closed.                     *)
LEMMA FinishResponseOK ==
    ASSUME NEW fd, NEW socks, Handles(fd, socks),
           NEW c \in Client, c.addr = clients[fd].addr, c.out # "none",
           BufferOK(fdTable[fd], c, socks[fdTable[fd]]),
           handled \in [Peers -> Seq(Nat)], replies \in [Peers -> Seq(Reply)],
           FinishResponse(fd, c, socks)
    PROVE  /\ TablesOK' /\ OthersKept(fd)
           /\ handled' \in [Peers -> Seq(Nat)] /\ replies' \in [Peers -> Seq(Reply)]
<1> DEFINE p == fdTable[fd]
<1>1. p \in Peers /\ socks[p] \in Socket
    BY TablesFacts DEF Handles, SocketsOK
<1>2. replies' \in [Peers -> Seq(Reply)]
    <2>1. [at |-> c.lo, kind |-> c.out] \in Reply
        BY DEF Reply, Client
    <2>2. replies' = [replies EXCEPT ![p] = Append(@, [at |-> c.lo, kind |-> c.out])]
        BY DEF FinishResponse
    <2> QED
        BY <2>1, <2>2, <1>1
<1>3. CASE c.keep /\ TryDispatch(fd, Drained(c), "read", socks)
    <2>1. /\ Drained(c) \in Client /\ Drained(c).addr = c.addr
          /\ BufferOK(p, Drained(c), socks[p]) /\ InterestOK(Drained(c), "read")
        BY <1>1, <1>3, DrainedOK
    <2> QED
        BY <1>2, <1>3, <2>1, TryDispatchOK
<1>4. CASE RemoveClients({fd}, socks) /\ UNCHANGED handled
    BY <1>2, <1>4, RemoveClientsOK
<1> QED
    BY <1>3, <1>4 DEF FinishResponse

(* A write finds part of an answer to write and room for some of it, and   *)
(* changes nothing about the buffer.                                       *)
LEMMA WritePrepared ==
    ASSUME IInv, NEW e \in events, e.fd \in DOMAIN clients, ~e.readable
    PROVE  LET fd == e.fd
               p == fdTable[fd]
               s == sock[p]
               n == LesserOf(ResponseLen - clients[fd].written, SendBuf - s.sndq)
               c == [clients[fd] EXCEPT !.written = @ + n, !.age = 0]
               socks == [sock EXCEPT ![p].sndq = @ + n]
           IN  /\ clients[fd].out # "none" /\ interest[fd] = "write"
               /\ Handles(fd, sock)
               /\ s.peer # "reset" =>
                     /\ n \in Nat /\ clients[fd].written + n <= ResponseLen
                     /\ c \in Client /\ c.hi = clients[fd].hi /\ c.addr = clients[fd].addr
                     /\ c.lo = clients[fd].lo /\ c.out = clients[fd].out
                     /\ c.keep = clients[fd].keep /\ c.pending = clients[fd].pending
                     /\ c.written = clients[fd].written + n
                     /\ socks[p] \in Socket /\ socks[p].sent = s.sent /\ socks[p].peer = s.peer
                     /\ Handles(fd, socks) /\ BufferOK(p, c, socks[p])
<1> DEFINE fd == e.fd
           p == fdTable[fd]
           s == sock[p]
           n == LesserOf(ResponseLen - clients[fd].written, SendBuf - s.sndq)
           c == [clients[fd] EXCEPT !.written = @ + n, !.age = 0]
           socks == [sock EXCEPT ![p].sndq = @ + n]
<1>1. TablesOK /\ EventsOK
    BY DEF IInv
<1>2. /\ p \in Peers /\ s \in Socket /\ SocketOK(p, s) /\ clients[fd] \in Client
      /\ s.st = "open" /\ ClientOK(p, clients[fd], interest[fd], s)
      /\ sock \in [Peers -> Socket] /\ \A q \in Peers : SocketOK(q, sock[q])
    BY <1>1, TablesFacts DEF TablesOK, TablesTyped
<1>3. /\ clients[fd].out # "none" /\ interest[fd] = "write" /\ clients[fd].written < ResponseLen
      /\ s.peer # "reset" => s.sndq < SendBuf
    BY <1>1, ClientEvent
<1>4. Handles(fd, sock)
    BY <1>1, <1>2 DEF Handles, SocketsOK
<1>5. ASSUME s.peer # "reset"
      PROVE  /\ n \in Nat /\ clients[fd].written + n <= ResponseLen
             /\ c \in Client /\ c.hi = clients[fd].hi /\ c.addr = clients[fd].addr
             /\ c.lo = clients[fd].lo /\ c.out = clients[fd].out
             /\ c.keep = clients[fd].keep /\ c.pending = clients[fd].pending
             /\ c.written = clients[fd].written + n
             /\ socks[p] \in Socket /\ socks[p].sent = s.sent /\ socks[p].peer = s.peer
             /\ Handles(fd, socks) /\ BufferOK(p, c, socks[p])
    <2>1. n \in Nat /\ n <= ResponseLen - clients[fd].written
        <3>1. ResponseLen - clients[fd].written \in Nat /\ SendBuf - s.sndq \in Nat
            BY <1>2, <1>3, <1>5, ConstAssumption DEF Client, Socket
        <3> QED
            BY <3>1, LesserOfNat
    <2> HIDE DEF n
    <2>2. clients[fd].written + n <= ResponseLen
        BY <1>2, <2>1, ConstAssumption DEF Client
    <2>3. /\ c \in Client /\ c.hi = clients[fd].hi /\ c.addr = clients[fd].addr
          /\ c.lo = clients[fd].lo /\ c.out = clients[fd].out
          /\ c.keep = clients[fd].keep /\ c.pending = clients[fd].pending
          /\ c.written = clients[fd].written + n
        BY <2>1, <1>2, WrittenClient
    <2>4. /\ socks \in [Peers -> Socket] /\ socks[p].read = s.read /\ socks[p].sent = s.sent
          /\ socks[p].st = s.st /\ socks[p].peer = s.peer
          /\ \A q \in Peers : q # p => socks[q] = sock[q]
        BY <2>1, <1>2 DEF Socket
    <2> HIDE DEF c, socks
    <2>5. Handles(fd, socks)
        BY <1>1, <1>2, <2>4 DEF Handles, SocketsOK, SocketOK
    <2>6. BufferOK(p, c, socks[p])
        BY <2>3, <2>4, <1>2 DEF ClientOK, BufferOK
    <2> QED
        BY <1>2, <2>1, <2>2, <2>3, <2>4, <2>5, <2>6
<1> QED
    BY <1>3, <1>4, <1>5

(* handle_write with the finish_response at its end.                       *)
LEMMA HandleWriteOK ==
    ASSUME IInv, NEW e \in events, HandleWrite(e)
    PROVE  IInv' /\ OthersKept(e.fd)
<1> DEFINE fd == e.fd
           p == fdTable[fd]
           s == sock[p]
           n == LesserOf(ResponseLen - clients[fd].written, SendBuf - s.sndq)
           c == [clients[fd] EXCEPT !.written = @ + n, !.age = 0]
           socks == [sock EXCEPT ![p].sndq = @ + n]
<1>1. /\ TypeOK /\ TablesOK /\ fd \in DOMAIN clients /\ Consume(e) /\ ~e.readable
      /\ handled \in [Peers -> Seq(Nat)] /\ replies \in [Peers -> Seq(Reply)]
    BY DEF IInv, HandleWrite, TypeOK
<1>2. /\ clients[fd].out # "none" /\ interest[fd] = "write" /\ Handles(fd, sock)
      /\ ClientOK(p, clients[fd], interest[fd], s)
    BY <1>1, WritePrepared, TablesFacts
<1>3. ASSUME s.peer # "reset"
      PROVE  /\ c \in Client /\ c.hi = clients[fd].hi /\ c.addr = clients[fd].addr
             /\ c.lo = clients[fd].lo /\ c.out = clients[fd].out
             /\ Handles(fd, socks) /\ BufferOK(p, c, socks[p])
    BY <1>1, <1>3, WritePrepared
<1>4. /\ TablesOK' /\ OthersKept(fd)
      /\ handled' \in [Peers -> Seq(Nat)] /\ replies' \in [Peers -> Seq(Reply)]
    <2>1. CASE /\ s.peer # "reset" /\ c.written < ResponseLen
               /\ Arm(fd, c, interest[fd], socks)
               /\ UNCHANGED <<handled, replies>>
        <3>1. ClientOK(p, c, interest[fd], socks[p])
            BY <1>2, <1>3, <2>1 DEF ClientOK, InterestOK
        <3> HIDE DEF fd, c, socks
        <3> QED
            BY <1>1, <1>2, <1>3, <2>1, <3>1, ArmOK
    <2>2. CASE s.peer # "reset" /\ FinishResponse(fd, c, socks)
        <3> HIDE DEF fd, c, socks
        <3> QED
            BY <1>1, <1>2, <1>3, <2>2, FinishResponseOK
    <2>3. CASE RemoveClients({fd}, sock) /\ UNCHANGED <<handled, replies>>
        BY <1>1, <1>2, <2>3, RemoveClientsOK
    <2> QED
        BY <2>1, <2>2, <2>3 DEF HandleWrite
<1> QED
    BY <1>1, <1>4, HandlerOK

(* accept_all gives new connections only descriptors that were closed, so  *)
(* that no other event of the batch is about one of them.                  *)
LEMMA AcceptAllOK ==
    ASSUME IInv, NEW e \in events, AcceptAll(e)
    PROVE  IInv' /\ OthersKept(e.fd)
<1>1. TypeOK /\ TablesOK /\ EventsOK /\ Consume(e) /\ e.fd \in Addrs
    BY DEF IInv, AcceptAll
<1>2. UNCHANGED <<handled, replies>>
    BY DEF AcceptAll
<1>3. PICK taken, refused, at :
         /\ taken \subseteq Backlog(e.fd) /\ refused \subseteq taken
         /\ at \in [taken \ refused -> Fds \ DOMAIN fdTable]
         /\ \A p, q \in taken \ refused : at[p] = at[q] => p = q
         /\ Register(e.fd, taken, refused, at)
    BY DEF AcceptAll
<1> DEFINE new == {at[p] : p \in taken \ refused}
           peerAt(fd) == CHOOSE p \in taken \ refused : at[p] = fd
<1>4. /\ clients' = [fd \in DOMAIN clients \cup new |->
                        IF fd \in new THEN FreshClient(e.fd) ELSE clients[fd]]
      /\ interest' = [fd \in DOMAIN interest \cup new |->
                        IF fd \in new THEN "read" ELSE interest[fd]]
      /\ fdTable' = [fd \in DOMAIN fdTable \cup new |->
                        IF fd \in new THEN peerAt(fd) ELSE fdTable[fd]]
      /\ sock' = [p \in Peers |->
                        IF p \in refused THEN Closed(sock[p])
                        ELSE IF p \in taken THEN [sock[p] EXCEPT !.st = "open"]
                        ELSE sock[p]]
    BY <1>3 DEF Register
<1>5. \A fd \in new : peerAt(fd) \in taken \ refused /\ at[peerAt(fd)] = fd
    OBVIOUS
<1>6. \A p \in taken \ refused : at[p] \in new /\ peerAt(at[p]) = p
    BY <1>3, <1>5
<1> HIDE DEF peerAt
<1>7. new \subseteq Fds /\ new \cap DOMAIN clients = {}
    BY <1>1, <1>3, TablesFacts
<1> HIDE DEF new
<1>8. \A p \in taken : /\ p \in Peers /\ sock[p] \in Socket /\ sock[p].st = "backlog"
                       /\ Dest[p] = e.fd /\ SocketOK(p, sock[p]) /\ sock[p].read = 0
    BY <1>1, <1>3 DEF Backlog, TablesOK, TablesTyped, SocketOK
<1>9. \A fd \in DOMAIN clients : fdTable[fd] \in Peers /\ fdTable[fd] \notin taken
    BY <1>1, <1>8, TablesFacts
<1>10. /\ sock' \in [Peers -> Socket]
       /\ \A p \in taken \ refused : sock'[p].st = "open" /\ sock'[p].read = 0
       /\ \A p \in refused : sock'[p].st # "open"
       /\ \A p \in Peers \ taken : sock'[p] = sock[p]
       /\ \A p \in Peers : SocketOK(p, sock'[p])
    <2>1. \A p \in Peers : sock[p] \in Socket /\ SocketOK(p, sock[p])
        BY <1>1 DEF TablesOK, TablesTyped
    <2>2. \A p \in Peers : /\ Closed(sock[p]) \in Socket /\ SocketOK(p, Closed(sock[p]))
                           /\ Closed(sock[p]).st # "open"
        BY <2>1, ClosedOK
    <2>3. \A p \in Peers : LET s == [sock[p] EXCEPT !.st = "open"]
                           IN  /\ s \in Socket /\ SocketOK(p, s)
                               /\ s.st = "open" /\ s.read = sock[p].read
        BY <2>1 DEF Socket, SocketOK
    <2>4. refused \subseteq taken /\ taken \subseteq Peers
        BY <1>3, <1>8
    <2> QED
        BY <1>4, <1>8, <2>1, <2>2, <2>3, <2>4
<1>11. /\ DOMAIN clients' = DOMAIN clients \cup new /\ DOMAIN interest' = DOMAIN clients'
       /\ DOMAIN fdTable' = DOMAIN clients'
       /\ \A fd \in new : /\ clients'[fd] = FreshClient(e.fd) /\ interest'[fd] = "read"
                          /\ fdTable'[fd] = peerAt(fd) /\ peerAt(fd) \in Peers
       /\ \A fd \in DOMAIN clients : /\ clients'[fd] = clients[fd]
                                     /\ interest'[fd] = interest[fd]
                                     /\ fdTable'[fd] = fdTable[fd]
    BY <1>1, <1>4, <1>5, <1>7, <1>8, TablesFacts
<1>12. \A fd \in new :
          /\ FreshClient(e.fd) \in Client /\ FreshClient(e.fd).addr = e.fd
          /\ ClientOK(peerAt(fd), FreshClient(e.fd), "read", sock'[peerAt(fd)])
    <2> SUFFICES ASSUME NEW fd \in new
                 PROVE  /\ FreshClient(e.fd) \in Client /\ FreshClient(e.fd).addr = e.fd
                        /\ ClientOK(peerAt(fd), FreshClient(e.fd), "read", sock'[peerAt(fd)])
        OBVIOUS
    <2> DEFINE q == peerAt(fd)
    <2>1. q \in Peers /\ sock'[q] \in Socket /\ SocketOK(q, sock'[q]) /\ sock'[q].read = 0
        BY <1>5, <1>8, <1>10
    <2> HIDE DEF q
    <2>2. /\ FreshClient(e.fd) \in Client /\ FreshClient(e.fd).addr = e.fd
          /\ ClientOK(q, FreshClient(e.fd), "read", sock'[q])
        BY <1>1, <2>1, FreshClientOK
    <2> QED
        BY <2>2 DEF q
<1>13. TablesTyped'
    <2>1. clients' \in [DOMAIN clients' -> Client]
        BY <1>1, <1>4, <1>11, <1>12, TablesFacts
    <2>2. interest' \in [DOMAIN interest' -> {"read", "write"}]
        BY <1>1, <1>4, <1>11, TablesFacts
    <2>3. fdTable' \in [DOMAIN fdTable' -> Peers]
        BY <1>4, <1>9, <1>11, TablesFacts
    <2> QED
        BY <1>1, <1>7, <1>10, <1>11, <2>1, <2>2, <2>3, TablesFacts DEF TablesTyped
<1>14. DescriptorsAgree'
    <2>1. \A f, g \in DOMAIN fdTable' : fdTable'[f] = fdTable'[g] => f = g
        <3> SUFFICES ASSUME NEW f \in DOMAIN fdTable', NEW g \in DOMAIN fdTable',
                            fdTable'[f] = fdTable'[g]
                     PROVE  f = g
            OBVIOUS
        <3>1. CASE f \in DOMAIN clients /\ g \in DOMAIN clients
            BY <1>1, <1>11, <3>1, TablesFacts
        <3>2. CASE f \in new /\ g \in new
            BY <1>5, <1>11, <3>2
        <3>3. CASE (f \in new /\ g \in DOMAIN clients) \/ (g \in new /\ f \in DOMAIN clients)
            BY <1>5, <1>9, <1>11, <3>3
        <3> QED
            BY <1>11, <3>1, <3>2, <3>3
    <2>2. \A p \in Peers : sock'[p].st = "open" <=> \E fd \in DOMAIN fdTable' : fdTable'[fd] = p
        <3> SUFFICES ASSUME NEW p \in Peers
                     PROVE  sock'[p].st = "open" <=> \E fd \in DOMAIN fdTable' : fdTable'[fd] = p
            OBVIOUS
        <3>1. CASE p \in refused
            <4>1. ~ \E fd \in DOMAIN fdTable' : fdTable'[fd] = p
                BY <3>1, <1>3, <1>5, <1>9, <1>11
            <4> QED
                BY <3>1, <4>1, <1>10
        <3>2. CASE p \in taken \ refused
            <4>1. sock'[p].st = "open"
                BY <3>2, <1>10
            <4>2. at[p] \in DOMAIN fdTable' /\ fdTable'[at[p]] = p
                BY <3>2, <1>6, <1>11
            <4> QED
                BY <4>1, <4>2
        <3>3. CASE p \notin taken
            <4>1. sock'[p] = sock[p]
                BY <3>3, <1>10
            <4>2. sock[p].st = "open" <=> \E fd \in DOMAIN clients : fdTable[fd] = p
                BY <1>1, TablesFacts DEF TablesOK, DescriptorsAgree
            <4>3. (\E fd \in DOMAIN fdTable' : fdTable'[fd] = p)
                    <=> \E fd \in DOMAIN clients : fdTable[fd] = p
                BY <3>3, <1>5, <1>11
            <4> QED
                BY <4>1, <4>2, <4>3
        <3> QED
            BY <3>1, <3>2, <3>3
    <2>3. \A fd \in DOMAIN clients' : clients'[fd].addr = Dest[fdTable'[fd]]
        <3>1. \A fd \in DOMAIN clients : clients[fd].addr = Dest[fdTable[fd]]
            BY <1>1 DEF TablesOK, DescriptorsAgree
        <3>2. \A fd \in new : Dest[fdTable'[fd]] = e.fd /\ clients'[fd].addr = e.fd
            BY <1>5, <1>8, <1>11, <1>12
        <3> QED
            BY <3>1, <3>2, <1>11, <1>5, <1>8
    <2> QED
        BY <1>11, <2>1, <2>2, <2>3 DEF DescriptorsAgree
<1>15. \A fd \in DOMAIN clients' :
          ClientOK(fdTable'[fd], clients'[fd], interest'[fd], sock'[fdTable'[fd]])
    BY <1>1, <1>9, <1>10, <1>11, <1>12, TablesFacts
<1>16. TablesOK'
    BY <1>10, <1>13, <1>14, <1>15 DEF TablesOK
<1>17. OthersKept(e.fd)
    BY <1>9, <1>10, <1>11 DEF OthersKept
<1> QED
    BY <1>1, <1>2, <1>16, <1>17, HandlerOK DEF TypeOK, AcceptAll

(* sweep_timeouts removes idle clients and queues 408s for the others      *)
(* whose time is up.                                                       *)
LEMMA SweepTimeoutsOK ==
    ASSUME IInv, SweepTimeouts
    PROVE  IInv'
<1>1. TypeOK /\ TablesOK /\ events = {}
    BY DEF IInv, SweepTimeouts
<1>2. /\ phase' = "poll" /\ UNCHANGED <<events, handled, replies>>
    BY DEF SweepTimeouts
<1>3. PICK refused \in SUBSET Stalled : Sweep(refused)
    BY DEF SweepTimeouts
<1> DEFINE gone == Idle \cup refused
           left == DOMAIN clients \ gone
<1>4. gone \subseteq DOMAIN clients
    BY DEF Idle, Stalled, Waiting
<1> HIDE DEF gone
<1>5. left \subseteq DOMAIN clients /\ DOMAIN clients \ left = gone
    BY <1>4
<1>6. fdTable' = Restrict(fdTable, left)
    BY <1>1, <1>3, TablesFacts DEF Sweep, gone
<1>7. sock' = [p \in Peers |-> IF \E fd \in DOMAIN clients \ left : fdTable[fd] = p
                               THEN Closed(sock[p]) ELSE sock[p]]
    BY <1>3, <1>5 DEF Sweep, gone
<1>8. /\ DOMAIN clients' = left /\ DOMAIN interest' = left
      /\ \A fd \in left :
            /\ clients'[fd] = IF fd \in Stalled THEN WithError(clients[fd]) ELSE clients[fd]
            /\ interest'[fd] = IF fd \in Stalled THEN "write" ELSE interest[fd]
      /\ clients' = [fd \in left |-> clients'[fd]] /\ interest' = [fd \in left |-> interest'[fd]]
    BY <1>3 DEF Sweep, gone
<1>9. SocketsOK(sock)
    BY <1>1 DEF TablesOK, TablesTyped, SocketsOK
<1>10. \A fd \in left :
          /\ clients'[fd] \in Client /\ interest'[fd] \in {"read", "write"}
          /\ clients'[fd].addr = clients[fd].addr
          /\ ClientOK(fdTable[fd], clients'[fd], interest'[fd], sock[fdTable[fd]])
    <2> SUFFICES ASSUME NEW fd \in left
                 PROVE  /\ clients'[fd] \in Client /\ interest'[fd] \in {"read", "write"}
                        /\ clients'[fd].addr = clients[fd].addr
                        /\ ClientOK(fdTable[fd], clients'[fd], interest'[fd], sock[fdTable[fd]])
        OBVIOUS
    <2>1. /\ fdTable[fd] \in Peers /\ clients[fd] \in Client /\ sock[fdTable[fd]] \in Socket
          /\ interest[fd] \in {"read", "write"}
          /\ ClientOK(fdTable[fd], clients[fd], interest[fd], sock[fdTable[fd]])
        BY <1>1, <1>5, TablesFacts
    <2>2. CASE fd \in Stalled
        <3>1. BufferOK(fdTable[fd], clients[fd], sock[fdTable[fd]])
            BY <2>1 DEF ClientOK
        <3> QED
            BY <1>8, <2>1, <2>2, <3>1, WithErrorOK
    <2>3. CASE fd \notin Stalled
        BY <1>8, <2>1, <2>3
    <2> QED
        BY <2>2, <2>3
<1> HIDE DEF left
<1>11. clients' \in [left -> Client] /\ interest' \in [left -> {"read", "write"}]
    BY <1>8, <1>10
<1>12. TablesOK'
    BY <1>1, <1>5, <1>6, <1>7, <1>8, <1>9, <1>10, <1>11, TablesShrink
<1>13. TypeOK' /\ EventsOK'
    BY <1>1, <1>2, <1>12 DEF TypeOK, TablesOK, TablesTyped, EventsOK
<1> QED
    BY <1>12, <1>13 DEF IInv

-----------------------------------------------------------------------------
(***************************************************************************)
(* The peers and the clock.                                                *)
(***************************************************************************)

(* A step of a peer opens and closes no socket, takes back nothing that    *)
(* was sent and can only make more of a socket's events true.              *)
LEMMA PeerStepOK ==
    ASSUME IInv, NEW p \in Peers, NEW s \in Socket,
           sock' = [sock EXCEPT ![p] = s], UNCHANGED server,
           SocketOK(p, s), s.read = sock[p].read, s.sent >= sock[p].sent,
           s.st = "open" <=> sock[p].st = "open",
           sock[p].peer # "alive" => s.peer # "alive",
           sock[p].peer = "reset" => s.peer = "reset",
           s.sndq <= sock[p].sndq
    PROVE  IInv'
<1>1. TypeOK /\ TablesOK /\ EventsOK
    BY DEF IInv
<1>2. /\ clients' = clients /\ interest' = interest /\ events' = events /\ phase' = phase
      /\ fdTable' = fdTable /\ handled' = handled /\ replies' = replies
    BY DEF server
<1>3. /\ sock' \in [Peers -> Socket] /\ sock \in [Peers -> Socket]
      /\ sock'[p] = s /\ \A q \in Peers : q # p => sock'[q] = sock[q]
    BY <1>1 DEF TypeOK
<1>4. \A q \in Peers :
         /\ SocketOK(q, sock'[q]) /\ sock'[q].read = sock[q].read
         /\ sock'[q].st = "open" <=> sock[q].st = "open"
    BY <1>1, <1>3 DEF TablesOK
<1>5. DescriptorsAgree'
    BY <1>1, <1>2, <1>4 DEF TablesOK, DescriptorsAgree
<1>6. \A fd \in DOMAIN clients :
         ClientOK(fdTable[fd], clients[fd], interest[fd], sock'[fdTable[fd]])
    <2>1. \A q, c, i, t, u : t.read = u.read /\ ClientOK(q, c, i, t) => ClientOK(q, c, i, u)
        BY DEF ClientOK, BufferOK
    <2> QED
        BY <1>1, <1>4, <2>1, TablesFacts
<1>7. TypeOK' /\ TablesOK'
    <2>1. TypeOK'
        BY <1>1, <1>2, <1>3 DEF TypeOK
    <2>2. TablesTyped'
        BY <2>1 DEF TypeOK, TablesTyped
    <2> QED
        BY <1>2, <1>4, <1>5, <1>6, <2>1, <2>2 DEF TablesOK
<1>8. ASSUME NEW e \in events PROVE EventOK(e)'
    <2>1. EventOK(e)
        BY <1>1 DEF EventsOK
    <2>2. CASE e.fd \in Addrs
        BY <2>2 DEF EventOK
    <2>3. CASE e.fd \notin Addrs
        <3>1. /\ e.fd \in DOMAIN clients /\ fdTable[e.fd] = e.conn /\ e.conn \in Peers
              /\ e.readable => \/ sock[e.conn].sent > sock[e.conn].read
                               \/ sock[e.conn].peer # "alive"
              /\ ~e.readable => /\ e.writable /\ interest[e.fd] = "write"
                                /\ sock[e.conn].sndq < SendBuf \/ sock[e.conn].peer = "reset"
            BY <1>1, <2>1, <2>3, TablesFacts DEF EventOK
        <3>2. CASE e.conn # p
            BY <1>2, <1>3, <2>1, <3>1, <3>2 DEF EventOK
        <3>3. CASE e.conn = p
            <4>1. sock[p].sent > sock[p].read => s.sent > s.read
                BY <1>3 DEF Socket
            <4>2. sock[p].sndq < SendBuf => s.sndq < SendBuf
                BY <1>3, ConstAssumption DEF Socket
            <4> QED
                BY <1>2, <1>3, <3>1, <3>3, <4>1, <4>2 DEF EventOK
        <3> QED
            BY <3>2, <3>3
    <2> QED
        BY <2>2, <2>3
<1>9. EventsOK'
    BY <1>1, <1>2, <1>8 DEF EventsOK
<1> QED
    BY <1>7, <1>9 DEF IInv

(* What the peers do between two steps of the server takes nothing from an *)
(* event that is still to be handled.                                      *)
LEMMA PeersOK ==
    ASSUME IInv, NEW p \in Peers,
           Connect(p) \/ Send(p) \/ HalfClose(p) \/ Reset(p) \/ Receive(p)
    PROVE  IInv'
<1> DEFINE t == sock[p]
<1>1. t \in Socket /\ SocketOK(p, t) /\ StreamLen[p] \in Nat
    BY ConstAssumption DEF IInv, TypeOK, TablesOK
<1>2. CASE Connect(p)
    <2> DEFINE s == [t EXCEPT !.st = "backlog"]
    <2>1. sock' = [sock EXCEPT ![p] = s] /\ UNCHANGED server /\ t.st = "new"
        BY <1>2 DEF Connect
    <2>2. /\ s \in Socket /\ s.st = "backlog" /\ s.read = t.read /\ s.sent = t.sent
          /\ s.peer = t.peer /\ s.sndq = t.sndq
        BY <1>1 DEF Socket
    <2> HIDE DEF s
    <2>3. SocketOK(p, s) /\ s.sent >= t.sent /\ s.sndq <= t.sndq
        BY <1>1, <2>1, <2>2 DEF SocketOK, Socket
    <2> QED
        BY <2>1, <2>2, <2>3, PeerStepOK
<1>3. CASE Send(p)
    <2> DEFINE s == [t EXCEPT !.sent = @ + 1]
    <2>1. sock' = [sock EXCEPT ![p] = s] /\ UNCHANGED server /\ t.sent < StreamLen[p]
        BY <1>3 DEF Send
    <2>2. /\ s \in Socket /\ s.st = t.st /\ s.read = t.read /\ s.sent = t.sent + 1
          /\ s.peer = t.peer /\ s.sndq = t.sndq
        BY <1>1 DEF Socket
    <2> HIDE DEF s
    <2>3. SocketOK(p, s) /\ s.sent >= t.sent /\ s.sndq <= t.sndq
        BY <1>1, <2>1, <2>2 DEF SocketOK, Socket
    <2> QED
        BY <2>1, <2>2, <2>3, PeerStepOK
<1>4. CASE HalfClose(p)
    <2> DEFINE s == [t EXCEPT !.peer = "fin"]
    <2>1. sock' = [sock EXCEPT ![p] = s] /\ UNCHANGED server /\ t.peer = "alive"
        BY <1>4 DEF HalfClose
    <2>2. /\ s \in Socket /\ s.st = t.st /\ s.read = t.read /\ s.sent = t.sent
          /\ s.peer = "fin" /\ s.sndq = t.sndq
        BY <1>1 DEF Socket
    <2> HIDE DEF s
    <2>3. SocketOK(p, s) /\ s.sent >= t.sent /\ s.sndq <= t.sndq
        BY <1>1, <2>1, <2>2 DEF SocketOK, Socket
    <2> QED
        BY <2>1, <2>2, <2>3, PeerStepOK
<1>5. CASE Reset(p)
    <2> DEFINE s == [t EXCEPT !.peer = "reset", !.sndq = 0]
    <2>1. sock' = [sock EXCEPT ![p] = s] /\ UNCHANGED server
        BY <1>5 DEF Reset
    <2>2. /\ s \in Socket /\ s.st = t.st /\ s.read = t.read /\ s.sent = t.sent
          /\ s.peer = "reset" /\ s.sndq = 0
        BY <1>1 DEF Socket
    <2> HIDE DEF s
    <2>3. SocketOK(p, s) /\ s.sent >= t.sent /\ s.sndq <= t.sndq
        BY <1>1, <2>1, <2>2 DEF SocketOK, Socket
    <2> QED
        BY <2>1, <2>2, <2>3, PeerStepOK
<1>6. CASE Receive(p)
    <2> DEFINE s == [t EXCEPT !.sndq = @ - 1]
    <2>1. sock' = [sock EXCEPT ![p] = s] /\ UNCHANGED server /\ t.sndq > 0
        BY <1>6 DEF Receive
    <2>2. /\ s \in Socket /\ s.st = t.st /\ s.read = t.read /\ s.sent = t.sent
          /\ s.peer = t.peer /\ s.sndq = t.sndq - 1
        BY <1>1, <2>1 DEF Socket
    <2> HIDE DEF s
    <2>3. SocketOK(p, s) /\ s.sent >= t.sent /\ s.sndq <= t.sndq
        BY <1>1, <2>1, <2>2 DEF SocketOK, Socket
    <2> QED
        BY <2>1, <2>2, <2>3, PeerStepOK
<1> QED
    BY <1>2, <1>3, <1>4, <1>5, <1>6

(* Time passing changes ages alone.                                        *)
LEMMA TickOK ==
    ASSUME IInv, Tick
    PROVE  IInv'
<1>1. TypeOK /\ TablesOK /\ EventsOK
    BY DEF IInv
<1>2. UNCHANGED <<interest, events, phase, fdTable, sock, handled, replies>>
    BY DEF Tick
<1>3. /\ DOMAIN clients' = DOMAIN clients
      /\ clients' \in [DOMAIN clients -> Client]
      /\ \A fd \in DOMAIN clients :
            LET c == clients[fd]
                d == clients'[fd]
            IN  /\ d.addr = c.addr /\ d.lo = c.lo /\ d.hi = c.hi /\ d.out = c.out
                /\ d.written = c.written /\ d.keep = c.keep /\ d.pending = c.pending
    <2>1. \A a \in 0 .. IdleTimeout : LesserOf(a + 1, IdleTimeout) \in 0 .. IdleTimeout
        BY ConstAssumption DEF LesserOf
    <2>2. \A c \in Client, a \in 0 .. IdleTimeout :
             LET d == [c EXCEPT !.age = a]
             IN  /\ d \in Client /\ d.addr = c.addr /\ d.lo = c.lo /\ d.hi = c.hi
                 /\ d.out = c.out /\ d.written = c.written /\ d.keep = c.keep
                 /\ d.pending = c.pending
        BY DEF Client
    <2>3. \A fd \in DOMAIN clients :
             /\ clients[fd] \in Client
             /\ LesserOf(clients[fd].age + 1, IdleTimeout) \in 0 .. IdleTimeout
        BY <1>1, <2>1, TablesFacts DEF Client
    <2>4. clients' = [fd \in DOMAIN clients |->
                        [clients[fd] EXCEPT !.age = LesserOf(clients[fd].age + 1, IdleTimeout)]]
        BY DEF Tick
    <2> QED
        BY <2>2, <2>3, <2>4
<1>4. TypeOK'
    BY <1>1, <1>2, <1>3 DEF TypeOK
<1>5. TablesTyped' /\ DescriptorsAgree'
    BY <1>1, <1>2, <1>3, <1>4 DEF TypeOK, TablesOK, TablesTyped, DescriptorsAgree
<1>6. \A fd \in DOMAIN clients :
         ClientOK(fdTable[fd], clients'[fd], interest[fd], sock[fdTable[fd]])
    <2> SUFFICES ASSUME NEW fd \in DOMAIN clients
                 PROVE  ClientOK(fdTable[fd], clients'[fd], interest[fd], sock[fdTable[fd]])
        OBVIOUS
    <2>1. ClientOK(fdTable[fd], clients[fd], interest[fd], sock[fdTable[fd]])
        BY <1>1, TablesFacts
    <2> QED
        BY <1>3, <2>1 DEF ClientOK, BufferOK, InterestOK, Verdict
<1>7. TablesOK'
    BY <1>1, <1>2, <1>3, <1>5, <1>6 DEF TablesOK
<1>8. EventsOK'
    BY <1>1, <1>2, <1>3 DEF EventsOK, EventOK
<1> QED
    BY <1>4, <1>7, <1>8 DEF IInv

-----------------------------------------------------------------------------
(***************************************************************************)
(* The theorems.                                                           *)
(***************************************************************************)

(* The invariant holds when the server starts ...                          *)
LEMMA InitOK == Init => IInv
<1> SUFFICES ASSUME Init PROVE IInv
    OBVIOUS
<1>1. DOMAIN clients = {} /\ DOMAIN interest = {} /\ DOMAIN fdTable = {} /\ events = {}
    BY DEF Init
<1>2. sock \in [Peers -> Socket] /\ \A p \in Peers : /\ sock[p].st = "new"
                                                     /\ SocketOK(p, sock[p])
    BY ConstAssumption DEF Init, Socket, SocketOK
<1>3. /\ clients \in [DOMAIN clients -> Client]
      /\ interest \in [DOMAIN interest -> {"read", "write"}]
      /\ fdTable \in [DOMAIN fdTable -> Peers]
    BY DEF Init
<1>4. handled \in [Peers -> Seq(Nat)] /\ replies \in [Peers -> Seq(Reply)]
    BY DEF Init
<1>5. TypeOK
    BY <1>1, <1>2, <1>3, <1>4 DEF TypeOK, Init
<1>6. DescriptorsAgree
    BY <1>1, <1>2 DEF DescriptorsAgree
<1> QED
    BY <1>1, <1>2, <1>3, <1>5, <1>6 DEF IInv, TablesOK, TablesTyped, EventsOK

(* ... and every step keeps it.                                            *)
LEMMA NextOK == IInv /\ [Next]_vars => IInv'
<1> SUFFICES ASSUME IInv, [Next]_vars PROVE IInv'
    OBVIOUS
<1>1. CASE Poll
    BY <1>1, PollOK
<1>2. ASSUME NEW e \in events, AcceptAll(e) \/ HandleRead(e) \/ HandleWrite(e)
      PROVE  IInv'
    BY <1>2, AcceptAllOK, HandleReadOK, HandleWriteOK
<1>3. CASE SweepTimeouts
    BY <1>3, SweepTimeoutsOK
<1>4. ASSUME NEW p \in Peers, Connect(p) \/ Send(p) \/ HalfClose(p) \/ Reset(p) \/ Receive(p)
      PROVE  IInv'
    BY <1>4, PeersOK
<1>5. CASE Tick
    BY <1>5, TickOK
<1>6. CASE UNCHANGED vars
    BY <1>6 DEF vars, IInv, TypeOK, TablesOK, TablesTyped, DescriptorsAgree, EventsOK, EventOK
<1> QED
    BY <1>1, <1>2, <1>3, <1>4, <1>5, <1>6 DEF Next, ServerStep, Environment

(* The joint invariant of the client map, the poller, the descriptors, the *)
(* sockets, the buffers and the pending events.                            *)
THEOREM Invariance == Spec => []IInv
BY InitOK, NextOK, PTL DEF Spec

(* Every variable keeps its type.                                          *)
THEOREM TypeCorrect == Spec => []TypeOK
<1>1. IInv => TypeOK
    BY DEF IInv
<1> QED
    BY <1>1, Invariance, PTL

(* No descriptor leaks and none is shared: the client map, the poller and  *)
(* the process's descriptor table always name the same ones.               *)
THEOREM DescriptorsAlwaysAgree == Spec => []DescriptorsAgree
<1>1. IInv => DescriptorsAgree
    BY DEF IInv, TablesOK
<1> QED
    BY <1>1, Invariance, PTL

(* The poller waits for writability exactly while an answer is unfinished. *)
THEOREM InterestAlwaysFollows == Spec => []InterestFollowsOutput
<1>1. IInv => InterestFollowsOutput
    BY TablesFacts DEF IInv, ClientOK, InterestOK, InterestFollowsOutput
<1> QED
    BY <1>1, Invariance, PTL

(* No wakeup is lost: a client that waits for input has nothing in inbuf   *)
(* that could be decided.                                                  *)
THEOREM NoneStranded == Spec => []NoStrandedRequest
<1>1. IInv => NoStrandedRequest
    BY TablesFacts DEF IInv, ClientOK, NoStrandedRequest
<1> QED
    BY <1>1, Invariance, PTL

(* Buffers stay aligned with the byte stream, however it is split.         *)
THEOREM BuffersAlwaysMatch == Spec => []BuffersMatchStream
<1>1. ASSUME IInv PROVE BuffersMatchStream
    <2>1. TablesOK
        BY <1>1 DEF IInv
    <2> QED
        BY <2>1, TablesFacts DEF ClientOK, BufferOK, SocketOK, BuffersMatchStream
<1> QED
    BY <1>1, Invariance, PTL

(* No event of a batch goes stale before it is dispatched.                 *)
THEOREM EventsAlwaysFresh == Spec => []EventsAreFresh
<1>1. ASSUME IInv PROVE EventsAreFresh
    <2>1. TypeOK /\ TablesOK /\ EventsOK
        BY <1>1 DEF IInv
    <2> SUFFICES ASSUME NEW e \in events, e.fd \notin Addrs
                 PROVE  /\ e.fd \in DOMAIN clients /\ fdTable[e.fd] = e.conn
                        /\ LET s == sock[e.conn]
                           IN  \/ e.readable /\ (s.sent > s.read \/ s.peer # "alive")
                               \/ /\ ~e.readable /\ e.writable
                                  /\ clients[e.fd].out # "none"
                                  /\ clients[e.fd].written < ResponseLen
                                  /\ s.sndq < SendBuf \/ s.peer = "reset"
        BY DEF EventsAreFresh
    <2>2. EventOK(e) /\ e.readable \in BOOLEAN
        BY <2>1, EventTyped DEF EventsOK
    <2>3. e.fd \in DOMAIN clients
        BY <2>2 DEF EventOK
    <2> QED
        BY <2>1, <2>2, <2>3, ClientEvent DEF EventOK
<1> QED
    BY <1>1, Invariance, PTL
=============================================================================
