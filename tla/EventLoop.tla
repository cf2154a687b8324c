----------------------------- MODULE EventLoop ------------------------------
(***************************************************************************)
(* The event loop of servoxide (lc/src/server/mod.rs) on the poller        *)
(* (lc/src/poll): one thread that polls, dispatches the ready descriptors  *)
(* one by one (accept, one read or one write each), sweeps timed-out       *)
(* connections and polls again.  The peers and the kernel's side of every  *)
(* socket run concurrently with it.                                        *)
(*                                                                         *)
(* Data.  A connection's input is a prefix of a fixed byte stream that the *)
(* peer may send; Script[p] names the requests in it.  The bytes of inbuf  *)
(* are always a run of that stream, lo+1 .. hi: bytes are appended in the  *)
(* order they are read and drained from the front.  outbuf holds one       *)
(* answer of ResponseLen bytes, to the request at lo.                      *)
(*                                                                         *)
(* Time.  age[fd] is now - last_activity in ticks, saturated at            *)
(* IdleTimeout, beyond which it decides nothing.                           *)
(***************************************************************************)
EXTENDS Naturals, Sequences, FiniteSets, Functions

CONSTANTS
    Peers,           \* connections; each peer connects at most once
    Fds,             \* descriptors free for client sockets (the fd table's limit)
    Addrs,           \* listeners that Server::bind bound, and their Address
    Dest,            \* Dest[p]: the listener p connects to
    Script,          \* Script[p]: the requests in the stream p may send
    StreamLen,       \* StreamLen[p]: the length of that stream
    ReadMax,         \* bytes of the read buffer (4096 in the code)
    ResponseLen,     \* bytes of a serialised response
    SendBuf,         \* bytes the kernel queues for a peer before EAGAIN
    MaxEvents,       \* events one poll returns at most (1024 in the code)
    RequestTimeout,  \* REQUEST_TIMEOUT, in ticks
    IdleTimeout,     \* IDLE_TIMEOUT, in ticks
    Backend,         \* "epoll" or "kqueue"
    CtlMayFail       \* may accept, fcntl and the poller's calls fail?

(***************************************************************************)
(* A request starts at byte `at`, is `len` bytes long, and is decided once *)
(* `need` of them are buffered: "keep" and "close" requests reach the      *)
(* router and leave the connection open or close it; "reject" stands for   *)
(* every respond_error of try_dispatch (bad or oversized head, bad         *)
(* framing, body too large), which may come before the body does.          *)
(***************************************************************************)
Request == [at : Nat, need : Nat \ {0}, len : Nat \ {0},
            verdict : {"keep", "close", "reject"}]

ASSUME ConstAssumption ==
    /\ Fds \cap Addrs = {}
    /\ Dest \in [Peers -> Addrs]
    /\ StreamLen \in [Peers -> Nat]
    /\ ReadMax \in Nat \ {0}
    /\ ResponseLen \in Nat \ {0}
    /\ SendBuf \in Nat \ {0}
    /\ MaxEvents \in Nat \ {0}
    /\ RequestTimeout \in Nat \ {0}
    /\ IdleTimeout \in Nat \ {0}
    /\ RequestTimeout <= IdleTimeout
    /\ Backend \in {"epoll", "kqueue"}
    /\ CtlMayFail \in BOOLEAN

(* The requests of a stream follow one another without gap or overlap.     *)
ASSUME ScriptAssumption ==
    /\ Script \in [Peers -> SUBSET Request]
    /\ \A p \in Peers :
          /\ StreamLen[p] > 0 => \E r \in Script[p] : r.at = 0
          /\ \A r \in Script[p] :
                /\ r.need <= r.len
                /\ r.verdict # "reject" => r.need = r.len
                /\ r.at + r.len <= StreamLen[p]
                /\ \/ r.at + r.len = StreamLen[p]
                   \/ \E s \in Script[p] : s.at = r.at + r.len
          /\ \A r, s \in Script[p] : r.at = s.at => r = s

VARIABLES
    clients,    \* Server.clients: descriptor -> Client
    interest,   \* the poller's registrations: descriptor -> "read" or "write"
    events,     \* Server.events: those this tick has yet to dispatch
    phase,      \* "poll" or "dispatch"
    fdTable,    \* kernel: open descriptor -> the connection behind it
    sock,       \* kernel: the socket of each connection
    handled,    \* history: the requests given to http::handle, by position
    replies     \* history: the answers written in full

vars == <<clients, interest, events, phase, fdTable, sock, handled, replies>>
server == <<clients, interest, events, phase, fdTable, handled, replies>>

Client == [addr : Addrs, lo : Nat, hi : Nat, out : {"none", "ok", "error"},
           written : Nat, keep : BOOLEAN, pending : Nat, age : 0 .. IdleTimeout]

(* st: "aborted" is a close with unread input, which resets the connection *)
(* and may discard queued output.  sent and read count the bytes the peer  *)
(* sent and the server read, sndq those written that the peer has not      *)
(* taken.  peer: "fin" is a half-close, "reset" a connection torn down.    *)
Socket == [st : {"new", "backlog", "open", "closed", "aborted"}, sent : Nat,
           read : Nat, sndq : Nat, peer : {"alive", "fin", "reset"}]

Event == [fd : Fds \cup Addrs, conn : Peers \cup Addrs,
          readable : BOOLEAN, writable : BOOLEAN]

Reply == [at : Nat, kind : {"ok", "error"}]

LesserOf(a, b) == IF a <= b THEN a ELSE b

-----------------------------------------------------------------------------
(***************************************************************************)
(* Parsing the buffer of a client.                                         *)
(***************************************************************************)

RequestAt(p, pos) == CHOOSE r \in Script[p] : r.at = pos
StartsAt(p, pos) == \E r \in Script[p] : r.at = pos

(* What parse_head, body_mode and decode_body make of inbuf.  A buffer     *)
(* that does not begin where a request begins is rejected as malformed.    *)
Verdict(p, c) ==
    IF c.hi = c.lo THEN "need_more"
    ELSE IF ~StartsAt(p, c.lo) THEN "reject"
    ELSE LET r == RequestAt(p, c.lo)
         IN  IF c.hi - c.lo < r.need THEN "need_more" ELSE r.verdict

(* Mutant: every client is tagged with the same address.                   *)
UntaggedClient(a) ==
    [addr |-> 0, lo |-> 0, hi |-> 0, out |-> "none", written |-> 0,
     keep |-> FALSE, pending |-> 0, age |-> 0]

FreshClient(a) ==
    [addr |-> a, lo |-> 0, hi |-> 0, out |-> "none", written |-> 0,
     keep |-> FALSE, pending |-> 0, age |-> 0]

(* respond_error: an error answer closes the connection after it.          *)
WithError(c) ==
    [c EXCEPT !.out = "error", !.written = 0, !.keep = FALSE, !.pending = 0]

(* Mutant: a request's "Connection: close" is not resolved.                *)
WithKeptResponse(p, c) ==
    [c EXCEPT !.out = "ok", !.written = 0, !.keep = TRUE,
              !.pending = RequestAt(p, c.lo).len]

(* The answer of http::handle, with the bytes its request occupies.        *)
WithResponse(p, c) ==
    [c EXCEPT !.out = "ok", !.written = 0,
              !.keep = (Verdict(p, c) = "keep"),
              !.pending = RequestAt(p, c.lo).len]

(* Mutants: a byte too few is drained; the whole buffer is cleared; the    *)
(* answered request is kept.                                               *)
DrainedShort(c) ==
    [c EXCEPT !.lo = IF c.pending <= c.hi - c.lo THEN @ + c.pending - 1 ELSE c.hi,
              !.out = "none", !.written = 0, !.keep = FALSE, !.pending = 0]
ClearedAll(c) ==
    [c EXCEPT !.lo = c.hi, !.out = "none", !.written = 0, !.keep = FALSE, !.pending = 0]
Undrained(c) ==
    [c EXCEPT !.out = "none", !.written = 0, !.keep = FALSE, !.pending = 0]

(* What finish_response leaves of a kept-alive client.                     *)
Drained(c) ==
    [c EXCEPT !.lo = IF c.pending <= c.hi - c.lo THEN @ + c.pending ELSE c.hi,
              !.out = "none", !.written = 0, !.keep = FALSE, !.pending = 0]

-----------------------------------------------------------------------------
(***************************************************************************)
(* Closing connections.                                                    *)
(***************************************************************************)

Closed(s) ==
    [s EXCEPT !.st = IF s.sent > s.read THEN "aborted" ELSE "closed"]

(* Mutant: the descriptors are never closed.                               *)
ForgetClients(gone, socks) ==
    /\ clients' = Restrict(clients, DOMAIN clients \ gone)
    /\ interest' = Restrict(interest, DOMAIN interest \ gone)
    /\ sock' = socks
    /\ UNCHANGED fdTable

(* remove_client for every descriptor of gone: deregister, close, drop.    *)
(* socks is the sockets' state after what the same handler did before.     *)
RemoveClients(gone, socks) ==
    /\ clients' = Restrict(clients, DOMAIN clients \ gone)
    /\ interest' = Restrict(interest, DOMAIN interest \ gone)
    /\ fdTable' = Restrict(fdTable, DOMAIN fdTable \ gone)
    /\ sock' = [p \in Peers |-> IF \E fd \in gone : fdTable[fd] = p
                                THEN Closed(socks[p]) ELSE socks[p]]

(* The client's state is stored and the poller told what it waits for.     *)
Arm(fd, c, i, socks) ==
    /\ clients' = [clients EXCEPT ![fd] = c]
    /\ interest' = [interest EXCEPT ![fd] = i]
    /\ sock' = socks
    /\ UNCHANGED fdTable

(* queue_response: if the poller refuses, the client is dropped.           *)
QueueResponse(fd, c, socks) ==
    \/ Arm(fd, c, "write", socks)
    \/ CtlMayFail /\ RemoveClients({fd}, socks)

(* try_dispatch on client state c, whose descriptor waits for i so far.    *)
TryDispatch(fd, c, i, socks) ==
    LET p == fdTable[fd]
        v == Verdict(p, c)
    IN  \/ /\ v = "need_more"
           /\ Arm(fd, c, i, socks)
           /\ UNCHANGED handled
        \/ /\ v = "reject"
           /\ QueueResponse(fd, WithError(c), socks)
           /\ UNCHANGED handled
        \/ /\ v \in {"keep", "close"}
           /\ handled' = [handled EXCEPT ![p] = Append(@, c.lo)]
           /\ QueueResponse(fd, WithResponse(p, c), socks)

-----------------------------------------------------------------------------
(***************************************************************************)
(* One tick of Server::run.                                                *)
(***************************************************************************)

Backlog(a) == {p \in Peers : sock[p].st = "backlog" /\ Dest[p] = a}

(* Mutant: the read filter stays armed while an answer is written.         *)
ReadableAnyway(fd) ==
    LET s == sock[fdTable[fd]] IN s.sent > s.read \/ s.peer # "alive"

(* epoll reports EPOLLERR and EPOLLHUP whatever the mask, and poll maps    *)
(* both to readable; kqueue reports EV_EOF through the armed filter only.  *)
Readable(fd) ==
    LET s == sock[fdTable[fd]]
    IN  \/ interest[fd] = "read" /\ (s.sent > s.read \/ s.peer # "alive")
        \/ Backend = "epoll" /\ s.peer = "reset"

Writable(fd) ==
    LET s == sock[fdTable[fd]]
    IN  interest[fd] = "write" /\ (s.sndq < SendBuf \/ s.peer = "reset")

ReadyEvents ==
    {[fd |-> a, conn |-> a, readable |-> TRUE, writable |-> FALSE] :
        a \in {b \in Addrs : Backlog(b) # {}}}
    \cup
    {[fd |-> fd, conn |-> fdTable[fd], readable |-> Readable(fd), writable |-> Writable(fd)] :
        fd \in {g \in DOMAIN interest : Readable(g) \/ Writable(g)}}

(* Poller::poll.  It reports a descriptor at most once, all that are ready *)
(* up to MaxEvents, and none when it times out or is interrupted.  (A poll *)
(* that fails is retried: a stuttering step.)  conn is history: the        *)
(* connection behind the descriptor when it was reported.                  *)
Poll ==
    /\ phase = "poll"
    /\ events' \in SUBSET ReadyEvents
    /\ \/ Cardinality(events') = LesserOf(MaxEvents, Cardinality(ReadyEvents))
       \/ events' = {} /\ CtlMayFail
    /\ phase' = "dispatch"
    /\ UNCHANGED <<clients, interest, fdTable, sock, handled, replies>>

Consume(e) ==
    /\ phase = "dispatch"
    /\ events' = events \ {e}
    /\ UNCHANGED phase

(* The connections of taken are accepted: those of refused are closed      *)
(* again, the others become clients of address a at the descriptors at[p]. *)
Register(a, taken, refused, at) ==
    LET new == {at[p] : p \in taken \ refused}
        peerAt(fd) == CHOOSE p \in taken \ refused : at[p] = fd
    IN  /\ clients' = [fd \in DOMAIN clients \cup new |->
              IF fd \in new THEN FreshClient(a) ELSE clients[fd]]
        /\ interest' = [fd \in DOMAIN interest \cup new |->
              IF fd \in new THEN "read" ELSE interest[fd]]
        /\ fdTable' = [fd \in DOMAIN fdTable \cup new |->
              IF fd \in new THEN peerAt(fd) ELSE fdTable[fd]]
        /\ sock' = [p \in Peers |->
              IF p \in refused THEN Closed(sock[p])
              ELSE IF p \in taken THEN [sock[p] EXCEPT !.st = "open"]
              ELSE sock[p]]

(* accept_all: connections are accepted until none is pending, the         *)
(* descriptors are used up or accept fails.  One that cannot be made       *)
(* non-blocking or registered is closed again.                             *)
AcceptAll(e) ==
    /\ e.fd \in Addrs
    /\ Consume(e)
    /\ \E taken \in SUBSET Backlog(e.fd) :
       \E refused \in SUBSET taken :
       \E at \in [taken \ refused -> Fds \ DOMAIN fdTable] :
          /\ \A p, q \in taken \ refused : at[p] = at[q] => p = q
          /\ taken # {} => DOMAIN fdTable # Fds
          /\ refused # {} => CtlMayFail
          /\ \/ taken = Backlog(e.fd)
             \/ Fds \ DOMAIN fdTable \subseteq {at[p] : p \in taken \ refused}
             \/ CtlMayFail
          /\ Register(e.fd, taken, refused, at)
    /\ UNCHANGED <<handled, replies>>

(* handle_read: one read.  Queued bytes are delivered before the end of    *)
(* the stream or an error is, also on a connection that was reset.         *)
HandleRead(e) ==
    LET fd == e.fd
        p == fdTable[fd]
        s == sock[p]
        n == LesserOf(ReadMax, s.sent - s.read)
    IN  /\ fd \in DOMAIN clients /\ e.readable
        /\ Consume(e)
        /\ \/ /\ n > 0
              /\ TryDispatch(fd, [clients[fd] EXCEPT !.hi = @ + n, !.age = 0],
                             interest[fd], [sock EXCEPT ![p].read = @ + n])
           \/ /\ n = 0 /\ s.peer # "alive"
              /\ RemoveClients({fd}, sock)
              /\ UNCHANGED handled
        /\ UNCHANGED replies

(* Mutants: the poller is not told to wait for input again; a request that *)
(* is already buffered is left to the next readable event.                 *)
FinishStillWriting(fd, c, socks) ==
    /\ replies' = [replies EXCEPT ![fdTable[fd]] = Append(@, [at |-> c.lo, kind |-> c.out])]
    /\ \/ /\ c.keep
          /\ TryDispatch(fd, Drained(c), "write", socks)
       \/ /\ ~c.keep
          /\ RemoveClients({fd}, socks)
          /\ UNCHANGED handled
FinishWithoutDispatch(fd, c, socks) ==
    /\ replies' = [replies EXCEPT ![fdTable[fd]] = Append(@, [at |-> c.lo, kind |-> c.out])]
    /\ UNCHANGED handled
    /\ \/ c.keep /\ Arm(fd, Drained(c), "read", socks)
       \/ ~c.keep /\ RemoveClients({fd}, socks)

(* finish_response on client state c, whose answer is out in full.         *)
FinishResponse(fd, c, socks) ==
    /\ replies' = [replies EXCEPT ![fdTable[fd]] = Append(@, [at |-> c.lo, kind |-> c.out])]
    /\ \/ /\ c.keep
          /\ TryDispatch(fd, Drained(c), "read", socks)
       \/ /\ ~c.keep \/ CtlMayFail
          /\ RemoveClients({fd}, socks)
          /\ UNCHANGED handled

(* handle_write: one write, of as much as the kernel takes.                *)
HandleWrite(e) ==
    LET fd == e.fd
        p == fdTable[fd]
        s == sock[p]
        n == LesserOf(ResponseLen - clients[fd].written, SendBuf - s.sndq)
        c == [clients[fd] EXCEPT !.written = @ + n, !.age = 0]
        socks == [sock EXCEPT ![p].sndq = @ + n]
    IN  /\ fd \in DOMAIN clients /\ ~e.readable /\ e.writable
        /\ Consume(e)
        /\ \/ /\ s.peer # "reset" /\ n > 0 /\ c.written < ResponseLen
              /\ Arm(fd, c, interest[fd], socks)
              /\ UNCHANGED <<handled, replies>>
           \/ /\ s.peer # "reset" /\ n > 0 /\ c.written >= ResponseLen
              /\ FinishResponse(fd, c, socks)
           \/ /\ s.peer = "reset"
              /\ RemoveClients({fd}, sock)
              /\ UNCHANGED <<handled, replies>>

(* A client with an answer to write is left alone by sweep_timeouts; one   *)
(* with a partial request gets a 408 after RequestTimeout, an idle one is  *)
(* closed after IdleTimeout.                                               *)
Waiting == {fd \in DOMAIN clients : clients[fd].out = "none"}

Stalled == {fd \in Waiting : /\ clients[fd].hi > clients[fd].lo
                             /\ clients[fd].age >= RequestTimeout}

(* Mutant: idle connections are never closed.                              *)
IdleNever == {}

Idle == {fd \in Waiting : /\ clients[fd].hi = clients[fd].lo
                          /\ clients[fd].age >= IdleTimeout}

(* sweep_timeouts.  refused are those that the poller refuses to rearm.    *)
Sweep(refused) ==
    LET gone == Idle \cup refused
        left == DOMAIN clients \ gone
    IN  /\ clients' = [fd \in left |-> IF fd \in Stalled THEN WithError(clients[fd])
                                       ELSE clients[fd]]
        /\ interest' = [fd \in left |-> IF fd \in Stalled THEN "write" ELSE interest[fd]]
        /\ fdTable' = Restrict(fdTable, DOMAIN fdTable \ gone)
        /\ sock' = [p \in Peers |-> IF \E fd \in gone : fdTable[fd] = p
                                    THEN Closed(sock[p]) ELSE sock[p]]

(* Mutant: the sweep does not wait for the end of the batch.               *)
SweepEarly ==
    /\ phase = "dispatch"
    /\ phase' = IF events = {} THEN "poll" ELSE "dispatch"
    /\ Sweep({})
    /\ UNCHANGED <<events, handled, replies>>

(* The sweep runs after the last event of the batch.                       *)
SweepTimeouts ==
    /\ phase = "dispatch" /\ events = {}
    /\ phase' = "poll"
    /\ \E refused \in IF CtlMayFail THEN SUBSET Stalled ELSE {{}} : Sweep(refused)
    /\ UNCHANGED <<events, handled, replies>>

ServerStep ==
    \/ Poll
    \/ \E e \in events : AcceptAll(e) \/ HandleRead(e) \/ HandleWrite(e)
    \/ SweepTimeouts

-----------------------------------------------------------------------------
(***************************************************************************)
(* The peers, the network and the clock.                                   *)
(***************************************************************************)

Connected(p) == sock[p].st \in {"backlog", "open"}

Connect(p) ==
    /\ sock[p].st = "new"
    /\ sock' = [sock EXCEPT ![p].st = "backlog"]
    /\ UNCHANGED server

Send(p) ==
    /\ Connected(p) /\ sock[p].peer = "alive" /\ sock[p].sent < StreamLen[p]
    /\ sock' = [sock EXCEPT ![p].sent = @ + 1]
    /\ UNCHANGED server

HalfClose(p) ==
    /\ Connected(p) /\ sock[p].peer = "alive"
    /\ sock' = [sock EXCEPT ![p].peer = "fin"]
    /\ UNCHANGED server

(* The connection is torn down: what is queued for the peer is discarded,  *)
(* what the peer sent before stays readable.                               *)
Reset(p) ==
    /\ Connected(p) /\ sock[p].peer # "reset"
    /\ sock' = [sock EXCEPT ![p].peer = "reset", ![p].sndq = 0]
    /\ UNCHANGED server

(* The peer takes a byte of what the server wrote.                         *)
Receive(p) ==
    /\ sock[p].st # "aborted" /\ sock[p].sndq > 0
    /\ sock' = [sock EXCEPT ![p].sndq = @ - 1]
    /\ UNCHANGED server

(* Time passes: while poll waits, or while a handler blocks the thread.    *)
Tick ==
    /\ clients' = [fd \in DOMAIN clients |->
                      [clients[fd] EXCEPT !.age = LesserOf(@ + 1, IdleTimeout)]]
    /\ UNCHANGED <<interest, events, phase, fdTable, sock, handled, replies>>

Environment ==
    \/ \E p \in Peers : Connect(p) \/ Send(p) \/ HalfClose(p) \/ Reset(p) \/ Receive(p)
    \/ Tick

-----------------------------------------------------------------------------
Init ==
    /\ clients = [fd \in {} |-> FreshClient(fd)]
    /\ interest = [fd \in {} |-> "read"]
    /\ events = {}
    /\ phase = "poll"
    /\ fdTable = [fd \in {} |-> fd]
    /\ sock = [p \in Peers |-> [st |-> "new", sent |-> 0, read |-> 0, sndq |-> 0,
                                peer |-> "alive"]]
    /\ handled = [p \in Peers |-> <<>>]
    /\ replies = [p \in Peers |-> <<>>]

Next == ServerStep \/ Environment

Spec == Init /\ [][Next]_vars

-----------------------------------------------------------------------------
(***************************************************************************)
(* What must hold.                                                         *)
(***************************************************************************)

(* Every variable has its type.                                            *)
TypeOK ==
    /\ DOMAIN clients \subseteq Fds /\ clients \in [DOMAIN clients -> Client]
    /\ DOMAIN interest \subseteq Fds /\ interest \in [DOMAIN interest -> {"read", "write"}]
    /\ events \in SUBSET Event
    /\ phase \in {"poll", "dispatch"}
    /\ DOMAIN fdTable \subseteq Fds /\ fdTable \in [DOMAIN fdTable -> Peers]
    /\ sock \in [Peers -> Socket]
    /\ handled \in [Peers -> Seq(Nat)]
    /\ replies \in [Peers -> Seq(Reply)]

(* remove_client's promise that "no fd or buffer ever leaks": the client   *)
(* map, the poller's registrations and the process's open descriptors name *)
(* the same descriptors, each open socket is behind exactly one of them,   *)
(* and its client carries the address the connection came in on.           *)
DescriptorsAgree ==
    /\ DOMAIN clients = DOMAIN fdTable
    /\ DOMAIN interest = DOMAIN fdTable
    /\ \A f, g \in DOMAIN fdTable : fdTable[f] = fdTable[g] => f = g
    /\ \A p \in Peers : sock[p].st = "open" <=> \E fd \in DOMAIN fdTable : fdTable[fd] = p
    /\ \A fd \in DOMAIN clients : clients[fd].addr = Dest[fdTable[fd]]

(* A client is armed for writing exactly while part of an answer is still  *)
(* to be written.  Otherwise handle_write would find nothing to write and  *)
(* drop the connection, or an answer would wait for an event that no       *)
(* filter asks for.                                                        *)
InterestFollowsOutput ==
    \A fd \in DOMAIN clients :
        interest[fd] = "write" <=> /\ clients[fd].out # "none"
                                   /\ clients[fd].written < ResponseLen

(* No lost wakeup: a client that waits for input has no decidable request  *)
(* in its buffer.  Level triggering does not help here, as bytes already   *)
(* moved to inbuf raise no event; finish_response's last call to           *)
(* try_dispatch is what picks up a pipelined request.                      *)
NoStrandedRequest ==
    \A fd \in DOMAIN clients :
        clients[fd].out = "none" => Verdict(fdTable[fd], clients[fd]) = "need_more"

(* inbuf ends where the server has read up to and starts at a boundary     *)
(* between requests, however reads split the stream; an answer's pending   *)
(* bytes are exactly its request, and wholly buffered, so finish_response  *)
(* neither eats the next request nor leaves a tail of this one.            *)
BuffersMatchStream ==
    \A fd \in DOMAIN clients :
        LET p == fdTable[fd]
            c == clients[fd]
        IN  /\ c.hi = sock[p].read /\ sock[p].read <= sock[p].sent
            /\ c.lo <= c.hi
            /\ c.lo = StreamLen[p] \/ StartsAt(p, c.lo)
            /\ c.out = "ok" => /\ StartsAt(p, c.lo)
                               /\ c.pending = RequestAt(p, c.lo).len
                               /\ c.lo + c.pending <= c.hi

(* Where the last request of p that was answered ends.                     *)
AnsweredUpTo(p) ==
    IF replies[p] = <<>> THEN 0
    ELSE LET last == replies[p][Len(replies[p])]
         IN  last.at + RequestAt(p, last.at).len

(* Nothing is skipped: while a connection lives, its buffer starts where   *)
(* the last answered request ended, so each request has its answer before  *)
(* the next one is looked at, and pipelined bytes are not thrown away.     *)
NothingSkipped ==
    \A fd \in DOMAIN clients : clients[fd].lo = AnsweredUpTo(fdTable[fd])

(* Every event still to be dispatched is about the connection that was     *)
(* behind its descriptor when it was polled, though accept_all may hand    *)
(* out closed descriptors again within the same batch, and the system call *)
(* it leads to finds something to do: none of the handlers' `None`, EAGAIN *)
(* and nothing-left-to-write arms is reached.                              *)
EventsAreFresh ==
    \A e \in events :
        \/ e.fd \in Addrs
        \/ /\ e.fd \in DOMAIN clients
           /\ fdTable[e.fd] = e.conn
           /\ LET s == sock[e.conn]
              IN  \/ e.readable /\ (s.sent > s.read \/ s.peer # "alive")
                  \/ /\ ~e.readable /\ e.writable
                     /\ clients[e.fd].out # "none" /\ clients[e.fd].written < ResponseLen
                     /\ s.sndq < SendBuf \/ s.peer = "reset"

Ascending(s) == \A i \in 1 .. Len(s) - 1 : s[i] < s[i + 1]

(* Each request of a connection is given to http::handle at most once, and *)
(* in stream order, unless the connection was reset.  A request has side   *)
(* effects (an upload, a DELETE, a CGI run, a counted visit).              *)
HandledOnce ==
    \A p \in Peers : sock[p].peer # "reset" => Ascending(handled[p])

(* The same with no exception for connections that were reset.  The epoll  *)
(* backend does not keep it.                                               *)
HandledOnceAlways == \A p \in Peers : Ascending(handled[p])

(* What epoll.rs says of EPOLLHUP and EPOLLERR: the handler they lead to   *)
(* removes the client.  It is they alone that make a descriptor readable   *)
(* whose client waits to write.  The code does not keep it: the read finds *)
(* the bytes queued before the reset and the request is dispatched again.  *)
HangupRemovesClient ==
    [][\A e \in events \ events' :
          e.fd \in DOMAIN clients /\ e.readable /\ interest[e.fd] = "write"
              => e.fd \notin DOMAIN clients']_vars

(* An answer that is being written is not replaced, rewound or dropped for *)
(* another: the bytes the peer gets belong to one answer.                  *)
AnswerUndisturbed ==
    [][\A fd \in DOMAIN clients \cap DOMAIN clients' :
          LET c == clients[fd]
              d == clients'[fd]
          IN  c.out # "none" /\ d.lo = c.lo => /\ d.out = c.out
                                               /\ d.written >= c.written
                                               /\ d.pending = c.pending]_vars

(* The answers of a connection are those of the abstract service.          *)
Status(p) ==
    CASE sock[p].st \in {"new", "backlog"} -> "new"
      [] sock[p].st = "open" -> "open"
      [] OTHER -> "done"

Service == INSTANCE PipelinedService
    WITH status <- [p \in Peers |-> Status(p)],
         sent <- [p \in Peers |-> sock[p].sent],
         answers <- replies

(* Requests are answered one at a time, in stream order, and only once     *)
(* sent; nothing follows an error answer or a close.                       *)
ImplementsService == Service!SSpec

-----------------------------------------------------------------------------
(***************************************************************************)
(* Liveness.  The process is scheduled and poll returns at least once a    *)
(* second; time passes; and, in FairSpec, each peer takes the bytes queued *)
(* for it.  Nothing makes a peer connect, send or close.                   *)
(***************************************************************************)

ServerFairSpec == Spec /\ WF_vars(ServerStep) /\ WF_vars(Tick)

FairSpec == ServerFairSpec /\ \A p \in Peers : WF_vars(Receive(p))

(* "No hanging connections" (sweep_timeouts): every connection that is     *)
(* accepted is at last closed, however slow or silent its peer is.  Holds  *)
(* under FairSpec; a peer that never reads defeats it.                     *)
ConnectionsEnd == \A p \in Peers : sock[p].st = "open" ~> sock[p].st # "open"

(* Every connection is at last accepted, though the descriptors may be     *)
(* used up when it arrives.                                                *)
ConnectionsStart == \A p \in Peers : sock[p].st = "backlog" ~> sock[p].st # "backlog"
=============================================================================
