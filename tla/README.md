# servoxide in TLA+

This directory is a verification development for
[servoxide](../src/README.md), the single-threaded HTTP/1.1 server under
`src/lc`. It holds TLA+ modules translated from the Rust source, the TLC
configurations that check them on small instances, and proofs that TLAPS
checks for every value of the constants. `PROJECT.json` lists the components,
the runs, the source lines each definition stands for, the mutants that show
each property can fail, the findings and the hazards.

Paths such as `server/mod.rs:385` are below `src/lc/src/`.

## 1. Inventory

| Component | State it keeps | Operations | Interacts with |
|---|---|---|---|
| **Event loop and connections** `server/mod.rs` | `clients` (per descriptor: `inbuf`, `outbuf`, `written`, `keep_alive`, `pending_len`, `last_activity`), `events` of the current tick | `run`, `accept_all`, `handle_read`, `try_dispatch`, `queue_response`, `respond_error`, `handle_write`, `finish_response`, `remove_client`, `sweep_timeouts` | poller (registrations, events), kernel sockets, framing, router, sessions |
| **Pollers** `poll/epoll.rs`, `poll/kqueue.rs` | the kernel's registrations | `add`, `modify`, `delete`, `poll` | event loop |
| **Virtual hosts** `server/mod.rs` `bind`, `select_server` | `addresses`, `listener_addr` | one listener for each address, the block for a request | configuration, `net.rs`, event loop |
| **Configuration** `config/` | tokens, errors, server blocks | tokenizer, recursive descent with recovery, validation across blocks | virtual hosts (`Config`) |
| **CGI runner** `cgi/mod.rs` | two pipes and a child process for one call | `execute`, `write_all`, `read_until_eof` | called from the router inside `try_dispatch`; the child runs concurrently |
| **Request framing** `http/request.rs` | none (functions of `inbuf`) | `parse_head`, `body_mode`, `decode_body`, `decode_chunked` | event loop |
| **Router** `http/router.rs` | the file system | `handle`, `best_route`, GET, uploads, DELETE, `try_cgi`, `parse_cgi_output` | event loop, CGI runner |
| **Sessions** `cookies/mod.rs` | `sessions` | `touch`, `evict_expired`, `random_id` | event loop |
| **Responses** `http/mod.rs`, `response.rs`, `mime.rs` | none | formatting, tables, `wants_keep_alive` | router |
| **Listening sockets** `net.rs` | none | `bind_listener`, `set_nonblocking` | virtual hosts, event loop |
| **Bootstrap** `main.rs` | none | read, parse, bind, run | all |

There is one thread and no lock. The concurrency is between that thread, the
kernel, the peers and the CGI processes: bytes, half-closes and resets arrive
between any two handlers of one batch of events; a script runs while the
server feeds and reads it. The hard behaviours are these:

* *stale events*: a batch is dispatched one event at a time, and a handler may
  close a descriptor that `accept_all` hands out again in the same batch;
* *lost wakeups*: the poller is level-triggered, but bytes already moved to
  `inbuf` raise no event any more, so a pipelined request depends on
  `finish_response` alone;
* *buffer alignment*: `pending_len` is measured when a request is dispatched
  and drained when its answer has been written, several ticks later;
* *resets while an answer is being written*, which epoll and kqueue report
  differently;
* *timeouts* against progress: what `last_activity` does and does not measure;
* *limits*: descriptors, the batch size, the send buffer;
* *partial failures*: `accept`, `fcntl`, the poller's calls, `bind`, `pipe`,
  `fork`, `write`, `poll`, `read` and `execve`;
* *pipes*: EOF and EPIPE depend on the last process that holds the other end,
  and two processes that write to each other can block for ever;
* *files* that scripts and operators change between two system calls of one
  request;
* *lazy eviction*: sessions that are over stay in the map until the next
  request;
* *error recovery*: after a mistake the parser goes on in a block that may
  not be the one the author meant.

What makes the components correct:

* event loop: no leak and no mix-up of descriptors; each request answered at
  most once, in order, from the right bytes; no request or answer left behind;
  every connection ends;
* virtual hosts and configuration: a block is served unless an error that costs
  the block is reported of it; a request reaches the block that it names;
* CGI runner: all output and all input that is written pass; every call ends and leaves
  neither process nor descriptor behind;
* framing: a request ends where its framing says, whatever the splitting of
  the stream, and limits hold;
* configuration parser: it ends on any file, accepts exactly the well-formed
  ones in silence, and reads a well-formed block whatever is broken around it;
* router: no effect outside the route, and answers that tell what was done,
  also when a call fails half-way or others change the files meanwhile;
* sessions: one client in each, visits counted once, expiry on time.

## 2. Modules

| Module | What it is |
|---|---|
| `EventLoop` | the event loop, a poller of either kind, the kernel's sockets, the peers and the clock |
| `PipelinedService` | what one connection promises its peer, without buffers and descriptors; `EventLoop` implements it |
| `EventLoop_proofs`, `EventLoopService_proofs` | the theorems about `EventLoop`: its invariants, and what a peer is promised |
| `RequestDeadline` | `EventLoop` with one more history clock, for what `REQUEST_TIMEOUT` is said to mean |
| `CgiRunner` | one or more calls of `cgi::execute`, with a script and a process it may start |
| `ConfigParser` | the tokenizer and the recursive descent over a configuration file, against a grammar |
| `VirtualHosts` | validation of server blocks, grouping into addresses, binding, `select_server` |
| `RequestFraming` | how `inbuf` is cut into requests, against a reference grammar |
| `Router` | `http::handle` on a disk that others change too |
| `SessionStore` | `cookies::SessionStore`; it implements `SessionService` |
| `SessionService` | what the session cookie promises, without a map and eviction |
| `Application` | `Router` and `SessionStore` as `try_dispatch` calls them, and the clients that keep the cookies |
| `CgiRunner_proofs`, `ConfigParser_proofs`, `VirtualHosts_proofs`, `RequestFraming_proofs`, `Application_proofs` | the theorems about the module of that name |
| `Recursion` | induction, recursion and folds in a form that proofs can cite |
| `MCEventLoop`, `MCRequestDeadline`, `MCVirtualHosts`, `MCRequestFraming`, `MCConfigParser`, `MCApplication` | small instances for TLC |

The modules also hold their mutants: operators, marked as such, that no
specification uses. A mutant has the form of a plausible bug, and
replaces the definition that follows it in the run named in `PROJECT.json`.

### EventLoop

A handler of the code is one action, with every call it makes: `HandleRead` is
the `read`, the append to `inbuf`, `try_dispatch`, and `queue_response` or
`respond_error`, up to the registration. Nothing can come between, as there is
one thread; the environment's actions interleave between handlers, also within
a batch of events.

| Code | Model |
|---|---|
| `clients[fd]` | `clients[fd]`: `lo`, `hi` (the bytes `lo+1 .. hi` of the stream are in `inbuf`), `out` (what `outbuf` holds), `written`, `keep`, `pending`, `age` (now − `last_activity`) |
| the poller's registration | `interest[fd]`: `"read"` or `"write"` |
| `events`, the index `i` in `run` | `events`: those still to be dispatched, in any order |
| a tick of `run` | `Poll`, one `AcceptAll` / `HandleRead` / `HandleWrite` per event, `SweepTimeouts` |
| descriptor table, sockets | `fdTable`, `sock` (`sent`, `read`, `sndq` count bytes; `peer` is alive, half-closed or reset) |

Abstractions:

* A connection's input is a fixed stream whose bytes have no content;
  `Script[p]` says where requests begin and end in it, how many bytes decide
  them, and what `try_dispatch` decides: `keep`, `close` or `reject` (any
  `respond_error`). `Verdict` reads it as `parse_head`, `body_mode` and
  `decode_body` would; a buffer that does not begin at a request is malformed.
  Framing itself, the router and sessions are outside this module.
* An answer is `ResponseLen` bytes. The peer's window is `SendBuf`.
* Arms the code has and no step of the model takes: `EAGAIN` on `read` and
  `write`, the `None` arms for descriptors without a client, and "nothing left
  to write". `EventsAreFresh` and `InterestFollowsOutput` state that they
  cannot be reached, and both are proved. (A kernel that reports a descriptor
  ready and then returns `EAGAIN` would reach the first; it has no effect.)
* A poll that fails or is interrupted changes nothing; with `CtlMayFail` a
  poll may also return no event though some are ready.
* A peer sends only while the server has not closed the connection. Bytes that
  arrive later reach no handler.
* `SweepTimeouts` answers 408 and closes in one step, as the code does.

### CgiRunner

`pc` is where `execute` stands (`close`, `feed`, `drain`, `reap`). A step of
the server is one system call, since the script runs between any two of them.
`ends` says which processes hold which pipe end; EOF and EPIPE follow from it.
The script does anything (`Script = "any"`): reads, writes, starts a helper
that inherits its ends, closes its stdout and runs on (`MayDetach`), ends, or
never does any of it; or it copies its input to its output (`"echo"`). `Kill`
kills the child and not the helper. Preparing strings and the environment has
no effect other than to fail, which `ExecuteFails` includes.

`write_all` ends in three ways: all is written, nobody can read any more
(`EndBody`), or `write(2)` fails for another reason (`WriteFails`). After the
last, `execute` closes the script's stdin as after the others and says nothing
of it: the script reads a body that ends early and cannot tell, and the call may
still return `Ok`. `cut` remembers that this happened, and `BodyWhole` says that
nothing else shortens a body.

What `execute` does not notice either is a child that could not `execve` (or
`chdir`): it exits with 127, and the status that `waitpid` delivers is never
looked at. `cgi/mod.rs:12-14` promises "an error if the child could not be
spawned", and `GETTING_STARTED.md:425` a 500 for an interpreter that is missing;
the code returns `Ok` with no output. `OutputWhole` says that what is returned
then is empty.

A call has two waits without a deadline, in `write_all` and in `waitpid`.
`CallsReturn` names them (`WaitsForScript`): it says that there is no third, and
`cgi_echo` shows what the first one can come to.

### VirtualHosts

The phases of start-up in their order: `ParseServerBlock` (what a block yields),
`Validate` (one block, with `seen`, which keeps the
claims of dropped blocks too), `GroupPort` (one iteration of the inner loop of
`bind`), `Listen` (one address, which may fail), then `Request`s. A Host header
is the name in it, or none; `Fold` is the mapping to lower case. A block's
other directives decide nothing here. The host is compared as text in `parse`
and as octets in `bind`: `Ipv4Addr::from_str` accepts one text per address, so
one value stands for both.

A block may be reported *and* served. The parser passes over a directive that it
does not know or cannot read, one bad port among good ones, a token out of
place, or the missing `}` of the last block: all of these are a `"flaw"` here,
and the block goes on with what was read of it (`ConfigParser` has the
details). Three kinds of error cost the file the block, `Dropping`: `server`
without `{`, no port in the end, and a binding claimed before. `errors` says
which kinds were reported of each block. `KeptOrReported` ties these to the
blocks served, and says of those with a port which ones they are, in terms of
what the file says: those that repeat no port or name and claim nothing that an
earlier block claims.

An earlier block *served or not*: what a dropped block claimed stays claimed.
`config/mod.rs:84` and `GETTING_STARTED.md:413` ("Each `server` block is validated
independently; an invalid one is logged and skipped") ask for less to be
dropped, which the run `dropped_for_dropped` finds violated.

### RequestFraming

`ParseHead`, `BodyMode`, `DecodeBody` and `DecodeChunked` are the functions of
`http/request.rs` of the same names, as operators on a buffer; `Decide` puts
them together as `try_dispatch` does. A turn of the loop in `decode_chunked` starts
from its position and what it has collected so far; `Decoding` is the function
from these to the outcome, so that facts about the loop are facts about a
function. The machine around them is one connection: `Read` appends any number of bytes up to a read buffer's worth and
decides anew, `Finish` drains the answered request and decides on what is left.
A stream's elements are bytes, except that a request line and a header field
are one element each, so that headers may be repeated, malformed or contradict
one another without their spelling being modelled. A chunk's size is a word of
`MaxSize`; the sums that use it wrap, or panic when `OverflowChecks` is set,
and a slice out of range is a panic, after which the machine stops: the
properties say that no request comes of it, not that it cannot happen.

`Requests` is the reference: it says which ways there are to cut the front of a
stream into a head and a body, trying every position (`BodiesAt` for chunks,
`TrailerEnds` for what follows the last one), where the code scans forward
once. It shares with the code what a head means and what a size line
means, not where chunks and trailers begin and end.

`EventLoop`'s `Script` rests on this module: a stream is a sequence of
requests, each decided by a number of bytes of its own and not by how they
arrive (`SplitIndependent`, `NothingWithheld`), and the bytes drained are the
request's (`RequestsExact`). The one exception is a head beyond
`MAX_HEAD_BYTES`. The limit is looked at only while the end of the head is
missing, so such a head is refused or accepted according to how its last bytes
are split; the properties name this case.

### ConfigParser

`Tokenize` folds `Lex`, the body of the loop in `tokenize`, over the characters
of the text; a run of ordinary characters is one element. `ctx` says which loop of the descent the parser is
in (`parse`, `parse_server_block`, `parse_route_block`) and stands for the call
stack; an action is one iteration of that loop. `ReadDirective` is
`read_directive`, `ApplyServer` and `ApplyRoute` the two `match`es on a
directive's name; where one directive may both take effect and be reported
(`port 80 x`), both happen. `U16`, `Address` and `Bytes` say which words
`parse::<u16>`, `Ipv4Addr::from_str` and `parse_size` accept and with what
result, so that the arithmetic of `parse_size` is left out; so are line numbers
and the wording of errors. The blocks that come out are the ones `VirtualHosts`
starts from: there a block's other directives decide nothing.

`ComplaintsExact` says whether there are complaints, not which: where errors lie
close together the recovery may report one for several. It compares the parser with a grammar (`IsServer` and what it
rests on) that tries every way to cut the tokens. It shares with the code what a
single directive means (`ApplyServer`, `ApplyRoute`), not where directives,
routes and blocks begin and end. What a block means is defined on the grammar
too: `ServersMade` and `RoutesMade` apply the items of a block one after
another. So that these do not hide an error in what a directive does, the
assumption `BlocksMeant` of `MCConfigParser` writes out by hand the servers that
two blocks mean, one of them with every directive.

`BlocksStandAlone` is what `config/mod.rs:84` asks for ("one broken `server`
block does not take down the rest"). It speaks of blocks that stand outside
every other, and what "outside" means has one surprise, which `OpenBlocks`
spells out: `parse_route_block` consumes the token after `route` whatever it is
(`parser.rs:180`), also the brace that closes the server block. In

    server { port 82; route } server { port 80; }

the parser stays in the first block, reports the second `server` as an unknown
directive and reads its port into the first: the well-formed second block does
not exist, and the broken one is served on both ports. Without that case in
`OpenBlocks` TLC finds this file as a counterexample; `GETTING_STARTED.md:413`
("Each `server` block is validated independently; an invalid one is logged and
skipped") promises more than the code keeps here.

### Router, SessionStore and Application

`pc` is the system call that comes next; a step of `Router` is the code up to
it, so that `Meddle`, which is another process, comes between any two of them.
Every call may fail where its error arm says so. `acts` is a history of what
the request in progress did to files, and `resp` the answer: the properties
relate the two.

| Code | Model |
|---|---|
| `best_route`, `route_matches`, `relative_path` | `BestRoute`, `RouteMatches`, `Rel` over paths as sequences of segments |
| `route` up to the handlers | `NoRoute`, `Redirect`, `NotAllowed`, `TryCgi`, `Unservable` and the first step of each handler |
| `serve_get`, `serve_file`, `autoindex` | `ServeGet`, `GetMetadata`, `GetIndex`, `ServeFile`, `AutoIndex` |
| `try_cgi`, `parse_cgi_output` | `TryCgi`, `Canonicalize`, `Execute`, `ParseCgiOutput` |
| `handle_post`, `save_multipart`, `sanitize_filename` | `HandlePost`, `PartFiles`, `PartFilename`, `SanitizeFilename`, `CreateDirs`, `WriteFile`, `WriteFails` |
| `handle_delete` | `HandleDelete`, `DeleteMetadata`, `RemoveFile` |
| `SessionStore::touch`, `evict_expired`, `random_id` | `Touch`, `EvictExpired`, `RandomId` |
| steps 4 and 5 of `try_dispatch` | `Ask`, `Handle`, `CountVisit` |

Abstractions:

* Paths have no empty or `.` segment, and there are no links; `..` is a
  segment, and `Resolve` walks it as the kernel does, so that `Confined` could
  fail. A root stands for the directory it names, and holds no "..".
* `Encode` is the reference for what a multipart body is: parts put together as
  a client does. The router's operators take such a body apart. `EffectsAsAnswered`
  compares the files that were stored, in their order and byte for byte, with the
  parts the client made. It says nothing of a body that is no client's (`IsMade`),
  which `Confined` covers too, and nothing of redirects: the parser accepts any
  `u16` as a redirect's code (`config/parser.rs:336`), so that a redirect may
  answer 201.
* `part_filename` takes a file name that stands in quotes as it is
  (`FileName`), and one without quotes, which RFC 2183 allows, for the text up to
  the next quote or the end of all the part's headers (`LooseName`): with
  `filename=x` before `Content-Type: text/plain` the file is stored as `plain`.
  `Confined` covers both; what `EffectsAsAnswered` says of the names of an upload
  is for names in quotes, as `IsPart` has it and as clients send them.
* Each call into `std::fs` is one step. `create_dir_all` may stop after any of
  the directories it has to make; `fs::write` may fail before it opens the
  file or with any beginning of the data written.
* `Execute` ends with any of `Outputs` or an error; how it comes to that is
  `CgiRunner`'s subject. What the script itself does to files is `Meddle`.
* Listings, error pages, headers other than a script's, MIME types and
  `keep_alive` are left out.
* An age is a number of ticks up to the TTL. Only `touch` reads the clock, so
  time passes just before it. The id in a `Cookie` header is the header. A
  random id is one never drawn before; one made from the clock may be anything
  in `ClockIds`.

`CgiAnswerExact` is about an output as a script means it (`IsMeant`): lines of
fields with either line end, an empty line and a body, or text that has no empty
line. What other output becomes is `ParseCgiOutput`'s affair. The instance's
requests and outputs are all of this kind (`MadeAndMeant`, which TLC evaluates),
so that no case passes for want of one. `CgiAnswerExact` names one exception: `parse_cgi_output` looks for CRLF CRLF in
the whole output before it looks for LF LF, so that a script which ends its
fields with LF alone and has CRLF CRLF in its body loses the beginning of that
body to the fields.

## 3. Runs

Passing runs:

| Run | Instance | Shows |
|---|---|---|
| `event_loop_epoll` | 2 connections on 2 listeners, 2 descriptors, a stream of two pipelined requests and one refused on its head, reads of 2 bytes, answers of 2 bytes through a window of 1, failing calls, epoll; 342,565 states | the safety invariants, among them `NothingSkipped` (each request is answered before the next one is looked at), and `ImplementsService` |
| `event_loop_kqueue` | 2 connections that compete for 1 descriptor, kqueue, no failures; 47,809 states | `HandledOnceAlways`, `AnswerUndisturbed`: here with no exception for connections that were reset; `ConnectionsEnd`, `ConnectionsStart` |
| `cgi` | 2 calls, a body of 3 bytes through pipes of 2, 3 bytes of output, any script, detaching, helpers and failing calls, `write` among them; 30,497 states | `OutputWhole`, `BodyWhole`, `CleanReturn`, `CallsReturn` |
| `virtual_hosts` | all files of up to 3 blocks over 2 hosts, 4 port lists (none, one, two, one twice) and 4 name lists (with names that differ in case alone), any block without its brace, flaws in at most one, failing listeners; 2,069,208 states, the hosts being symmetric | `KeptOrReported`, `AddressesExact`, `NamedServerAnswers`, `OwnersAnswer` |
| `request_framing` | 11,672 streams: 12 heads (framed by length, by chunks, by both, twice, not at all, malformed) with up to two pieces after them, and a chunked head with up to four, among them whole chunks, sizes, fragments and pipelined heads; reads of 1 to 4 bytes; 216,259 states | `RequestsExact`, `NothingWithheld`, `SplitIndependent`, `RefusedForCause`, `BufferBounded` |
| `application` | 3 requests out of 19 by 2 clients to 5 routes (a default file, a listing, scripts, a redirect, none of it) over 9 paths, with one change by others at any moment, failing calls, 6 outputs of scripts, 3 ids of which one comes from the clock; 418,241 states | `Confined`, `RefusedLeavesNoTrace`, `EffectsAsAnswered`, `CgiAnswerExact`, `OneClientPerSession`, `ImplementsSessions` |
| `config_parser` | 30,744 files of up to four lines, out of 13 fragments and a small block, and a block with every directive before or after up to two of them; 307,651 states | `ComplaintsExact`, `BlocksStandAlone`, `ParsingEnds` |

Runs that find the code at odds with what is said of it (each is a finding in
`PROJECT.json`, with the quotation):

| Run | Counterexample |
|---|---|
| `hangup_while_writing` | epoll: a request is handled, the peer resets with more bytes queued while the answer is being written, the next event is a read that finds those bytes; the client is not removed and the request is handled again |
| `slow_reader` | a peer that takes nothing is skipped by every sweep |
| `trickled_request` | one byte in each window keeps a partial request alive |
| `cgi_echo` | server and script both block in `write`; the deadline has not started |
| `dropped_for_dropped` | a block names port 80 twice and is dropped; the next one, well-formed and on port 80, is dropped as its duplicate; nothing is left to serve |

`config/mod.rs:25` says that an empty `server_names` "means this is the default
for its `host:port`". The code does not do that either: the default is the block
declared first, whatever its names, which is what `OwnersAnswer` states.

The bounds and why the cases of interest happen within them (what section 4
proves holds beyond them):

* *Connections, descriptors.* Two connections are the least for reuse of a
  descriptor within a batch (one closes, one is accepted), for accepts at the
  limit, and for addresses that could be mixed up.
* *Streams.* The three-byte stream has a request that a read can split, one
  that a read can deliver together with the tail of the first, and one that
  closes; the other stream is refused before its body has come, so that the
  connection is closed with unread input.
* *Answers and window.* An answer of two bytes and a window of one force a
  partial write; each event is one write, as in the code.
* *Batch.* `MaxEvents` is 4, above what two connections and two listeners can
  make ready at once; smaller batches behave as an earlier poll would.
* *Timeouts.* 1 and 2 ticks keep them apart; ages are saturated, as nothing
  depends on them beyond `IdleTimeout`.
* *CGI.* The body exceeds its pipe, so that `write_all` blocks; the output
  exceeds its pipe; the deadline can pass before, between and after reads. Two
  calls show that one leaves nothing behind for the next.
* *Framing.* A head can be longer than `MaxHead` (9) and shorter; bodies reach
  the limit of 4 bytes in two chunks and exceed it in three; data holds line
  ends and digits that look like framing; sizes reach the top of the word.
* *Blocks.* Three are the least for a block that is dropped because of one that
  was dropped because of another. A flaw changes what is read of its block, which
  is any block here, and what is reported of it alone, so that one flawed block
  (`MaxFlawed`) among sound ones shows all there is to see; what it does to the
  blocks around it is `ConfigParser`'s subject. Two with one address, one name and two spellings make every
  ambiguity that `select_server` can meet.
* *Requests.* Three are the least for a session that is begun, revisited and
  met again after it has expired; and for an upload, a DELETE and a look at the
  result. Two parts make an upload that stops half-way. One change by others
  suffices to fall between two calls of a request; it may replace a file by a
  directory and take a whole directory away.
* *Lines.* Four are the least for a block that is left open, a route in it, an
  unexpected token and a block after it.

`CHECK_DEADLOCK FALSE` is set for `CgiRunner`, `VirtualHosts`,
`RequestFraming`, `ConfigParser` and `Application`: a bounded number of calls
or requests ends, a configuration without servers ends the program, a stream is
at last used up, and so is a file.
`EventLoop` never stops.

### Fairness

* `ServerFairSpec`: weak fairness of the server's step and of the clock. The
  thread is scheduled, `poll` waits a second at most, and no handler blocks
  (CGI calls, which can, are `CgiRunner`'s subject).
* `FairSpec` adds weak fairness of each peer's taking of bytes. The code cannot
  justify it, which is what the run `slow_reader` shows: without it
  `ConnectionsEnd` fails. No peer is ever assumed to connect, send or close.
* `CgiRunner!FairSpec`: the server's calls, the clock and the child's part of
  `execute` (up to `execve` or its failure) go on: system calls that do not block,
  in processes that are scheduled. The script owes nothing. `DiligentSpec` adds that the script does not idle, so that the
  deadlock of `cgi_echo` cannot be blamed on it.
* `ConfigParser!FairSpec`: the parser's loops go on; nothing blocks them.

No action uses strong fairness.

## 4. Proofs

TLAPS checks the theorems below for every value of the constants that the named
assumptions allow. The assumptions say what kind of thing a constant is, and
little more; TLC evaluates each of them on a run.

| Proved | About | From |
|---|---|---|
| `TypeOK`, `DescriptorsAgree`, `InterestFollowsOutput`, `NoStrandedRequest`, `BuffersMatchStream`, `EventsAreFresh` | `EventLoop` | `ConstAssumption`, `ScriptAssumption` |
| `NothingSkipped`, `HandledOnce`, `HandledOnceAlways` and `AnswerUndisturbed` on kqueue, `UndisturbedStep` on both backends, `ImplementsService` | `EventLoop` | the same |
| `TypeOK`, `OutputWhole`, `BodyWhole`, `CleanReturn` | `CgiRunner` | `CgiAssumption` |
| `TypeOK`, `ComplaintsExact`, `BlocksStandAlone`, and `Closer` (every iteration comes closer to the end) | `ConfigParser` | `ParserAssumption` |
| `TypeOK`, `KeptOrReported`, `AddressesExact`, `NamedServerAnswers`, `OwnersAnswer` | `VirtualHosts` | `HostsAssumption` |
| `TypeOK`, `RequestsExact`, `NothingWithheld`, `SplitIndependent`, `RefusedForCause`, `BufferBounded` | `RequestFraming` | `FramingAssumption` |
| `OneClientPerSession`, `RefusedLeavesNoTrace`, `ImplementsSessions` | `Application` | `StoreAssumption` |
| `TypeOK`, `Confined`, `EffectsAsAnswered`, `CgiAnswerExact` | `Application` | `RouterAssumption`, `StoreAssumption` |
| `UploadUnderstood`, `OutputUnderstood` (about `PartFiles` and `ParseCgiOutput`) | `Router` | none |

None of the invariants that matter is inductive. Each module of proofs begins
with the strengthening that is. TLC checked each of them on an instance before
it was proved, but for `ConfigParser`'s `IInv`, which quantifies over any set of
blocks; there it checked `TypeOK`, `Closer` and all of `DInv`.

### EventLoop

That a pending event still finds something to do rests on what its client waits
for; that on what its buffer and answer are; that on the tables naming one
connection per descriptor. `IInv` is the conjunction of three parts:

* `TypeOK`;
* `TablesOK`: `DescriptorsAgree`, the sockets' counters, and for each client
  `ClientOK` (its buffer against the stream, its registration against its
  answer, no decidable request while it waits for input);
* `EventsOK`: the events of a batch name distinct descriptors, and each leads
  to a system call with something to do.

The proof follows the code's structure. Lemmas about a client's record
(`WithResponseOK`, `DrainedOK`, ...) come first, then one for each operator
that handlers share (`RemoveClientsOK`, `ArmOK`, `QueueResponseOK`,
`TryDispatchOK`), each saying that `TablesOK` survives and that no other
descriptor is touched; `HandlerOK` concludes that a handler of one event keeps
`EventsOK`, as the others' events are about other descriptors. The one handler
that makes descriptors is `AcceptAll`: what keeps it from reviving a stale
event is that `EventsOK` ties each remaining event to an *open* descriptor,
and `AcceptAll` only takes closed ones. One lemma per action, then `InitOK`,
`NextOK` and `Invariance`.

What a peer is promised is about histories: which requests were handled, which
were answered. `HInv` (in `EventLoopService_proofs`) ties them to the state of
the connection's client: its buffer begins where the last answer ended, nothing
beyond its first request was handled, that one exactly while its answer is
unfinished, and a client that is writing is told to read only by a hangup that
epoll reports. That last part is where the backends differ, and what the
exception for reset connections in `HandledOnce` is about. `IInv /\ HInv` is
inductive; the histories' properties follow, and each step of the event loop is
shown to be a step of `PipelinedService` for its connection, or none.

### CgiRunner

`OutputWhole` and `BodyWhole` speak of bytes, and rest on who holds which pipe
end. `IInv` joins a law of conservation for each pipe (`BytesKept`) with that
bookkeeping: where the server stands decides what it holds (`ServerEnds`); a
dead process holds nothing, and neither script nor helper holds an end that
would hide an end of file from itself (`ScriptEnds`); when somebody can still
read the input after the server stopped writing, all of it is written or
`write(2)` has failed, and a child that has not come to its script has written
nothing (`PhaseOK`).

### ConfigParser

What `tokenize` yields is a sequence of words (`TokensTyped`, by folding `Lex`,
the body of its loop). From there `IInv` needs little: the position stays within
the file or just behind it, and the block being read has ports that parse. What
takes an argument is that parsing ends. An iteration that consumes a token comes
closer to the end of the file; one that consumes none leaves a loop for the one
around it, or the parser. `Variant` counts both, two for each token left and one
for each loop that is open (`Rank`), and `EveryTurnCloser` says that every
iteration lowers it: a file of *n* tokens takes at most 2*n* + 1 iterations. That
the loops then do go on (`ParsingEnds`) is a matter of fairness and stays with
TLC.

That the parser recognises the grammar (`RecognisesTheGrammar`) is shown from
both ends of the file. `WellRead` says that the tokens before the position are
cut as the grammar wants: whole servers, and then the beginning of a block that
opened at some place *a* (`BlockRead`). `WellLeft` says the same of the tokens
from the position on, up to some place *b* where the block that the parser is in
ends (`BlockLeft`). `Descent` ties them to the errors: while nothing is
reported, all that is read is well formed, and if the grammar cuts the whole
file, nothing is reported and all that is left is. An iteration that reports
nothing has consumed one item of the grammar (`BlockReadOn`), and one before
which an item is left consumes that item and no other (`BlockLeftOn`): where
items may begin and end is decided by one token (`Aligned`, `NextServerItem`).

`BlocksKept` follows one block that is well formed and outside every other,
through a file of which nothing else is known. `Stands` lists where it may be:
ahead, being read without a complaint, or behind, with a server it means among
`servers`. It is not passed over because the parser, where it is in a block, is
so at a token where `OpenBlocks` counts one at least (`Depth`), through
every recovery from an error and for every token that an iteration consumes
(`Inside`). It is not spoilt because errors are behind the position
(`ErrorsBehind`), so that what is reported of other blocks is told from what
is reported of this one.

### VirtualHosts

Start-up is a pipeline, and `IInv` says what each phase has done so far: which blocks were reported of and for what, and which are
kept or still to be validated (`Accounted`), that `seen` is what the blocks
validated so far claim, dropped ones too (`Claimed`), what those kept claim
claimed once (`Disjoint`), addresses exact for the ports entered so far
(`Grouping`, with `Under` for "so far"). `SelectExact` is about `SelectServer`
alone: the first block of an address that matches, or the first. Together they
give what a request is promised.

### RequestFraming

The invariant `FInv` is small: the decision is the one for the bytes in the
buffer, and the requests handled follow one another. What has to be shown is
about functions of a buffer, and comes in three parts:

* a decision stands when more bytes arrive (`DecideStands`), except for the one
  about an overlong head;
* what is waited for reaches beyond the buffer (`DecideReaches`);
* a decision agrees with the reference (`DecideAgrees`): nothing is waited for
  or refused as malformed that the reference knows, a body refused for its size
  exceeds the limit, and an accepted one is the reference's.

The loop of `decode_chunked` and the reference are both recursive functions,
one by positions and collected bytes, the other by positions alone. That their
defining equations have a solution is not a matter of course (a `CHOOSE` defines
them), and is proved from a measure, the bytes left (`TurnsEnd`,
`LeftMeasures`); so `decode_chunked` ends. `TurnInduction` then carries each
fact from a turn to the turns before it. `FramingAssumption` keeps streams
shorter than the machine word, so that positions do not wrap. Sizes of chunks
may have any value, and what the sums with them do at the top of the word is
part of what is proved, with and without overflow checks.

### Application

`SInv` says what ids have been given out (`SessionsHeld`), that a client keeps at
most one and its own (`JarsApart`), and that a request has touched files only
while it writes (`TracesKept`). `touch` is reduced to two cases (`TouchCases`: a
live session is counted, or one begins under an id that is new or comes from
the clock). The abstract store ends sessions at once where the code keeps them
until the next request; the refinement mapping forgets the expired ones, so
that `EvictExpired` changes nothing (`LeftExact`) and time's passing is a step.

`Confined` looks at what a request did; why it holds is in what it is about to
do. `RInv` says of a request whose next step is a system call that its route
allows it (`Entitled`), that the path it will name, and that of each file of an
upload still to be written, has no `..` and begins with the route's root, and
that it is not the root itself where it will be written or removed (`TargetOK`).
Such a path leads where it says (`ResolveStraight`), so that each entry of `acts` is inside (`ActsOK`).
That the loop over the routes finds the most specific one (`BestRouteExact`) and
that no name in a multipart body leads out of the root (`PartFileNamed`,
`PartFilesBelow`) are folds over a sequence. `DiskOK` is the shape of the disk:
what is there is in a directory. It survives every call, also a
`create_dir_all` that stops half-way (`DirsMade`) and another process between
any two calls (`MeddleKeepsDisk`).

`EffectsAsAnswered` compares an answer with what was done over several calls, any
of which may fail. `EInv` says how far an upload has come at each of them: before
a file is written, `acts` is the directory that was made, if any, and the first
files of the upload, and `todo` is the rest of it (`StoredSome`); once there is an
answer, it is one of the cases that the answer may stand for (`Told`). Without the
link between `acts` and `todo` a 201 says nothing. The files are those that the
router found in the body (`Files`); that they are those the client put there
(`AskedFiles`) is `UploadUnderstood`, a fact about data: for any parts without the
delimiter and with names in quotes, cutting their encoding at delimiters gives their texts back
(`SegmentsEncoded`), and cutting such a text at its line ends and its first empty
line gives the part's name and content back, byte for byte, also when the content
is made of line ends (`PartFileExact`). `CollectTakes` then folds over the parts.

`CgiAnswerExact` is a fact about data, too, `OutputUnderstood`, and `OneRun`: a
request runs one script at most, nothing else is done for it, and the answer is
made from that script's output. The argument of `OutputUnderstood` is about line
ends: in lines as a script prints them one line end follows another nowhere, but
after the last line (`LinesPrinted`), so that the first empty line is the one the
script meant (`SeparatorFound`), unless lines end with LF and CRLF CRLF occurs in
the body. The exception is what the proof needs, no more.

`RouterAssumption` says that a root stands for the directory it names, that a default file
is one below its directory, and that the disk has this shape at first. It says
nothing of the paths that are requested or the names that are sent.

### Recursion

The library's induction theorems take an operator as a parameter, which the
provers cannot instantiate. Here the formula to be proved is a *set*, of the
elements it holds of: `MeasureInduction` says that a set which inherits
membership along a measure is everything, `RecursiveFunction` that equations
whose calls lower a bounded measure have a solution, `ChainRecursion` and
`FoldExists` specialise it to loops and to folds over a sequence. `FoldOf` is a
fold whose step is a function, and `FoldLaws` what one appended element does to
it; an operator defined by `FoldLeft` is shown to be such a fold (`PiecesLaws`,
`EncodedLaws`, `OnlyLaws` and others in `Application_proofs`), after which
`SequenceInduction` carries facts from a sequence to one with one element more.

### Only model-checked

Liveness: `ConnectionsEnd`, `ConnectionsStart`, `CallsReturn`, `ParsingEnds`.
It needs fairness and `ENABLED`, which the prover does not do. Every other
property of a passing run is proved.

## 5. Not modelled

* The content of answers, headers, MIME types, directory listings, error pages
  and log output: formatting that no property here is about.
* `parse_size`'s arithmetic, `percent_decode`, the splitting of `Cookie` and
  `Content-Type` headers: functions of one string, which unit tests reach.
* `net.rs`: calls in a row that keep no state; their failure is modelled where
  they are called.
* Descriptors that a CGI child inherits (no socket is close-on-exec), and
  whether a peer still receives an answer when its connection is closed with
  unread input: effects beyond the process.
* Symbolic links: `has_traversal` looks at the path as it is written, and what
  a link below a root leads to is the operator's choice.

## 6. Plan

What was planned is modelled, and every property of a passing run that is no
liveness property is proved. Next would be the parts that section 5 leaves out
and that have a structure of their own: the arithmetic of `parse_size` with its
overflow, and the two changes per registration of kqueue as separate failures.
When the code changes, the runs tell whether the properties still hold, and the
lemmas, one per action, which argument has to be made again.
