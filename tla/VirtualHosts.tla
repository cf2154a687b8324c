---------------------------- MODULE VirtualHosts ----------------------------
(***************************************************************************)
(* From the server blocks of a configuration file to the block that        *)
(* answers a request: config::parse drops blocks without a port and        *)
(* duplicate bindings, Server::bind opens one listener for each address,   *)
(* however many blocks share it, and select_server picks the block for a   *)
(* request by the address it came in on and its Host header.               *)
(*                                                                         *)
(* A block is what parse_server_block makes of `server { ... }`: an        *)
(* address, its ports and its names, with the position it has in the file, *)
(* as far as they could be read: a directive that cannot be read, a token  *)
(* out of place or a missing `}` is reported, and the block goes on with   *)
(* what it has.                                                            *)
(* A Host header is the name it holds, its `:port` being cut off.          *)
(***************************************************************************)
EXTENDS Naturals, Sequences, FiniteSets

CONSTANTS
    Hosts,          \* bind addresses
    PortLists,      \* the port lists a block may have
    NameLists,      \* the server_name lists a block may have
    Headers,        \* the names a Host header may hold
    Fold,           \* Fold[n]: the name n in lower case
    MaxServers,     \* blocks in the file (bounds the model)
    MaxFlawed,      \* blocks with a flaw that does not drop them (bounds it)
    BindMayFail     \* may bind, listen and the poller fail?

NamesIn(l) == {l[i] : i \in 1 .. Len(l)}

(* No Host header, and the name "" that stands for "no server_name".       *)
NoHost == "no host"
Nameless == ""

Names == UNION {NamesIn(l) : l \in NameLists}

ASSUME HostsAssumption ==
    /\ \A l \in PortLists : l \in Seq(Nat)
    /\ \A l \in NameLists : l \in Seq(Names)
    /\ Names \cap {Nameless, NoHost} = {} /\ NoHost \notin Headers
    /\ DOMAIN Fold = Names \cup Headers
    /\ {MaxServers, MaxFlawed} \subseteq Nat /\ BindMayFail \in BOOLEAN

VARIABLES
    phase,      \* "parse", "validate", "group", "listen", "serve" or "failed"
    blocks,     \* history: blocks read from the file
    servers,    \* those that parse_server_block returned
    errors,     \* errors[n]: the kinds of error reported for block n
    seen,       \* the (host, port, name) triples claimed so far
    kept,       \* Config::servers
    todo,       \* how much of servers, kept or addresses is done
    port,       \* in "group": the port of kept[todo] that is next
    addresses,  \* Server::addresses
    listeners,  \* bound listeners: <<host, port>> -> index into addresses
    chosen      \* the last request and the index of the server that got it

vars == <<phase, blocks, servers, errors, seen, kept, todo, port, addresses,
          listeners, chosen>>

(* Kinds of error: a flaw inside a block, as above, and three that each    *)
(* cost the file the block, as `server` is not followed by `{`, no port    *)
(* was read, or a binding is claimed already.                              *)
Dropping == {"no brace", "no port", "duplicate"}
Kinds == Dropping \cup {"flaw"}

(* A block that has a port.                                                *)
Block == [nr : 1 .. MaxServers, host : Hosts, ports : PortLists \ {<<>>},
          names : NameLists]
Address == [key : Hosts \X Nat, servers : Seq(Nat)]

NoRequest == [at |-> <<>>, host |-> NoHost, server |-> 0]

-----------------------------------------------------------------------------
(***************************************************************************)
(* config::parse.                                                          *)
(***************************************************************************)

FlawedBlocks == {n \in 1 .. blocks : "flaw" \in errors[n]}

(* Mutant: a block without a port is reported, and kept.                   *)
ParseKeepsPortless ==
    /\ phase = "parse" /\ blocks < MaxServers
    /\ blocks' = blocks + 1
    /\ \E h \in Hosts, ps \in PortLists, ns \in NameLists :
          /\ errors' = [errors EXCEPT ![blocks'] = IF ps = <<>> THEN {"no port"} ELSE {}]
          /\ servers' = Append(servers, [nr |-> blocks', host |-> h, ports |-> ps,
                                         names |-> ns])
    /\ UNCHANGED <<phase, seen, kept, todo, port, addresses, listeners, chosen>>

(* parse_server_block.  Without its `{` there is no block to read.  Flaws  *)
(* in it are reported and passed over.  If it has no port after all, it is *)
(* reported and dropped, else it is returned, flaws or not.                *)
ParseServerBlock ==
    /\ phase = "parse" /\ blocks < MaxServers
    /\ blocks' = blocks + 1
    /\ \/ errors' = [errors EXCEPT ![blocks'] = {"no brace"}] /\ UNCHANGED servers
       \/ \E h \in Hosts, ps \in PortLists, ns \in NameLists, flaws \in SUBSET {"flaw"} :
             /\ flaws = {} \/ Cardinality(FlawedBlocks) < MaxFlawed
             /\ \/ /\ ps = <<>>
                   /\ errors' = [errors EXCEPT ![blocks'] = flaws \cup {"no port"}]
                   /\ UNCHANGED servers
                \/ /\ ps # <<>>
                   /\ errors' = [errors EXCEPT ![blocks'] = flaws]
                   /\ servers' = Append(servers, [nr |-> blocks', host |-> h,
                                                  ports |-> ps, names |-> ns])
    /\ UNCHANGED <<phase, seen, kept, todo, port, addresses, listeners, chosen>>

EndOfFile ==
    /\ phase = "parse"
    /\ phase' = "validate" /\ todo' = 1
    /\ UNCHANGED <<blocks, servers, errors, seen, kept, port, addresses, listeners, chosen>>

NamesOf(s) == IF s.names = <<>> THEN {Nameless} ELSE NamesIn(s.names)

(* The triples a block claims.                                             *)
Triples(s) == {<<s.host, p, n>> : p \in NamesIn(s.ports), n \in NamesOf(s)}

Repeats(l) == \E i, j \in 1 .. Len(l) : i # j /\ l[i] = l[j]

(* Mutant: a port or name that a block repeats goes unnoticed.             *)
ConflictOfOthers(s) == Triples(s) \cap seen # {}

(* A triple of s is claimed already, by an earlier block or by s itself.   *)
Conflict(s) == Triples(s) \cap seen # {} \/ Repeats(s.ports) \/ Repeats(s.names)

WithDuplicate(n) == [errors EXCEPT ![n] = @ \cup {"duplicate"}]

(* Mutants: conflicting blocks are kept; they are dropped in silence.      *)
KeepConflict ==
    /\ phase = "validate" /\ todo <= Len(servers)
    /\ LET s == servers[todo]
       IN  /\ seen' = seen \cup Triples(s)
           /\ kept' = Append(kept, s)
           /\ errors' = IF Conflict(s) THEN WithDuplicate(s.nr) ELSE errors
    /\ todo' = todo + 1
    /\ UNCHANGED <<phase, blocks, servers, port, addresses, listeners, chosen>>
DropSilently ==
    /\ phase = "validate" /\ todo <= Len(servers)
    /\ LET s == servers[todo]
       IN  /\ seen' = seen \cup Triples(s)
           /\ kept' = IF Conflict(s) THEN kept ELSE Append(kept, s)
    /\ todo' = todo + 1
    /\ UNCHANGED <<phase, blocks, servers, errors, port, addresses, listeners, chosen>>

(* A conflicting block is reported and dropped; its triples stay claimed.  *)
Validate ==
    /\ phase = "validate" /\ todo <= Len(servers)
    /\ LET s == servers[todo]
       IN  /\ seen' = seen \cup Triples(s)
           /\ \/ /\ Conflict(s)
                 /\ errors' = WithDuplicate(s.nr)
                 /\ UNCHANGED kept
              \/ /\ ~Conflict(s)
                 /\ kept' = Append(kept, s)
                 /\ UNCHANGED errors
    /\ todo' = todo + 1
    /\ UNCHANGED <<phase, blocks, servers, port, addresses, listeners, chosen>>

(* main gives up if nothing is left to serve.                              *)
Validated ==
    /\ phase = "validate" /\ todo > Len(servers)
    /\ phase' = IF kept = <<>> THEN "failed" ELSE "group"
    /\ todo' = 1 /\ port' = 1
    /\ UNCHANGED <<blocks, servers, errors, seen, kept, addresses, listeners, chosen>>

-----------------------------------------------------------------------------
(***************************************************************************)
(* Server::bind.                                                           *)
(***************************************************************************)

(* The addresses once server si is entered under key.                      *)
Entered(key, si) ==
    IF \E i \in 1 .. Len(addresses) : addresses[i].key = key
    THEN [i \in 1 .. Len(addresses) |->
             IF addresses[i].key = key
             THEN [addresses[i] EXCEPT !.servers = Append(@, si)]
             ELSE addresses[i]]
    ELSE Append(addresses, [key |-> key, servers |-> <<si>>])

GroupPort ==
    /\ phase = "group" /\ todo <= Len(kept)
    /\ LET s == kept[todo]
       IN  /\ addresses' = Entered(<<s.host, s.ports[port]>>, todo)
           /\ \/ port < Len(s.ports) /\ port' = port + 1 /\ UNCHANGED todo
              \/ port = Len(s.ports) /\ port' = 1 /\ todo' = todo + 1
    /\ UNCHANGED <<phase, blocks, servers, errors, seen, kept, listeners, chosen>>

Grouped ==
    /\ phase = "group" /\ todo > Len(kept)
    /\ phase' = "listen" /\ todo' = 1
    /\ UNCHANGED <<blocks, servers, errors, seen, kept, port, addresses, listeners, chosen>>

WithListener(key, i) ==
    [k \in DOMAIN listeners \cup {key} |-> IF k = key THEN i ELSE listeners[k]]

(* Mutant: listeners are numbered, not the addresses they stand for.       *)
ListenByCount ==
    /\ phase = "listen" /\ todo <= Len(addresses)
    /\ \/ listeners' = WithListener(addresses[todo].key, Cardinality(DOMAIN listeners) + 1)
       \/ BindMayFail /\ UNCHANGED listeners
    /\ todo' = todo + 1
    /\ UNCHANGED <<phase, blocks, servers, errors, seen, kept, port, addresses, chosen>>

(* One address is bound and registered with the poller; if either fails it *)
(* is logged and skipped.                                                  *)
Listen ==
    /\ phase = "listen" /\ todo <= Len(addresses)
    /\ \/ listeners' = WithListener(addresses[todo].key, todo)
       \/ BindMayFail /\ UNCHANGED listeners
    /\ todo' = todo + 1
    /\ UNCHANGED <<phase, blocks, servers, errors, seen, kept, port, addresses, chosen>>

Start ==
    /\ phase = "listen" /\ todo > Len(addresses)
    /\ phase' = IF DOMAIN listeners = {} THEN "failed" ELSE "serve"
    /\ UNCHANGED <<blocks, servers, errors, seen, kept, todo, port, addresses,
                   listeners, chosen>>

-----------------------------------------------------------------------------
(***************************************************************************)
(* select_server.                                                          *)
(***************************************************************************)

(* Does server block s carry name h, in whatever case?                     *)
Matches(s, h) == h # NoHost /\ \E n \in NamesIn(s.names) : Fold[n] = Fold[h]

(* The first block of the address that matches, else its first block.      *)
SelectServer(ai, h) ==
    LET list == addresses[ai].servers
        hits == {i \in 1 .. Len(list) : Matches(kept[list[i]], h)}
    IN  IF hits = {} THEN list[1]
        ELSE list[CHOOSE i \in hits : \A j \in hits : i <= j]

(* A request arrives on a listener.                                        *)
Request ==
    /\ phase = "serve"
    /\ \E key \in DOMAIN listeners, h \in Headers \cup {NoHost} :
          chosen' = [at |-> key, host |-> h, server |-> SelectServer(listeners[key], h)]
    /\ UNCHANGED <<phase, blocks, servers, errors, seen, kept, todo, port, addresses,
                   listeners>>

-----------------------------------------------------------------------------
Init ==
    /\ phase = "parse" /\ blocks = 0
    /\ servers = <<>> /\ errors = [n \in 1 .. MaxServers |-> {}] /\ seen = {} /\ kept = <<>>
    /\ todo = 0 /\ port = 0
    /\ addresses = <<>> /\ listeners = [k \in {} |-> 0]
    /\ chosen = NoRequest

Next ==
    \/ ParseServerBlock \/ EndOfFile
    \/ Validate \/ Validated
    \/ GroupPort \/ Grouped
    \/ Listen \/ Start
    \/ Request

Spec == Init /\ [][Next]_vars

-----------------------------------------------------------------------------
(***************************************************************************)
(* What must hold.                                                         *)
(***************************************************************************)

(* Every variable has its type.                                            *)
TypeOK ==
    /\ phase \in {"parse", "validate", "group", "listen", "serve", "failed"}
    /\ blocks \in 0 .. MaxServers
    /\ servers \in Seq(Block) /\ kept \in Seq(Block)
    /\ errors \in [1 .. MaxServers -> SUBSET Kinds]
    /\ seen \subseteq Hosts \X Nat \X (Names \cup {Nameless})
    /\ todo \in Nat /\ port \in Nat
    /\ addresses \in Seq(Address)
    /\ DOMAIN listeners \subseteq Hosts \X Nat /\ listeners \in [DOMAIN listeners -> Nat]
    /\ chosen = NoRequest \/ chosen \in [at : Hosts \X Nat, host : Headers \cup {NoHost},
                                         server : 1 .. Len(kept)]

Listens(s, key) == s.host = key[1] /\ key[2] \in NamesIn(s.ports)

Served(n) == \E i \in 1 .. Len(kept) : kept[i].nr = n

(* An error that costs the file block n was reported.                      *)
Fatal(n) == errors[n] \cap Dropping # {}

Overlap(s, t) == Triples(s) \cap Triples(t) # {}

(* Block i of servers repeats no port or name, and claims no binding that  *)
(* a block before it claims.                                               *)
Distinct(i) ==
    /\ ~Repeats(servers[i].ports) /\ ~Repeats(servers[i].names)
    /\ \A j \in 1 .. i - 1 : ~Overlap(servers[j], servers[i])

(* No block of the file is dropped in silence, and none that is kept was   *)
(* reported for more than flaws inside it: a block is served exactly if no *)
(* error that costs the block was reported.  Of the blocks with a port,    *)
(* those are served, in the file's order, that neither repeat a port or a  *)
(* name nor claim a binding that any block before them claims, be that one *)
(* served itself or not.                                                   *)
KeptOrReported ==
    phase \notin {"parse", "validate"} =>
        /\ \A n \in 1 .. blocks : Served(n) <=> ~Fatal(n)
        /\ \A i, j \in 1 .. Len(kept) : i < j => kept[i].nr < kept[j].nr
        /\ \A i \in 1 .. Len(servers) : Served(servers[i].nr) <=> Distinct(i)

(* "One broken server block does not take down the rest": a block with a   *)
(* port is dropped only if it is broken itself, or shares a binding with   *)
(* an earlier block that is served.  The code does not keep this: what a   *)
(* dropped block claimed before it was dropped stays claimed.              *)
DroppedForCause ==
    phase \notin {"parse", "validate"} =>
        \A i \in 1 .. Len(servers) :
            LET s == servers[i]
            IN  \/ Served(s.nr) \/ Repeats(s.ports) \/ Repeats(s.names)
                \/ \E k \in 1 .. Len(kept) : kept[k].nr < s.nr /\ Overlap(kept[k], s)

(* bind groups the blocks by address: no address has two listeners, a      *)
(* block is entered once, in order, under each of its addresses and under  *)
(* no other, and a listener leads to the address it is bound to, also when *)
(* an earlier address could not be bound.                                  *)
AddressesExact ==
    phase \in {"listen", "serve"} =>
        /\ \A i, j \in 1 .. Len(addresses) : addresses[i].key = addresses[j].key => i = j
        /\ \A s \in 1 .. Len(kept) : \A p \in NamesIn(kept[s].ports) :
              \E i \in 1 .. Len(addresses) : addresses[i].key = <<kept[s].host, p>>
        /\ \A i \in 1 .. Len(addresses) :
              LET a == addresses[i]
              IN  /\ NamesIn(a.servers) = {s \in 1 .. Len(kept) : Listens(kept[s], a.key)}
                  /\ \A j, k \in 1 .. Len(a.servers) : j < k => a.servers[j] < a.servers[k]
        /\ \A key \in DOMAIN listeners :
              listeners[key] \in 1 .. Len(addresses) /\ addresses[listeners[key]].key = key

(* The duplicate check makes select_server unambiguous: a request that     *)
(* names a block, on an address where that block listens, is answered by   *)
(* it; only a name that differs in case alone may belong to two blocks,    *)
(* and then the first of them answers.                                     *)
NamedServerAnswers ==
    chosen # NoRequest =>
        \A s \in 1 .. Len(kept) :
            /\ Listens(kept[s], chosen.at)
            /\ chosen.host \in NamesIn(kept[s].names)
            => \/ chosen.server = s
               \/ /\ chosen.server < s
                  /\ Listens(kept[chosen.server], chosen.at)
                  /\ \E n \in NamesIn(kept[chosen.server].names) :
                        n # chosen.host /\ Fold[n] = Fold[chosen.host]

(* Whoever answers listens on the address the request came in on, and a    *)
(* block that does not carry the request's name answers only if no block   *)
(* of that address does, and if it was declared first among them.          *)
OwnersAnswer ==
    chosen # NoRequest =>
        LET here == {s \in 1 .. Len(kept) : Listens(kept[s], chosen.at)}
        IN  /\ chosen.server \in here
            /\ ~Matches(kept[chosen.server], chosen.host)
                  => \A s \in here : chosen.server <= s /\ ~Matches(kept[s], chosen.host)
=============================================================================
