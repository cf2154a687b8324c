------------------------ MODULE VirtualHosts_proofs ------------------------
(***************************************************************************)
(* What is proved of VirtualHosts, for any addresses, port lists, names,   *)
(* headers and any number of blocks: its type invariant and its four       *)
(* invariants.                                                             *)
(***************************************************************************)
EXTENDS VirtualHosts, SequenceTheorems, Recursion, TLAPS

(* Blocks are numbered as they stand in the file.                          *)
Numbered ==
    /\ \A i \in 1 .. Len(servers) : servers[i].nr \in 1 .. blocks
    /\ \A i, j \in 1 .. Len(servers) : i < j => servers[i].nr < servers[j].nr

(* The blocks that were read and not yet validated, as indices of servers, *)
(* and those that were.                                                    *)
Pending == IF phase = "parse" THEN 1 .. Len(servers)
           ELSE IF phase = "validate" THEN todo .. Len(servers)
           ELSE {}
Done == (1 .. Len(servers)) \ Pending

(* Fatal and Served, of given errors and a given list of kept blocks.      *)
FatalIn(e, n) == e[n] \cap Dropping # {}
ServedIn(k, n) == \E i \in 1 .. Len(k) : k[i].nr = n

(* A block is kept, or an error that costs it was reported, or it is still *)
(* to be validated; those kept are in the order of the file, and before    *)
(* those to come.                                                          *)
Accounted ==
    /\ \A i, j \in 1 .. Len(kept) : i < j => kept[i].nr < kept[j].nr
    /\ \A i \in 1 .. Len(kept), j \in Pending : kept[i].nr < servers[j].nr
    /\ \A i \in 1 .. Len(kept) : ~FatalIn(errors, kept[i].nr)
    /\ \A j \in Pending : ~FatalIn(errors, servers[j].nr)
    /\ \A n \in 1 .. blocks : \/ FatalIn(errors, n) \/ ServedIn(kept, n)
                              \/ \E j \in Pending : servers[j].nr = n

(* What is claimed is what the validated blocks claim, the dropped ones    *)
(* included, and those among them are served that are distinct.            *)
Claimed ==
    /\ \A x \in seen : \E j \in Done : x \in Triples(servers[j])
    /\ \A j \in Done : Triples(servers[j]) \subseteq seen
    /\ \A i \in Done : ServedIn(kept, servers[i].nr) <=> Distinct(i)

(* No triple is claimed twice among the blocks that are kept.              *)
Disjoint ==
    /\ \A i \in 1 .. Len(kept) : Triples(kept[i]) \subseteq seen /\ ~Repeats(kept[i].ports)
    /\ \A i, j \in 1 .. Len(kept) : i # j => Triples(kept[i]) \cap Triples(kept[j]) = {}

(* What each phase starts from.                                            *)
Staged ==
    /\ phase = "parse" => kept = <<>>
    /\ phase = "validate" => todo \in 1 .. Len(servers) + 1
    /\ phase \in {"parse", "validate"} => addresses = <<>>
    /\ phase \in {"parse", "validate", "group"} => DOMAIN listeners = {}
    /\ phase = "group" => /\ todo \in 1 .. Len(kept) + 1
                          /\ todo <= Len(kept) => port \in 1 .. Len(kept[todo].ports)
    /\ phase = "listen" => todo \in 1 .. Len(addresses) + 1

(* The blocks that have been entered under an address.                     *)
Under(key) ==
    {s \in 1 .. Len(kept) :
        /\ Listens(kept[s], key)
        /\ phase = "group" => \/ s < todo
                              \/ s = todo /\ \E i \in 1 .. port - 1 : kept[s].ports[i] = key[2]}

(* AddressesExact for the blocks that have been entered so far.            *)
Grouping ==
    phase \in {"group", "listen", "serve"} =>
        /\ \A i, j \in 1 .. Len(addresses) : addresses[i].key = addresses[j].key => i = j
        /\ \A s \in 1 .. Len(kept) : \A p \in NamesIn(kept[s].ports) :
              s \in Under(<<kept[s].host, p>>) =>
                  \E i \in 1 .. Len(addresses) : addresses[i].key = <<kept[s].host, p>>
        /\ \A i \in 1 .. Len(addresses) :
              LET a == addresses[i]
              IN  /\ a.servers # <<>>
                  /\ NamesIn(a.servers) = Under(a.key)
                  /\ \A j, k \in 1 .. Len(a.servers) : j < k => a.servers[j] < a.servers[k]

(* A listener leads to the address it is bound to.                         *)
Bound ==
    \A key \in DOMAIN listeners :
        listeners[key] \in 1 .. Len(addresses) /\ addresses[listeners[key]].key = key

(* The block that got the last request is the one select_server picks.     *)
Selected ==
    chosen # NoRequest =>
        /\ phase = "serve"
        /\ chosen.at \in DOMAIN listeners
        /\ chosen.host \in Headers \cup {NoHost}
        /\ chosen.server = SelectServer(listeners[chosen.at], chosen.host)

IInv ==
    /\ TypeOK /\ Numbered /\ Accounted /\ Claimed /\ Disjoint
    /\ Staged /\ Grouping /\ Bound /\ Selected

-----------------------------------------------------------------------------
(* What a block's ports, names and triples are made of.                    *)
LEMMA BlockTypes ==
    ASSUME NEW s \in Block
    PROVE  /\ s.nr \in Nat /\ s.host \in Hosts
           /\ s.ports \in Seq(Nat) /\ s.ports # <<>>
           /\ s.names \in Seq(Names)
           /\ NamesIn(s.ports) \subseteq Nat
           /\ NamesOf(s) \subseteq Names \cup {Nameless}
           /\ Triples(s) \subseteq Hosts \X Nat \X (Names \cup {Nameless})
<1>1. s.nr \in Nat /\ s.host \in Hosts /\ s.ports \in Seq(Nat) /\ s.ports # <<>>
  BY HostsAssumption DEF Block
<1>2. s.names \in NameLists /\ s.names \in Seq(Names)
  BY HostsAssumption DEF Block
<1>3. NamesIn(s.ports) \subseteq Nat
  BY <1>1 DEF NamesIn
<1>4. NamesIn(s.names) \subseteq Names
  BY <1>2 DEF NamesIn
<1>5. NamesOf(s) \subseteq Names \cup {Nameless}
  BY <1>4 DEF NamesOf
<1>6. Triples(s) \subseteq Hosts \X Nat \X (Names \cup {Nameless})
  BY <1>1, <1>3, <1>5 DEF Triples
<1> QED
  BY <1>1, <1>2, <1>3, <1>5, <1>6

(* The lists of the model hold what their types say.                       *)
LEMMA Elements ==
    ASSUME TypeOK
    PROVE  /\ Len(servers) \in Nat /\ Len(kept) \in Nat /\ Len(addresses) \in Nat
           /\ blocks \in Nat /\ todo \in Nat /\ port \in Nat
           /\ \A i \in 1 .. Len(servers) : servers[i] \in Block
           /\ \A i \in 1 .. Len(kept) : kept[i] \in Block
           /\ \A i \in 1 .. Len(addresses) : addresses[i] \in Address
BY HostsAssumption DEF TypeOK

(* Validation is settled by the blocks, their errors and what is claimed.  *)
LEMMA SettledOK ==
    ASSUME Numbered, Accounted, Claimed, Disjoint, Pending' = Pending,
           UNCHANGED <<blocks, servers, errors, seen, kept>>
    PROVE  Numbered' /\ Accounted' /\ Claimed' /\ Disjoint'
<1>1. /\ blocks' = blocks /\ servers' = servers /\ errors' = errors /\ seen' = seen
      /\ kept' = kept
  OBVIOUS
<1>2. \A i : Distinct(i)' <=> Distinct(i)
  BY <1>1 DEF Distinct
<1>3. Done' = Done
  BY <1>1 DEF Done
<1>4. Numbered' /\ Disjoint'
  BY <1>1 DEF Numbered, Disjoint
<1>5. Accounted'
  BY <1>1, <1>2 DEF Accounted
<1>6. Claimed'
  BY <1>1, <1>2, <1>3 DEF Claimed
<1> QED
  BY <1>4, <1>5, <1>6

-----------------------------------------------------------------------------
(* The first state satisfies the invariant.                                *)
LEMMA InitOK == Init => IInv
<1> SUFFICES ASSUME Init PROVE IInv
  OBVIOUS
<1> USE DEF Init
<1>1. TypeOK
  BY HostsAssumption DEF TypeOK
<1>2. Numbered /\ Accounted /\ Claimed /\ Disjoint
  BY DEF Numbered, Accounted, Claimed, Disjoint, Pending, Done
<1>3. Staged /\ Grouping /\ Bound /\ Selected
  BY DEF Staged, Grouping, Bound, Selected
<1> QED
  BY <1>1, <1>2, <1>3 DEF IInv

(* A step that changes nothing.                                            *)
LEMMA StutterOK == IInv /\ UNCHANGED vars => IInv'
<1> SUFFICES ASSUME IInv, UNCHANGED vars PROVE IInv'
  OBVIOUS
<1>1. /\ blocks' = blocks /\ servers' = servers /\ errors' = errors /\ phase' = phase
      /\ seen' = seen /\ kept' = kept /\ todo' = todo /\ port' = port
      /\ addresses' = addresses /\ listeners' = listeners /\ chosen' = chosen
  BY DEF vars
<1>2. /\ TypeOK /\ Numbered /\ Accounted /\ Claimed /\ Disjoint /\ Staged
      /\ Grouping /\ Bound /\ Selected
  BY DEF IInv
<1>3. Numbered' /\ Accounted' /\ Claimed' /\ Disjoint'
  <2>1. Pending' = Pending
    BY <1>1 DEF Pending
  <2> QED
    BY <1>1, <1>2, <2>1, SettledOK
<1>4. TypeOK' /\ Staged'
  BY <1>1, <1>2 DEF TypeOK, Staged
<1>5. \A k : Under(k)' = Under(k)
  BY <1>1 DEF Under
<1>6. Grouping'
  BY <1>1, <1>2, <1>5 DEF Grouping
<1>7. \A at, host : SelectServer(at, host)' = SelectServer(at, host)
  BY <1>1 DEF SelectServer
<1>8. Bound' /\ Selected'
  BY <1>1, <1>2, <1>7 DEF Bound, Selected
<1> QED
  BY <1>3, <1>4, <1>6, <1>8 DEF IInv

(* A block is read: it is dropped with an error that says so, or it is     *)
(* last in the file, with no error but flaws.                              *)
LEMMA ParseServerBlockOK == IInv /\ ParseServerBlock => IInv'
<1> SUFFICES ASSUME IInv, ParseServerBlock PROVE IInv'
  OBVIOUS
<1> USE DEF IInv
<1>0. /\ phase = "parse" /\ phase' = "parse" /\ blocks < MaxServers /\ blocks' = blocks + 1
      /\ UNCHANGED <<seen, kept, todo, port, addresses, listeners, chosen>>
  BY DEF ParseServerBlock
<1>1. blocks' \in 1 .. MaxServers /\ blocks \in Nat /\ MaxServers \in Nat
  BY <1>0, HostsAssumption DEF TypeOK
<1>2. PICK said \in SUBSET Kinds :
        /\ errors' = [errors EXCEPT ![blocks'] = said]
        /\ \/ said \cap Dropping # {} /\ servers' = servers
           \/ /\ said \cap Dropping = {}
              /\ \E s \in Block : s.nr = blocks' /\ servers' = Append(servers, s)
  <2>1. CASE errors' = [errors EXCEPT ![blocks'] = {"no brace"}] /\ servers' = servers
    BY <2>1 DEF Kinds, Dropping
  <2>2. ASSUME NEW h \in Hosts, NEW ps \in PortLists, NEW ns \in NameLists,
               NEW flaws \in SUBSET {"flaw"}, ps = <<>>,
               errors' = [errors EXCEPT ![blocks'] = flaws \cup {"no port"}],
               servers' = servers
        PROVE  \E said \in SUBSET Kinds :
                  /\ errors' = [errors EXCEPT ![blocks'] = said]
                  /\ said \cap Dropping # {} /\ servers' = servers
    BY <2>2 DEF Kinds, Dropping
  <2>3. ASSUME NEW h \in Hosts, NEW ps \in PortLists, NEW ns \in NameLists,
               NEW flaws \in SUBSET {"flaw"}, ps # <<>>,
               errors' = [errors EXCEPT ![blocks'] = flaws],
               servers' = Append(servers, [nr |-> blocks', host |-> h, ports |-> ps,
                                           names |-> ns])
        PROVE  \E said \in SUBSET Kinds :
                  /\ errors' = [errors EXCEPT ![blocks'] = said]
                  /\ said \cap Dropping = {}
                  /\ \E s \in Block : s.nr = blocks' /\ servers' = Append(servers, s)
    <3>1. flaws \in SUBSET Kinds /\ flaws \cap Dropping = {}
      BY DEF Kinds, Dropping
    <3>2. [nr |-> blocks', host |-> h, ports |-> ps, names |-> ns] \in Block
      BY <1>1, <2>3 DEF Block
    <3> QED
      BY <2>3, <3>1, <3>2
  <2> QED
    BY <2>1, <2>2, <2>3 DEF ParseServerBlock
<1>3. /\ \A n \in 1 .. blocks : errors'[n] = errors[n]
      /\ errors'[blocks'] = said
  BY <1>0, <1>1, <1>2 DEF TypeOK
<1>4. TypeOK'
  <2>1. servers' \in Seq(Block)
    <3>1. servers \in Seq(Block)
      BY DEF TypeOK
    <3> QED
      BY <1>2, <3>1
  <2>2. errors' \in [1 .. MaxServers -> SUBSET Kinds]
    BY <1>2 DEF TypeOK
  <2>3. chosen' = NoRequest
    BY <1>0 DEF Staged, Selected
  <2> QED
    BY <1>0, <1>1, <2>1, <2>2, <2>3 DEF TypeOK
<1>5. Numbered' /\ Accounted' /\ Claimed' /\ Disjoint'
  <2>0. kept = <<>> /\ kept' = <<>> /\ servers \in Seq(Block) /\ Len(servers) \in Nat
    BY <1>0, Elements DEF Staged, TypeOK
  <2>1. Pending = 1 .. Len(servers) /\ Pending' = 1 .. Len(servers') /\ Done = {} /\ Done' = {}
    BY <1>0 DEF Pending, Done
  <2>2. Claimed' /\ Disjoint'
    BY <1>0, <2>0, <2>1 DEF Claimed, Disjoint
  <2>3. \A n \in 1 .. blocks : FatalIn(errors', n) <=> FatalIn(errors, n)
    BY <1>3 DEF FatalIn
  <2>4. FatalIn(errors', blocks') <=> said \cap Dropping # {}
    BY <1>3 DEF FatalIn
  <2>5. \A n \in 1 .. blocks' : n \in 1 .. blocks \/ n = blocks'
    BY <1>0, <1>1
  <2>6. \A n \in 1 .. blocks : FatalIn(errors, n) \/ \E j \in 1 .. Len(servers) : servers[j].nr = n
    BY <2>0, <2>1 DEF Accounted, ServedIn
  <2>7. \A j \in 1 .. Len(servers) : servers[j].nr \in 1 .. blocks /\ ~FatalIn(errors, servers[j].nr)
    BY <2>1 DEF Numbered, Accounted
  <2>8. CASE said \cap Dropping # {} /\ servers' = servers
    <3>1. Numbered'
      BY <1>0, <1>1, <2>8 DEF Numbered
    <3>2. \A j \in Pending' : ~FatalIn(errors', servers'[j].nr)
      BY <2>1, <2>3, <2>7, <2>8
    <3>3. \A n \in 1 .. blocks' : FatalIn(errors', n) \/ \E j \in Pending' : servers'[j].nr = n
      BY <2>1, <2>3, <2>4, <2>5, <2>6, <2>8
    <3> QED
      BY <2>0, <2>2, <3>1, <3>2, <3>3 DEF Accounted
  <2>9. ASSUME NEW s \in Block, s.nr = blocks', servers' = Append(servers, s),
               said \cap Dropping = {}
        PROVE  Numbered' /\ Accounted'
    <3>1. /\ Len(servers') = Len(servers) + 1
          /\ \A i \in 1 .. Len(servers) : servers'[i] = servers[i]
          /\ servers'[Len(servers) + 1] = s
      BY <2>0, <2>9
    <3>2. Numbered'
      BY <1>0, <1>1, <2>0, <2>9, <3>1 DEF Numbered
    <3>3. \A j \in 1 .. Len(servers') : j \in 1 .. Len(servers) \/ j = Len(servers) + 1
      BY <2>0, <3>1
    <3>4. \A j \in 1 .. Len(servers') : ~FatalIn(errors', servers'[j].nr)
      BY <2>3, <2>4, <2>7, <2>9, <3>1, <3>3
    <3>5. \A j \in 1 .. Len(servers) + 1 : j \in 1 .. Len(servers')
      BY <2>0, <3>1
    <3>6. \A j \in 1 .. Len(servers) : j \in 1 .. Len(servers) + 1
      BY <2>0
    <3>7. Len(servers) + 1 \in 1 .. Len(servers) + 1
      BY <2>0
    <3>8. \A n \in 1 .. blocks' : FatalIn(errors', n) \/ \E j \in 1 .. Len(servers') : servers'[j].nr = n
      BY <2>3, <2>5, <2>6, <2>9, <3>1, <3>5, <3>6, <3>7
    <3> QED
      BY <2>0, <2>1, <3>2, <3>4, <3>8 DEF Accounted
  <2> QED
    BY <1>2, <2>2, <2>8, <2>9
<1>6. Staged' /\ Grouping' /\ Bound' /\ Selected'
  BY <1>0 DEF Staged, Grouping, Bound, Selected
<1> QED
  BY <1>4, <1>5, <1>6

(* The file ends: all blocks are to be validated.                          *)
LEMMA EndOfFileOK == IInv /\ EndOfFile => IInv'
<1> SUFFICES ASSUME IInv, EndOfFile PROVE IInv'
  OBVIOUS
<1> USE DEF IInv, EndOfFile
<1>1. TypeOK'
  BY DEF TypeOK
<1>2. Numbered' /\ Accounted' /\ Claimed' /\ Disjoint'
  <2>1. Pending' = Pending
    BY DEF Pending
  <2> QED
    BY <2>1, SettledOK
<1>3. Staged' /\ Grouping' /\ Bound' /\ Selected'
  BY Elements DEF Staged, Grouping, Bound, Selected
<1> QED
  BY <1>1, <1>2, <1>3

(* A block is validated: it is kept if none of its triples was claimed.    *)
LEMMA ValidateOK == IInv /\ Validate => IInv'
<1> SUFFICES ASSUME IInv, Validate PROVE IInv'
  OBVIOUS
<1> USE DEF IInv
<1> DEFINE s == servers[todo]
<1>0. /\ phase = "validate" /\ phase' = "validate" /\ todo <= Len(servers) /\ todo' = todo + 1
      /\ seen' = seen \cup Triples(s)
      /\ \/ Conflict(s) /\ errors' = WithDuplicate(s.nr) /\ kept' = kept
         \/ ~Conflict(s) /\ kept' = Append(kept, s) /\ errors' = errors
      /\ UNCHANGED <<blocks, servers, port, addresses, listeners, chosen>>
  BY DEF Validate
<1>1. todo \in 1 .. Len(servers) /\ s \in Block /\ s.nr \in 1 .. blocks
  BY <1>0, Elements DEF Staged, Numbered
<1>2. /\ Len(servers) \in Nat /\ Len(kept) \in Nat /\ todo \in Nat /\ blocks \in Nat
      /\ kept \in Seq(Block) /\ blocks <= MaxServers /\ MaxServers \in Nat
  BY Elements, HostsAssumption DEF TypeOK
<1>3. \/ kept' = kept
      \/ /\ Len(kept') = Len(kept) + 1
         /\ \A i \in 1 .. Len(kept) : kept'[i] = kept[i]
         /\ kept'[Len(kept) + 1] = s
  BY <1>0, <1>1, <1>2
<1> HIDE DEF s
<1>4. TypeOK'
  <2>1. kept' \in Seq(Block) /\ errors' \in [1 .. MaxServers -> SUBSET Kinds]
    <3>1. kept' \in Seq(Block)
      BY <1>0, <1>1, <1>2
    <3>2. s.nr \in 1 .. MaxServers
      BY <1>1, <1>2
    <3>3. WithDuplicate(s.nr) \in [1 .. MaxServers -> SUBSET Kinds]
      BY <3>2 DEF TypeOK, WithDuplicate, Kinds, Dropping
    <3> QED
      BY <1>0, <3>1, <3>3 DEF TypeOK
  <2>2. seen' \subseteq Hosts \X Nat \X (Names \cup {Nameless})
    BY <1>0, <1>1, BlockTypes DEF TypeOK
  <2>3. chosen' = NoRequest
    BY <1>0 DEF Selected
  <2> QED
    BY <1>0, <1>2, <2>1, <2>2, <2>3 DEF TypeOK
<1>5. Numbered'
  BY <1>0, <1>1 DEF Numbered
<1>6. Accounted' /\ Claimed'
  <2>1. Pending = todo .. Len(servers) /\ Pending' = todo + 1 .. Len(servers)
    BY <1>0 DEF Pending
  <2>2. todo \in Pending /\ \A j \in Pending' : j \in Pending /\ j \in 1 .. Len(servers) /\ j > todo
    BY <1>1, <1>2, <2>1
  <2>3. \A j \in Pending' : s.nr < servers[j].nr /\ servers[j].nr \in Nat
    BY <1>1, <2>2 DEF Numbered, s
  <2>4. \A i \in 1 .. Len(kept) : kept[i].nr < s.nr /\ kept[i].nr \in Nat
    BY <2>2, Elements, BlockTypes DEF Accounted, s
  <2>5. \A j \in Pending : j = todo \/ j \in Pending'
    BY <1>2, <2>1
  <2>6. s.nr \in Nat /\ s.nr \in 1 .. MaxServers /\ ~FatalIn(errors, s.nr)
    BY <1>1, <1>2, <2>2 DEF Accounted, s
  <2>7. \A n \in 1 .. blocks : n # s.nr => (FatalIn(errors', n) <=> FatalIn(errors, n))
    <3>1. \A n \in 1 .. blocks : n \in 1 .. MaxServers
      BY <1>2
    <3>2. \A n \in 1 .. MaxServers : n # s.nr => errors'[n] = errors[n]
      BY <1>0 DEF TypeOK, WithDuplicate
    <3> QED
      BY <3>1, <3>2 DEF FatalIn
  <2>8. \A i \in 1 .. Len(kept) : ~FatalIn(errors', kept[i].nr)
    <3>1. \A i \in 1 .. Len(kept) : ~FatalIn(errors, kept[i].nr) /\ kept[i].nr # s.nr
      BY <2>4, <2>6 DEF Accounted
    <3>2. \A i \in 1 .. Len(kept) : kept[i].nr \in 1 .. MaxServers
      BY Elements DEF Block
    <3>3. \A n \in 1 .. MaxServers : n # s.nr => errors'[n] = errors[n]
      BY <1>0 DEF TypeOK, WithDuplicate
    <3> QED
      BY <3>1, <3>2, <3>3 DEF FatalIn
  <2>9. \A j \in Pending' : ~FatalIn(errors', servers[j].nr)
    <3>1. \A j \in Pending' : servers[j].nr \in 1 .. blocks /\ servers[j].nr # s.nr
      BY <2>2, <2>3, <2>6 DEF Numbered
    <3> QED
      BY <2>2, <2>7, <3>1 DEF Accounted
  <2>10. /\ \A i \in 1 .. Len(kept), j \in Pending' : kept[i].nr < servers[j].nr
         /\ \A i, j \in 1 .. Len(kept) : i < j => kept[i].nr < kept[j].nr
    BY <2>2 DEF Accounted
  <2>11. \A n \in 1 .. blocks : \/ FatalIn(errors, n) \/ ServedIn(kept, n) \/ n = s.nr
                                \/ \E j \in Pending' : servers[j].nr = n
    BY <2>5 DEF Accounted, s
  <2>12. ServedIn(kept, s.nr) = FALSE
    BY <2>4, <2>6 DEF ServedIn
  <2>13. Conflict(s) <=> ~Distinct(todo)
    <3>1. Done = 1 .. todo - 1
      BY <1>0, <1>1, <1>2 DEF Done, Pending
    <3>2. Triples(s) \cap seen # {} <=> \E j \in 1 .. todo - 1 : Overlap(servers[j], s)
      BY <3>1 DEF Claimed, Overlap
    <3> QED
      BY <3>2 DEF Conflict, Distinct, s
  <2>14. Done' = Done \cup {todo} /\ todo \notin Done
    BY <1>0, <1>1, <1>2, <2>1, <2>2, <2>5 DEF Done
  <2>15. \A i \in Done : servers[i].nr # s.nr
    <3>1. \A i \in Done : i \in 1 .. Len(servers) /\ i # todo
      BY <2>14 DEF Done
    <3>2. \A i \in Done : servers[i].nr \in Nat
      BY <3>1, Elements, BlockTypes
    <3>3. \A i \in Done : i < todo \/ todo < i
      BY <1>2, <3>1
    <3> QED
      BY <1>1, <2>6, <3>1, <3>2, <3>3 DEF Numbered, s
  <2>16. \A i : Distinct(i)' <=> Distinct(i)
    BY <1>0 DEF Distinct
  <2>17. /\ \A x \in seen' : \E j \in Done' : x \in Triples(servers'[j])
         /\ \A j \in Done' : Triples(servers'[j]) \subseteq seen'
    BY <1>0, <2>14 DEF Claimed, s
  <2>18. CASE Conflict(s) /\ errors' = WithDuplicate(s.nr) /\ kept' = kept
    <3>1. FatalIn(errors', s.nr)
      <4>1. "duplicate" \in errors'[s.nr]
        BY <2>6, <2>18 DEF WithDuplicate, TypeOK
      <4> QED
        BY <4>1 DEF FatalIn, Dropping
    <3>2. \A n : ServedIn(kept', n) <=> ServedIn(kept, n)
      BY <2>18 DEF ServedIn
    <3>3. \A n \in 1 .. blocks : \/ FatalIn(errors', n) \/ ServedIn(kept', n)
                                 \/ \E j \in Pending' : servers[j].nr = n
      BY <2>7, <2>11, <3>1, <3>2
    <3>4. Accounted'
      BY <1>0, <2>8, <2>9, <2>10, <2>18, <3>3 DEF Accounted
    <3>5. \A i \in Done' : ServedIn(kept', servers[i].nr) <=> Distinct(i)'
      BY <2>12, <2>13, <2>14, <2>16, <2>18, <3>2 DEF Claimed, s
    <3> QED
      BY <1>0, <2>17, <3>4, <3>5 DEF Claimed
  <2>19. CASE ~Conflict(s) /\ kept' = Append(kept, s) /\ errors' = errors
    <3>1. /\ Len(kept') = Len(kept) + 1
          /\ \A i \in 1 .. Len(kept) : kept'[i] = kept[i]
          /\ kept'[Len(kept) + 1] = s
      BY <1>1, <1>2, <2>19
    <3>2. \A i \in 1 .. Len(kept') : i \in 1 .. Len(kept) \/ i = Len(kept) + 1
      BY <1>2, <3>1
    <3>3. /\ \A i \in 1 .. Len(kept) : i \in 1 .. Len(kept')
          /\ Len(kept) + 1 \in 1 .. Len(kept')
      BY <1>2, <3>1
    <3>4. \A n : ServedIn(kept', n) <=> ServedIn(kept, n) \/ n = s.nr
      BY <3>1, <3>2, <3>3 DEF ServedIn
    <3>5. \A i, j \in 1 .. Len(kept') : i < j => kept'[i].nr < kept'[j].nr
      BY <1>2, <2>4, <2>10, <3>1, <3>2
    <3>6. \A i \in 1 .. Len(kept'), j \in Pending' : kept'[i].nr < servers[j].nr
      BY <2>3, <2>10, <3>1, <3>2
    <3>7. \A n : FatalIn(errors', n) <=> FatalIn(errors, n)
      BY <2>19 DEF FatalIn
    <3>8. \A i \in 1 .. Len(kept') : ~FatalIn(errors', kept'[i].nr)
      BY <2>6, <2>8, <3>1, <3>2, <3>7
    <3>9. \A n \in 1 .. blocks : \/ FatalIn(errors', n) \/ ServedIn(kept', n)
                                 \/ \E j \in Pending' : servers[j].nr = n
      BY <2>11, <3>4, <3>7
    <3>10. Accounted'
      BY <1>0, <2>9, <3>5, <3>6, <3>8, <3>9 DEF Accounted
    <3>11. \A i \in Done' : ServedIn(kept', servers[i].nr) <=> Distinct(i)'
      BY <2>13, <2>14, <2>15, <2>16, <2>19, <3>4 DEF Claimed, s
    <3> QED
      BY <1>0, <2>17, <3>10, <3>11 DEF Claimed
  <2> QED
    BY <1>0, <2>18, <2>19
<1>7. Disjoint'
  <2>1. CASE kept' = kept
    BY <1>0, <2>1 DEF Disjoint
  <2>2. CASE ~Conflict(s) /\ kept' = Append(kept, s)
    <3>1. /\ Len(kept') = Len(kept) + 1
          /\ \A i \in 1 .. Len(kept) : kept'[i] = kept[i]
          /\ kept'[Len(kept) + 1] = s
      BY <1>1, <1>2, <2>2
    <3>2. Triples(s) \cap seen = {} /\ ~Repeats(s.ports)
      BY <2>2 DEF Conflict
    <3>3. \A i \in 1 .. Len(kept') : Triples(kept'[i]) \subseteq seen' /\ ~Repeats(kept'[i].ports)
      BY <1>0, <1>2, <3>1, <3>2 DEF Disjoint
    <3>4. \A i \in 1 .. Len(kept) : Triples(kept[i]) \cap Triples(s) = {}
      BY <3>2 DEF Disjoint
    <3>5. \A i, j \in 1 .. Len(kept') : i # j => Triples(kept'[i]) \cap Triples(kept'[j]) = {}
      <4>1. \A i \in 1 .. Len(kept') : i \in 1 .. Len(kept) \/ i = Len(kept) + 1
        BY <1>2, <3>1
      <4>2. \A i, j \in 1 .. Len(kept) : i # j => Triples(kept[i]) \cap Triples(kept[j]) = {}
        BY DEF Disjoint
      <4>3. \A i \in 1 .. Len(kept) : Triples(s) \cap Triples(kept[i]) = {}
        BY <3>4
      <4> HIDE DEF IInv
      <4> QED
        BY <3>1, <3>4, <4>1, <4>2, <4>3
    <3> QED
      BY <3>3, <3>5 DEF Disjoint
  <2> QED
    BY <1>0, <2>1, <2>2
<1>8. Staged' /\ Grouping' /\ Bound' /\ Selected'
  BY <1>0, <1>1, <1>2 DEF Staged, Grouping, Bound, Selected
<1> QED
  BY <1>4, <1>5, <1>6, <1>7, <1>8

(* All blocks are validated.                                               *)
LEMMA ValidatedOK == IInv /\ Validated => IInv'
<1> SUFFICES ASSUME IInv, Validated PROVE IInv'
  OBVIOUS
<1> USE DEF IInv
<1>0. /\ phase = "validate" /\ todo > Len(servers)
      /\ phase' = IF kept = <<>> THEN "failed" ELSE "group"
      /\ todo' = 1 /\ port' = 1
      /\ UNCHANGED <<blocks, servers, errors, seen, kept, addresses, listeners, chosen>>
  BY DEF Validated
<1>1. TypeOK'
  BY <1>0 DEF TypeOK, Selected
<1>2. Pending = {} /\ Pending' = {}
  BY <1>0, Elements DEF Pending
<1>3. Numbered' /\ Accounted' /\ Claimed' /\ Disjoint'
  BY <1>0, <1>2, SettledOK
<1>4. Staged'
  <2>1. \A i \in 1 .. Len(kept) : kept[i].ports \in Seq(Nat) /\ kept[i].ports # <<>>
    BY Elements, BlockTypes
  <2>2. \A i \in 1 .. Len(kept) : 1 \in 1 .. Len(kept[i].ports)
    BY <2>1
  <2> QED
    BY <1>0, <2>2, Elements DEF Staged
<1>5. Grouping'
  <2>1. addresses' = <<>>
    BY <1>0 DEF Staged
  <2>2. \A key : phase' = "group" => Under(key)' = {}
    BY <1>0, Elements DEF Under
  <2>3. phase' \in {"failed", "group"} /\ Len(addresses') = 0
    BY <1>0, <2>1
  <2>4. /\ \A i : i \notin 1 .. Len(addresses')
        /\ phase' # "listen" /\ phase' # "serve"
    BY <2>3
  <2> QED
    BY <2>2, <2>4 DEF Grouping
<1>6. Bound' /\ Selected'
  BY <1>0 DEF Bound, Selected, Staged
<1> QED
  BY <1>1, <1>3, <1>4, <1>5, <1>6

(* GroupPort enters block todo, and only it, under the address that is     *)
(* next, under which it was not entered before.                            *)
LEMMA OneMoreEntered ==
    ASSUME IInv, GroupPort
    PROVE  \A k \in Hosts \X Nat :
              LET next == <<kept[todo].host, kept[todo].ports[port]>>
              IN  /\ k # next => Under(k)' = Under(k)
                  /\ k = next => /\ Under(k)' = Under(k) \cup {todo}
                                 /\ \A t \in Under(k) : t < todo
<1> USE DEF IInv
<1> DEFINE s == kept[todo]
<1>0. /\ phase = "group" /\ phase' = "group" /\ todo <= Len(kept) /\ kept' = kept
      /\ \/ port < Len(s.ports) /\ port' = port + 1 /\ todo' = todo
         \/ port = Len(s.ports) /\ port' = 1 /\ todo' = todo + 1
  BY DEF GroupPort
<1>1. /\ todo \in 1 .. Len(kept) /\ Len(kept) \in Nat /\ port \in 1 .. Len(s.ports)
      /\ s.ports \in Seq(Nat) /\ Len(s.ports) \in Nat /\ todo \in Nat
  BY <1>0, Elements, BlockTypes DEF Staged
<1>2. \A i, j \in 1 .. Len(s.ports) : s.ports[i] = s.ports[j] => i = j
  BY <1>1 DEF Disjoint, Repeats
<1> HIDE DEF s
<1> SUFFICES ASSUME NEW k \in Hosts \X Nat
             PROVE  /\ k # <<s.host, s.ports[port]>> => Under(k)' = Under(k)
                    /\ k = <<s.host, s.ports[port]>> => /\ Under(k)' = Under(k) \cup {todo}
                                                        /\ \A t \in Under(k) : t < todo
  BY DEF s
<1>3. Under(k) = {t \in 1 .. Len(kept) :
                    /\ Listens(kept[t], k)
                    /\ \/ t < todo
                       \/ t = todo /\ \E i \in 1 .. port - 1 : kept[t].ports[i] = k[2]}
  BY <1>0 DEF Under
<1>4. Under(k)' = {t \in 1 .. Len(kept) :
                     /\ Listens(kept[t], k)
                     /\ \/ t < todo'
                        \/ t = todo' /\ \E i \in 1 .. port' - 1 : kept[t].ports[i] = k[2]}
  BY <1>0 DEF Under
<1>5. \A t \in 1 .. Len(kept) : t # todo =>
        (/\ t < todo' <=> t < todo
         /\ t = todo' => ~\E i \in 1 .. port' - 1 : kept[t].ports[i] = k[2])
  BY <1>0, <1>1
<1>6. \A t \in 1 .. Len(kept) : t # todo => (t \in Under(k)' <=> t \in Under(k))
  BY <1>3, <1>4, <1>5
<1>7. todo \in Under(k) <=> s.host = k[1] /\ \E i \in 1 .. port - 1 : s.ports[i] = k[2]
  <2>1. \A i \in 1 .. port - 1 : i \in 1 .. Len(s.ports)
    BY <1>1
  <2> QED
    BY <1>1, <1>3, <2>1 DEF s, Listens, NamesIn
<1>8. todo \in Under(k)' <=> s.host = k[1] /\ \E i \in 1 .. port : s.ports[i] = k[2]
  <2>1. CASE port < Len(s.ports) /\ port' = port + 1 /\ todo' = todo
    <3>1. \A i \in 1 .. port : i \in 1 .. Len(s.ports)
      BY <1>1
    <3>2. 1 .. port' - 1 = 1 .. port
      BY <1>1, <2>1
    <3>3. todo \in Under(k)' <=> Listens(s, k) /\ \E i \in 1 .. port : s.ports[i] = k[2]
      BY <1>1, <1>4, <2>1, <3>2 DEF s
    <3>4. (\E i \in 1 .. port : s.ports[i] = k[2]) => k[2] \in NamesIn(s.ports)
      BY <3>1 DEF NamesIn
    <3> QED
      BY <3>3, <3>4 DEF Listens
  <2>2. CASE port = Len(s.ports) /\ port' = 1 /\ todo' = todo + 1
    <3>1. todo < todo'
      BY <1>1, <2>2
    <3> QED
      BY <1>1, <1>4, <2>2, <3>1 DEF s, Listens, NamesIn
  <2> QED
    BY <1>0, <2>1, <2>2
<1>9. \A i \in 1 .. port : i = port \/ i \in 1 .. port - 1
  BY <1>1
<1>10. port \in 1 .. port /\ \A i \in 1 .. port - 1 : i \in 1 .. port
  BY <1>1
<1>11. k = <<s.host, s.ports[port]>> <=> s.host = k[1] /\ s.ports[port] = k[2]
  OBVIOUS
<1>12. Under(k) \subseteq 1 .. Len(kept) /\ Under(k)' \subseteq 1 .. Len(kept)
  BY <1>3, <1>4
<1>13. ASSUME k # <<s.host, s.ports[port]>> PROVE Under(k)' = Under(k)
  <2>1. todo \in Under(k)' <=> todo \in Under(k)
    BY <1>7, <1>8, <1>9, <1>10, <1>11, <1>13
  <2>2. \A t \in 1 .. Len(kept) : t \in Under(k)' <=> t \in Under(k)
    BY <1>6, <2>1
  <2> QED
    BY <1>12, <2>2, Zenon
<1>14. ASSUME k = <<s.host, s.ports[port]>>
       PROVE  Under(k)' = Under(k) \cup {todo} /\ \A t \in Under(k) : t < todo
  <2>1. todo \in Under(k)'
    BY <1>8, <1>10, <1>11, <1>14
  <2>2. ~\E i \in 1 .. port - 1 : s.ports[i] = s.ports[port]
    <3>1. \A i \in 1 .. port - 1 : i \in 1 .. Len(s.ports) /\ i # port
      BY <1>1
    <3> QED
      BY <1>1, <1>2, <3>1
  <2>3. todo \notin Under(k)
    BY <1>7, <1>11, <1>14, <2>2
  <2>4. \A t \in Under(k) : t < todo
    BY <1>3, <2>3
  <2> QED
    BY <1>1, <1>6, <1>12, <2>1, <2>4
<1> QED
  BY <1>13, <1>14

(* What comes after n is n + 1.                                            *)
LEMMA LastOrBefore ==
    ASSUME NEW n \in Nat, NEW i \in 1 .. n + 1
    PROVE  i \in 1 .. n \/ i = n + 1
OBVIOUS

(* Server si stands at the end of the list of key, or of a new address,    *)
(* and nothing else differs from the addresses as they are.                *)
EnteredLast(after, key, si) ==
    /\ after \in Seq(Address)
    /\ \A i \in 1 .. Len(addresses) :
          /\ i \in 1 .. Len(after)
          /\ after[i].key = addresses[i].key
          /\ addresses[i].key # key => after[i] = addresses[i]
          /\ addresses[i].key = key =>
                after[i].servers = Append(addresses[i].servers, si)
    /\ \A i \in 1 .. Len(after) :
          \/ i \in 1 .. Len(addresses)
          \/ /\ i = Len(addresses) + 1
             /\ after[i] = [key |-> key, servers |-> <<si>>]
             /\ \A j \in 1 .. Len(addresses) : addresses[j].key # key
    /\ \E i \in 1 .. Len(after) : after[i].key = key

(* Entered does that.                                                      *)
LEMMA EnteredShape ==
    ASSUME TypeOK, NEW key \in Hosts \X Nat, NEW si \in Nat
    PROVE  EnteredLast(Entered(key, si), key, si)
<1> SUFFICES ASSUME NEW after, after = Entered(key, si) PROVE EnteredLast(after, key, si)
  OBVIOUS
<1> USE DEF EnteredLast
<1>1. addresses \in Seq(Address) /\ Len(addresses) \in Nat
  BY Elements DEF TypeOK
<1>2. \A i \in 1 .. Len(addresses) : addresses[i] \in Address
  BY <1>1
<1>3. PICK n \in Nat : n = Len(addresses)
  BY <1>1
<1>4. CASE \E i \in 1 .. n : addresses[i].key = key
  <2>1. after = [i \in 1 .. n |-> IF addresses[i].key = key
                                  THEN [addresses[i] EXCEPT !.servers = Append(@, si)]
                                  ELSE addresses[i]]
    BY <1>3, <1>4 DEF Entered
  <2>2. \A a \in Address : a.servers \in Seq(Nat) /\ Append(a.servers, si) \in Seq(Nat)
    BY DEF Address
  <2>3. \A a \in Address : \A l \in Seq(Nat) : /\ [a EXCEPT !.servers = l] \in Address
                                               /\ [a EXCEPT !.servers = l].key = a.key
                                               /\ [a EXCEPT !.servers = l].servers = l
    BY DEF Address
  <2>4. \A i \in 1 .. n :
          /\ after[i] \in Address
          /\ after[i].key = addresses[i].key
          /\ addresses[i].key # key => after[i] = addresses[i]
          /\ addresses[i].key = key =>
                after[i].servers = Append(addresses[i].servers, si)
    <3> SUFFICES ASSUME NEW i \in 1 .. n
                 PROVE  /\ after[i] \in Address
                        /\ after[i].key = addresses[i].key
                        /\ addresses[i].key # key => after[i] = addresses[i]
                        /\ addresses[i].key = key =>
                              after[i].servers = Append(addresses[i].servers, si)
      OBVIOUS
    <3>1. addresses[i] \in Address
      BY <1>2, <1>3
    <3>2. CASE addresses[i].key = key
      <4>1. PICK l \in Seq(Nat) : l = Append(addresses[i].servers, si)
        BY <2>2, <3>1
      <4>2. after[i] = [addresses[i] EXCEPT !.servers = l]
        BY <2>1, <3>2, <4>1
      <4>3. after[i] \in Address /\ after[i].key = addresses[i].key /\ after[i].servers = l
        BY <2>3, <3>1, <4>2
      <4> QED
        BY <3>2, <4>1, <4>3
    <3>3. CASE addresses[i].key # key
      BY <2>1, <3>1, <3>3
    <3> QED
      BY <3>2, <3>3
  <2>5. after \in [1 .. n -> Address]
    <3>1. after = [i \in 1 .. n |-> after[i]]
      BY <2>1
    <3> QED
      BY <2>4, <3>1
  <2>6. after \in Seq(Address) /\ Len(after) = n
    BY <1>3, <2>5, SeqDef
  <2>7. \E i \in 1 .. n : after[i].key = key
    BY <1>4, <2>4
  <2>8. \A i \in 1 .. n : i \in 1 .. Len(after)
    BY <2>6
  <2>9. \A i \in 1 .. Len(after) : i \in 1 .. n
    BY <2>6
  <2>10. \E i \in 1 .. Len(after) : after[i].key = key
    BY <2>7, <2>8
  <2> QED
    BY <1>3, <2>4, <2>6, <2>8, <2>9, <2>10
<1>5. CASE ~\E i \in 1 .. n : addresses[i].key = key
  <2>1. after = Append(addresses, [key |-> key, servers |-> <<si>>])
    BY <1>3, <1>5 DEF Entered
  <2>2. [key |-> key, servers |-> <<si>>] \in Address
    BY DEF Address
  <2>3. /\ after \in Seq(Address) /\ Len(after) = n + 1
        /\ after[n + 1] = [key |-> key, servers |-> <<si>>]
        /\ \A i \in 1 .. n : after[i] = addresses[i]
    BY <1>1, <1>3, <2>1, <2>2
  <2>4. \A i \in 1 .. n : i \in 1 .. Len(after)
    BY <2>3
  <2>5. n + 1 \in 1 .. Len(after) /\ after[n + 1].key = key
    BY <2>3
  <2>6. \A i \in 1 .. Len(after) : i \in 1 .. n \/ i = n + 1
    BY <2>3, LastOrBefore
  <2> QED
    BY <1>3, <1>5, <2>3, <2>4, <2>5, <2>6
<1> QED
  BY <1>4, <1>5

(* The next port of a block is entered.                                    *)
LEMMA GroupPortOK == IInv /\ GroupPort => IInv'
<1> SUFFICES ASSUME IInv, GroupPort PROVE IInv'
  OBVIOUS
<1> USE DEF IInv
<1> DEFINE s == kept[todo]
<1>0. /\ phase = "group" /\ phase' = "group" /\ todo <= Len(kept)
      /\ addresses' = Entered(<<s.host, s.ports[port]>>, todo)
      /\ \/ port < Len(s.ports) /\ port' = port + 1 /\ todo' = todo
         \/ port = Len(s.ports) /\ port' = 1 /\ todo' = todo + 1
      /\ UNCHANGED <<blocks, servers, errors, seen, kept, listeners, chosen>>
  BY DEF GroupPort
<1>1. /\ todo \in 1 .. Len(kept) /\ Len(kept) \in Nat /\ port \in 1 .. Len(s.ports)
      /\ s.ports \in Seq(Nat) /\ Len(s.ports) \in Nat /\ todo \in Nat /\ s.host \in Hosts
      /\ addresses \in Seq(Address) /\ Len(addresses) \in Nat
  BY <1>0, Elements, BlockTypes DEF Staged, TypeOK
<1>2. PICK key \in Hosts \X Nat : key = <<s.host, s.ports[port]>>
  <2>1. s.ports[port] \in Nat
    BY <1>1, ElementOfSeq
  <2> QED
    BY <1>1, <2>1
<1>3. \A k \in Hosts \X Nat :
         /\ k # key => Under(k)' = Under(k)
         /\ k = key => /\ Under(k)' = Under(k) \cup {todo}
                       /\ \A t \in Under(k) : t < todo
  BY <1>2, OneMoreEntered
<1>4. /\ addresses' \in Seq(Address)
      /\ \A i \in 1 .. Len(addresses) :
            /\ i \in 1 .. Len(addresses')
            /\ addresses'[i].key = addresses[i].key
            /\ addresses[i].key # key => addresses'[i] = addresses[i]
            /\ addresses[i].key = key =>
                  addresses'[i].servers = Append(addresses[i].servers, todo)
      /\ \A i \in 1 .. Len(addresses') :
            \/ i \in 1 .. Len(addresses)
            \/ /\ i = Len(addresses) + 1
               /\ addresses'[i] = [key |-> key, servers |-> <<todo>>]
               /\ \A j \in 1 .. Len(addresses) : addresses[j].key # key
      /\ \E i \in 1 .. Len(addresses') : addresses'[i].key = key
  <2>1. addresses' = Entered(key, todo)
    BY <1>0, <1>2
  <2>2. todo \in Nat /\ TypeOK
    BY <1>1
  <2>3. EnteredLast(Entered(key, todo), key, todo)
    BY <2>2, EnteredShape
  <2>4. EnteredLast(addresses', key, todo)
    BY <2>1, <2>3
  <2> QED
    BY <2>4 DEF EnteredLast
<1>5. TypeOK'
  <2>1. chosen' = NoRequest
    BY <1>0 DEF Selected
  <2>2. todo' \in Nat /\ port' \in Nat
    BY <1>0, <1>1
  <2> QED
    BY <1>0, <1>4, <2>1, <2>2 DEF TypeOK
<1>6. Numbered' /\ Accounted' /\ Claimed' /\ Disjoint'
  <2>1. Pending' = Pending
    BY <1>0 DEF Pending
  <2> QED
    BY <1>0, <2>1, SettledOK
<1>7. Staged'
  <2>1. \A i \in 1 .. Len(kept) : kept[i].ports \in Seq(Nat) /\ kept[i].ports # <<>>
    BY Elements, BlockTypes
  <2>2. \A i \in 1 .. Len(kept) : 1 \in 1 .. Len(kept[i].ports)
    BY <2>1
  <2>3. CASE port < Len(s.ports) /\ port' = port + 1 /\ todo' = todo
    <3>1. port' \in 1 .. Len(s.ports)
      BY <1>1, <2>3
    <3> QED
      BY <1>0, <1>1, <2>3, <3>1 DEF Staged
  <2>4. CASE port' = 1 /\ todo' = todo + 1
    <3>1. todo' \in 1 .. Len(kept) + 1
      BY <1>1, <2>4
    <3>2. todo' <= Len(kept) => todo' \in 1 .. Len(kept)
      BY <1>1, <2>4
    <3> QED
      BY <1>0, <2>2, <2>4, <3>1, <3>2 DEF Staged
  <2> QED
    BY <1>0, <2>3, <2>4
<1>8. Grouping'
  <2> DEFINE n == Len(addresses)
  <2>0. \A i \in 1 .. n : addresses[i].key \in Hosts \X Nat /\ addresses[i].servers \in Seq(Nat)
    BY Elements DEF Address
  <2>1. \A i, j \in 1 .. Len(addresses') : addresses'[i].key = addresses'[j].key => i = j
    <3>1. \A i, j \in 1 .. n : addresses[i].key = addresses[j].key => i = j
      BY <1>0 DEF Grouping
    <3> HIDE DEF n
    <3> QED
      BY <1>4, <3>1, SMTT(30) DEF n
  <2>2. /\ \A i \in 1 .. n : i \in 1 .. Len(addresses') /\ addresses'[i].key = addresses[i].key
        /\ \E i \in 1 .. Len(addresses') : addresses'[i].key = key
    BY <1>4
  <2>3. ASSUME NEW t \in 1 .. Len(kept), NEW p \in NamesIn(kept[t].ports),
               NEW k, k = <<kept[t].host, p>>, t \in Under(k)'
        PROVE  \E i \in 1 .. Len(addresses') : addresses'[i].key = k
    <3>1. k \in Hosts \X Nat
      BY <2>3, Elements, BlockTypes
    <3>2. k = key \/ t \in Under(k)
      BY <1>3, <2>3, <3>1
    <3>3. t \in Under(k) => \E i \in 1 .. n : addresses[i].key = k
      BY <1>0, <2>3 DEF Grouping
    <3> QED
      BY <2>2, <3>2, <3>3
  <2>4. ASSUME NEW i \in 1 .. Len(addresses'), NEW k, k = addresses'[i].key
        PROVE  /\ addresses'[i].servers # <<>>
               /\ NamesIn(addresses'[i].servers) = Under(k)'
               /\ \A j, m \in 1 .. Len(addresses'[i].servers) :
                     j < m => addresses'[i].servers[j] < addresses'[i].servers[m]
    <3>1. CASE i \in 1 .. n /\ addresses'[i] = addresses[i] /\ k # key
      <4>1. Under(k)' = Under(k)
        BY <1>3, <2>0, <2>4, <3>1
      <4> QED
        BY <1>0, <2>4, <3>1, <4>1 DEF Grouping
    <3>2. CASE /\ i \in 1 .. n /\ k = key /\ addresses[i].key = key
               /\ addresses'[i].servers = Append(addresses[i].servers, todo)
      <4>0. PICK l, m : l = addresses[i].servers /\ m = addresses'[i].servers
        OBVIOUS
      <4>1. NamesIn(l) = Under(k)
        BY <1>0, <3>2, <4>0 DEF Grouping
      <4>2. \A j, h \in 1 .. Len(l) : j < h => l[j] < l[h]
        BY <1>0, <3>2, <4>0 DEF Grouping
      <4>3. l \in Seq(Nat) /\ Len(l) \in Nat /\ \A j \in 1 .. Len(l) : l[j] \in Nat
        <5>1. l \in Seq(Nat)
          BY <2>0, <3>2, <4>0
        <5> QED
          BY <5>1
      <4>4. /\ Len(m) = Len(l) + 1 /\ m[Len(l) + 1] = todo
            /\ \A j \in 1 .. Len(l) : m[j] = l[j]
        BY <1>1, <3>2, <4>0, <4>3, SMTT(30)
      <4>5. NamesIn(m) = NamesIn(l) \cup {todo}
        <5>1. \A x \in NamesIn(m) : x \in NamesIn(l) \cup {todo}
          BY <4>3, <4>4, SMTT(30) DEF NamesIn
        <5>2. \A j \in 1 .. Len(l) : j \in 1 .. Len(m)
          BY <4>3, <4>4
        <5>3. Len(l) + 1 \in 1 .. Len(m)
          BY <4>3, <4>4
        <5>4. \A x \in NamesIn(l) \cup {todo} : x \in NamesIn(m)
          BY <4>4, <5>2, <5>3 DEF NamesIn
        <5> QED
          BY <5>1, <5>4
      <4>6. NamesIn(m) = Under(k)'
        BY <1>3, <3>2, <4>1, <4>5
      <4>7. \A j \in 1 .. Len(l) : l[j] < todo
        <5>1. \A j \in 1 .. Len(l) : l[j] \in NamesIn(l)
          BY DEF NamesIn
        <5> QED
          BY <1>3, <3>2, <4>1, <5>1
      <4>8. \A j, h \in 1 .. Len(m) : j < h => m[j] < m[h]
        <5> SUFFICES ASSUME NEW j \in 1 .. Len(m), NEW h \in 1 .. Len(m), j < h
                     PROVE  m[j] < m[h]
          OBVIOUS
        <5>1. j \in 1 .. Len(l)
          BY <4>3, <4>4
        <5>2. h \in 1 .. Len(l) \/ h = Len(l) + 1
          BY <4>3, <4>4, LastOrBefore
        <5> QED
          BY <4>2, <4>4, <4>7, <5>1, <5>2
      <4>9. m # <<>>
        BY <4>3, <4>4
      <4> QED
        BY <4>0, <4>6, <4>8, <4>9
    <3>3. CASE /\ i = n + 1 /\ addresses'[i] = [key |-> key, servers |-> <<todo>>]
               /\ \A j \in 1 .. n : addresses[j].key # key
      <4>0. k = key
        BY <2>4, <3>3
      <4>1. Under(k) = {}
        <5> SUFFICES ASSUME NEW t \in Under(k) PROVE FALSE
          OBVIOUS
        <5>1. t \in 1 .. Len(kept) /\ kept[t].host = k[1] /\ k[2] \in NamesIn(kept[t].ports)
          BY DEF Under, Listens
        <5>2. k = <<kept[t].host, k[2]>>
          BY <4>0, <5>1
        <5>3. \E j \in 1 .. n : addresses[j].key = <<kept[t].host, k[2]>>
          BY <1>0, <5>1, <5>2 DEF Grouping
        <5> QED
          BY <3>3, <4>0, <5>2, <5>3
      <4>2. Under(k)' = {todo}
        BY <1>3, <4>0, <4>1
      <4>3. PICK m : m = addresses'[i].servers
        OBVIOUS
      <4>4. m = <<todo>>
        BY <3>3, <4>3
      <4>5. NamesIn(m) = {todo} /\ Len(m) = 1 /\ m # <<>>
        BY <4>4 DEF NamesIn
      <4>6. \A j, h \in 1 .. Len(m) : ~(j < h)
        BY <4>5
      <4> QED
        BY <4>2, <4>3, <4>5, <4>6
    <3>4. \/ i \in 1 .. n /\ addresses'[i] = addresses[i] /\ k # key
          \/ /\ i \in 1 .. n /\ k = key /\ addresses[i].key = key
             /\ addresses'[i].servers = Append(addresses[i].servers, todo)
          \/ /\ i = n + 1 /\ addresses'[i] = [key |-> key, servers |-> <<todo>>]
             /\ \A j \in 1 .. n : addresses[j].key # key
      BY <1>1, <1>4, <2>4
    <3> QED
      BY <3>1, <3>2, <3>3, <3>4
  <2>5. \A t \in 1 .. Len(kept') : \A p \in NamesIn(kept'[t].ports) :
           t \in Under(<<kept[t].host, p>>)' =>
              \E i \in 1 .. Len(addresses') : addresses'[i].key = <<kept'[t].host, p>>
    BY <1>0, <2>3
  <2>6. \A i \in 1 .. Len(addresses') :
           /\ addresses'[i].servers # <<>>
           /\ NamesIn(addresses'[i].servers) = Under(addresses[i].key)'
           /\ \A j, m \in 1 .. Len(addresses'[i].servers) :
                 j < m => addresses'[i].servers[j] < addresses'[i].servers[m]
    BY <2>4
  <2> QED
    BY <1>0, <2>1, <2>5, <2>6 DEF Grouping
<1>9. Bound' /\ Selected'
  BY <1>0 DEF Bound, Staged, Selected
<1> QED
  BY <1>5, <1>6, <1>7, <1>8, <1>9

(* All blocks are entered.                                                 *)
LEMMA GroupedOK == IInv /\ Grouped => IInv'
<1> SUFFICES ASSUME IInv, Grouped PROVE IInv'
  OBVIOUS
<1> USE DEF IInv
<1>0. /\ phase = "group" /\ phase' = "listen" /\ todo > Len(kept) /\ todo' = 1
      /\ UNCHANGED <<blocks, servers, errors, seen, kept, port, addresses, listeners, chosen>>
  BY DEF Grouped
<1>1. TypeOK'
  BY <1>0 DEF TypeOK, Selected
<1>2. Numbered' /\ Accounted' /\ Claimed' /\ Disjoint'
  <2>1. Pending' = Pending
    BY <1>0 DEF Pending
  <2> QED
    BY <1>0, <2>1, SettledOK
<1>3. Staged'
  BY <1>0, Elements DEF Staged
<1>4. Grouping'
  <2>1. \A s \in 1 .. Len(kept) : s < todo
    BY <1>0, Elements
  <2>2. \A k : Under(k)' = Under(k)
    BY <1>0, <2>1 DEF Under
  <2> QED
    BY <1>0, <2>2 DEF Grouping
<1>5. Bound' /\ Selected'
  BY <1>0 DEF Bound, Selected, Staged
<1> QED
  BY <1>1, <1>2, <1>3, <1>4, <1>5

(* An address is bound, or is skipped.                                     *)
LEMMA ListenOK == IInv /\ Listen => IInv'
<1> SUFFICES ASSUME IInv, Listen PROVE IInv'
  OBVIOUS
<1> USE DEF IInv
<1> DEFINE key == addresses[todo].key
<1>0. /\ phase = "listen" /\ phase' = "listen" /\ todo <= Len(addresses) /\ todo' = todo + 1
      /\ listeners' = WithListener(key, todo) \/ listeners' = listeners
      /\ UNCHANGED <<blocks, servers, errors, seen, kept, port, addresses, chosen>>
  BY DEF Listen
<1>1. /\ todo \in 1 .. Len(addresses) /\ Len(addresses) \in Nat /\ todo \in Nat
      /\ key \in Hosts \X Nat
  BY <1>0, Elements DEF Staged, Address
<1> HIDE DEF key
<1>2. WithListener(key, todo) = [k \in DOMAIN listeners \cup {key} |->
                                   IF k = key THEN todo ELSE listeners[k]]
  BY DEF WithListener
<1>3. TypeOK'
  <2>1. DOMAIN listeners' \subseteq Hosts \X Nat /\ \A k \in DOMAIN listeners' : listeners'[k] \in Nat
    BY <1>0, <1>1, <1>2 DEF TypeOK
  <2>2. listeners' = [k \in DOMAIN listeners' |-> listeners'[k]]
    BY <1>0, <1>2 DEF TypeOK
  <2>3. listeners' \in [DOMAIN listeners' -> Nat]
    BY <2>1, <2>2
  <2>4. chosen' = NoRequest
    BY <1>0 DEF Selected
  <2> QED
    BY <1>0, <1>1, <2>1, <2>3, <2>4 DEF TypeOK
<1>4. Numbered' /\ Accounted' /\ Claimed' /\ Disjoint'
  <2>1. Pending' = Pending
    BY <1>0 DEF Pending
  <2> QED
    BY <1>0, <2>1, SettledOK
<1>5. Staged'
  BY <1>0, <1>1 DEF Staged
<1>6. Grouping'
  <2>1. \A k : Under(k)' = Under(k)
    BY <1>0 DEF Under
  <2> QED
    BY <1>0, <2>1 DEF Grouping
<1>7. Bound'
  BY <1>0, <1>1, <1>2 DEF Bound, key
<1>8. Selected'
  BY <1>0 DEF Selected
<1> QED
  BY <1>3, <1>4, <1>5, <1>6, <1>7, <1>8

(* The server starts, or gives up.                                         *)
LEMMA StartOK == IInv /\ Start => IInv'
<1> SUFFICES ASSUME IInv, Start PROVE IInv'
  OBVIOUS
<1> USE DEF IInv
<1>0. /\ phase = "listen" /\ phase' = (IF DOMAIN listeners = {} THEN "failed" ELSE "serve")
      /\ UNCHANGED <<blocks, servers, errors, seen, kept, todo, port, addresses, listeners, chosen>>
  BY DEF Start
<1>1. TypeOK'
  BY <1>0 DEF TypeOK, Selected
<1>2. Numbered' /\ Accounted' /\ Claimed' /\ Disjoint'
  <2>1. Pending' = Pending
    BY <1>0 DEF Pending
  <2> QED
    BY <1>0, <2>1, SettledOK
<1>3. Staged'
  BY <1>0 DEF Staged
<1>4. Grouping'
  <2>1. \A k : Under(k)' = Under(k)
    BY <1>0 DEF Under
  <2>2. Grouping /\ phase = "listen"
    BY <1>0
  <2> HIDE DEF IInv
  <2> QED
    BY <1>0, <2>1, <2>2 DEF Grouping
<1>5. Bound' /\ Selected'
  BY <1>0 DEF Bound, Selected
<1> QED
  BY <1>1, <1>2, <1>3, <1>4, <1>5

-----------------------------------------------------------------------------
(* select_server picks, of the blocks that listen on an address, the first *)
(* that matches, and the first of all if none does.                        *)
LEMMA SelectExact ==
    ASSUME TypeOK, Grouping, phase = "serve",
           NEW ai \in 1 .. Len(addresses), NEW h
    PROVE  LET t == SelectServer(ai, h)
               here == {s \in 1 .. Len(kept) : Listens(kept[s], addresses[ai].key)}
           IN  /\ t \in here
               /\ Matches(kept[t], h) => \A s \in here : Matches(kept[s], h) => t <= s
               /\ ~Matches(kept[t], h) => \A s \in here : t <= s /\ ~Matches(kept[s], h)
<1>1. PICK list \in Seq(Nat) : list = addresses[ai].servers
  BY Elements DEF Address
<1>2. PICK key : key = addresses[ai].key
  OBVIOUS
<1>3. PICK here : here = {s \in 1 .. Len(kept) : Listens(kept[s], key)}
  OBVIOUS
<1>4. /\ list # <<>>
      /\ NamesIn(list) = here
      /\ \A j, k \in 1 .. Len(list) : j < k => list[j] < list[k]
  <2>1. Under(key) = here
    BY <1>3 DEF Under
  <2> QED
    BY <1>1, <1>2, <2>1 DEF Grouping
<1>5. /\ Len(list) \in Nat /\ 1 \in 1 .. Len(list)
      /\ \A j \in 1 .. Len(list) : list[j] \in Nat
  BY <1>1, <1>4
<1>6. /\ \A j \in 1 .. Len(list) : list[j] \in here
      /\ \A s \in here : \E j \in 1 .. Len(list) : list[j] = s
  BY <1>4 DEF NamesIn
<1>7. \A j, k \in 1 .. Len(list) : j <= k => list[j] <= list[k]
  BY <1>4, <1>5
<1>8. PICK hits : hits = {i \in 1 .. Len(list) : Matches(kept[list[i]], h)}
  OBVIOUS
<1>9. CASE hits = {}
  <2>1. SelectServer(ai, h) = list[1]
    BY <1>1, <1>8, <1>9 DEF SelectServer
  <2>2. ASSUME NEW s \in here PROVE list[1] <= s /\ ~Matches(kept[s], h)
    <3>1. PICK j \in 1 .. Len(list) : list[j] = s
      BY <1>6
    <3>2. list[1] <= list[j]
      BY <1>5, <1>7, <3>1
    <3>3. j \notin hits
      BY <1>9
    <3>4. ~Matches(kept[list[j]], h)
      BY <1>8, <3>1, <3>3, Zenon
    <3> QED
      BY <3>1, <3>2, <3>4
  <2> QED
    BY <1>2, <1>3, <1>5, <1>6, <2>1, <2>2
<1>10. CASE hits # {}
  <2>1. hits \in SUBSET Nat
    BY <1>5, <1>8
  <2>2. \E i \in hits : \A j \in hits : i <= j
    BY <1>10, <2>1, LeastNatural
  <2>3. PICK i \in hits : i = CHOOSE least \in hits : \A j \in hits : least <= j
    BY <2>2
  <2>4. \A j \in hits : i <= j
    BY <2>2, <2>3
  <2>5. SelectServer(ai, h) = list[i]
    BY <1>1, <1>8, <1>10, <2>3 DEF SelectServer
  <2>6. i \in 1 .. Len(list) /\ Matches(kept[list[i]], h)
    BY <1>8, <2>3
  <2>7. ASSUME NEW s \in here, Matches(kept[s], h) PROVE list[i] <= s
    <3>1. PICK j \in 1 .. Len(list) : list[j] = s
      BY <1>6
    <3>2. j \in hits
      BY <1>8, <2>7, <3>1, Zenon
    <3> QED
      BY <1>5, <1>7, <2>4, <2>6, <3>1, <3>2
  <2> QED
    BY <1>2, <1>3, <1>6, <2>5, <2>6, <2>7
<1> QED
  BY <1>9, <1>10

(* A request is given to a block.                                          *)
LEMMA RequestOK == IInv /\ Request => IInv'
<1> SUFFICES ASSUME IInv, Request PROVE IInv'
  OBVIOUS
<1> USE DEF IInv
<1>0. /\ phase = "serve"
      /\ UNCHANGED <<phase, blocks, servers, errors, seen, kept, todo, port, addresses, listeners>>
  BY DEF Request
<1>1. PICK key \in DOMAIN listeners, h \in Headers \cup {NoHost} :
         chosen' = [at |-> key, host |-> h, server |-> SelectServer(listeners[key], h)]
  BY DEF Request
<1>2. listeners[key] \in 1 .. Len(addresses) /\ key \in Hosts \X Nat
  BY <1>0 DEF Bound, TypeOK
<1>3. SelectServer(listeners[key], h) \in 1 .. Len(kept)
  BY <1>0, <1>2, SelectExact
<1>4. TypeOK'
  BY <1>0, <1>1, <1>2, <1>3 DEF TypeOK
<1>5. Numbered' /\ Accounted' /\ Claimed' /\ Disjoint'
  <2>1. Pending' = Pending
    BY <1>0 DEF Pending
  <2> QED
    BY <1>0, <2>1, SettledOK
<1>6. Staged' /\ Bound'
  BY <1>0 DEF Staged, Bound
<1>7. Grouping'
  <2>1. \A k : Under(k)' = Under(k)
    BY <1>0 DEF Under
  <2> QED
    BY <1>0, <2>1 DEF Grouping
<1>8. Selected'
  <2>1. chosen'.at = key /\ chosen'.host = h /\ chosen'.server = SelectServer(listeners[key], h)
    BY <1>1
  <2>2. addresses' = addresses /\ kept' = kept /\ listeners' = listeners /\ phase' = "serve"
    BY <1>0
  <2>3. SelectServer(listeners[chosen.at], chosen.host)' = SelectServer(listeners[key], h)
    BY <2>1, <2>2 DEF SelectServer
  <2>4. chosen'.server = SelectServer(listeners[chosen.at], chosen.host)'
    BY <2>1, <2>3
  <2> QED
    BY <2>1, <2>2, <2>4 DEF Selected
<1> QED
  BY <1>4, <1>5, <1>6, <1>7, <1>8

-----------------------------------------------------------------------------
(* The invariant is inductive.                                             *)
LEMMA NextOK == IInv /\ [Next]_vars => IInv'
BY ParseServerBlockOK, EndOfFileOK, ValidateOK, ValidatedOK, GroupPortOK, GroupedOK, ListenOK,
   StartOK, RequestOK, StutterOK DEF Next

(* The invariant the others rest on: blocks are accounted for while they   *)
(* are validated one by one, what is claimed by those that are kept is     *)
(* claimed once, and addresses are exact for those entered so far.         *)
THEOREM Invariance == Spec => []IInv
<1>1. Init => IInv
  BY InitOK
<1>2. IInv /\ [Next]_vars => IInv'
  BY NextOK
<1> QED
  BY <1>1, <1>2, PTL DEF Spec

(* Every variable has its type, in every reachable state.                  *)
THEOREM TypeCorrect == Spec => []TypeOK
<1>1. IInv => TypeOK
  BY DEF IInv
<1> QED
  BY <1>1, Invariance, PTL

(* Of any file, a block is served exactly if no error that costs it was    *)
(* reported, and of those with a port exactly those that repeat nothing    *)
(* and claim nothing that a block before them claims, in their order.      *)
THEOREM EveryBlockAccounted == Spec => []KeptOrReported
<1>1. IInv => KeptOrReported
  <2> SUFFICES ASSUME IInv, phase \notin {"parse", "validate"}
               PROVE  /\ \A n \in 1 .. blocks : Served(n) <=> ~Fatal(n)
                      /\ \A i, j \in 1 .. Len(kept) : i < j => kept[i].nr < kept[j].nr
                      /\ \A i \in 1 .. Len(servers) : Served(servers[i].nr) <=> Distinct(i)
    BY DEF KeptOrReported
  <2>1. Pending = {} /\ Done = 1 .. Len(servers)
    BY DEF Pending, Done
  <2>2. \A n : (Served(n) <=> ServedIn(kept, n)) /\ (Fatal(n) <=> FatalIn(errors, n))
    BY DEF Served, Fatal, ServedIn, FatalIn
  <2>3. \A n : ServedIn(kept, n) => ~FatalIn(errors, n)
    BY DEF IInv, Accounted, ServedIn
  <2>4. \A n \in 1 .. blocks : FatalIn(errors, n) \/ ServedIn(kept, n)
    BY <2>1 DEF IInv, Accounted
  <2>5. \A i \in 1 .. Len(servers) : ServedIn(kept, servers[i].nr) <=> Distinct(i)
    BY <2>1 DEF IInv, Claimed
  <2>6. \A i, j \in 1 .. Len(kept) : i < j => kept[i].nr < kept[j].nr
    BY DEF IInv, Accounted
  <2> QED
    BY <2>2, <2>3, <2>4, <2>5, <2>6
<1> QED
  BY <1>1, Invariance, PTL

(* bind groups any blocks exactly by their addresses, whichever of the     *)
(* addresses can be bound.                                                 *)
THEOREM AddressesAlwaysExact == Spec => []AddressesExact
<1>1. IInv => AddressesExact
  <2> SUFFICES ASSUME IInv, phase \in {"listen", "serve"} PROVE AddressesExact
    BY DEF AddressesExact
  <2> USE DEF IInv
  <2>1. \A key : Under(key) = {s \in 1 .. Len(kept) : Listens(kept[s], key)}
    BY DEF Under
  <2>2. ASSUME NEW s \in 1 .. Len(kept), NEW p \in NamesIn(kept[s].ports)
        PROVE  \E i \in 1 .. Len(addresses) : addresses[i].key = <<kept[s].host, p>>
    <3>1. s \in Under(<<kept[s].host, p>>)
      BY <2>1 DEF Listens
    <3> QED
      BY <3>1 DEF Grouping
  <2>3. \A i, j \in 1 .. Len(addresses) : addresses[i].key = addresses[j].key => i = j
    BY DEF Grouping
  <2>4. \A i \in 1 .. Len(addresses) :
           /\ NamesIn(addresses[i].servers)
                 = {s \in 1 .. Len(kept) : Listens(kept[s], addresses[i].key)}
           /\ \A j, k \in 1 .. Len(addresses[i].servers) :
                 j < k => addresses[i].servers[j] < addresses[i].servers[k]
    BY <2>1 DEF Grouping
  <2> QED
    BY <2>2, <2>3, <2>4 DEF AddressesExact, Bound
<1> QED
  BY <1>1, Invariance, PTL

(* Where the last request came in, and what select_server made of it.      *)
LEMMA ChosenExact ==
    ASSUME IInv, chosen # NoRequest
    PROVE  LET t == chosen.server
               here == {s \in 1 .. Len(kept) : Listens(kept[s], chosen.at)}
           IN  /\ t \in here
               /\ Matches(kept[t], chosen.host) =>
                     \A s \in here : Matches(kept[s], chosen.host) => t <= s
               /\ ~Matches(kept[t], chosen.host) =>
                     \A s \in here : t <= s /\ ~Matches(kept[s], chosen.host)
<1>1. /\ phase = "serve" /\ chosen.server = SelectServer(listeners[chosen.at], chosen.host)
      /\ listeners[chosen.at] \in 1 .. Len(addresses)
      /\ addresses[listeners[chosen.at]].key = chosen.at
  BY DEF IInv, Selected, Bound
<1>2. PICK ai \in 1 .. Len(addresses) : ai = listeners[chosen.at]
  BY <1>1
<1>3. PICK h : h = chosen.host
  OBVIOUS
<1>4. TypeOK /\ Grouping
  BY DEF IInv
<1> QED
  BY <1>1, <1>2, <1>3, <1>4, SelectExact

(* A request that names a block on an address of that block is answered by *)
(* it, or by an earlier block whose name differs in case alone.            *)
THEOREM NamedServerAlwaysAnswers == Spec => []NamedServerAnswers
<1>1. IInv => NamedServerAnswers
  <2> SUFFICES ASSUME IInv, chosen # NoRequest,
                      NEW s \in 1 .. Len(kept),
                      Listens(kept[s], chosen.at), chosen.host \in NamesIn(kept[s].names)
               PROVE  \/ chosen.server = s
                      \/ /\ chosen.server < s
                         /\ Listens(kept[chosen.server], chosen.at)
                         /\ \E n \in NamesIn(kept[chosen.server].names) :
                               n # chosen.host /\ Fold[n] = Fold[chosen.host]
    BY DEF NamedServerAnswers
  <2>1. PICK h : h = chosen.host
    OBVIOUS
  <2>2. PICK t : t = chosen.server
    OBVIOUS
  <2>3. kept[s] \in Block /\ h \in Names /\ h # NoHost
    <3>1. kept[s] \in Block
      BY Elements DEF IInv
    <3>2. kept[s].names \in Seq(Names)
      BY <3>1, BlockTypes
    <3>3. h \in Names
      BY <2>1, <3>2 DEF NamesIn
    <3> QED
      BY <3>1, <3>3, HostsAssumption
  <2>4. Matches(kept[s], h)
    BY <2>1, <2>3 DEF Matches
  <2>5. /\ t \in 1 .. Len(kept) /\ Listens(kept[t], chosen.at)
        /\ Matches(kept[t], h) /\ t <= s
    BY <2>1, <2>2, <2>4, ChosenExact
  <2>6. CASE t = s
    BY <2>2, <2>6
  <2>7. CASE t # s
    <3>1. t < s
      <4>1. s \in Nat /\ t \in Nat
        BY <2>5, Elements DEF IInv
      <4> QED
        BY <2>5, <2>7, <4>1
    <3>2. PICK n \in NamesIn(kept[t].names) : Fold[n] = Fold[h]
      BY <2>5 DEF Matches
    <3>3. Triples(kept[t]) \cap Triples(kept[s]) = {}
      BY <2>5, <2>7 DEF IInv, Disjoint
    <3>4. n # h
      <4> SUFFICES ASSUME n = h PROVE FALSE
        OBVIOUS
      <4>1. h \in NamesOf(kept[s]) /\ h \in NamesOf(kept[t])
        BY <2>1, <3>2 DEF NamesOf, NamesIn
      <4>2. /\ kept[s].host = kept[t].host
            /\ chosen.at[2] \in NamesIn(kept[s].ports) /\ chosen.at[2] \in NamesIn(kept[t].ports)
        BY <2>5 DEF Listens
      <4>3. <<kept[s].host, chosen.at[2], h>> \in Triples(kept[s])
        BY <4>1, <4>2 DEF Triples
      <4>4. <<kept[s].host, chosen.at[2], h>> \in Triples(kept[t])
        BY <4>1, <4>2 DEF Triples
      <4> QED
        BY <3>3, <4>3, <4>4
    <3> QED
      BY <2>1, <2>2, <2>5, <3>1, <3>2, <3>4
  <2> QED
    BY <2>6, <2>7
<1> QED
  BY <1>1, Invariance, PTL

(* Whoever answers listens on the address the request came in on, and      *)
(* without its name only as the first there when no other has it.          *)
THEOREM OwnersAlwaysAnswer == Spec => []OwnersAnswer
<1>1. IInv => OwnersAnswer
  BY ChosenExact DEF OwnersAnswer
<1> QED
  BY <1>1, Invariance, PTL
=============================================================================
