---------------------------- MODULE ConfigParser ----------------------------
(***************************************************************************)
(* The configuration parser (lc/src/config/parser.rs): tokens, then a      *)
(* recursive descent that reports errors and goes on.  An action is one    *)
(* iteration of the loop that the parser is in.                            *)
(*                                                                         *)
(* Data.  An element of a text is one of # { } ; a space, a newline, or a  *)
(* run of other characters.  Line numbers and wording of errors are left   *)
(* out.                                                                    *)
(***************************************************************************)
EXTENDS Naturals, SequencesExt, FiniteSetsExt

CONSTANTS
    Texts,     \* the files given to the parser
    U16,       \* the words that parse as u16, and their values
    Address,   \* the words that parse as IPv4 addresses, and those
    Bytes,     \* the words that parse_size accepts, and their values
    Upper,     \* method names in upper case
    NoAddress, DefaultSize

Punctuation == {"{", "}", ";"}

(* What ends a word, or a run of other characters.                         *)
Character == Punctuation \cup {"#", " ", "nl"} \cup STRING

ASSUME ParserAssumption == \A text \in Texts : text \in Seq(Character)

VARIABLES
    toks,      \* Parser.toks: one element for a brace or semicolon, else a word
    pos,       \* Parser.pos, from 1
    ctx,       \* the loop the parser is in
    server,    \* the block being read
    route,     \* the route being read
    servers,   \* the blocks read so far
    errors     \* positions at which errors were reported

vars == <<toks, pos, ctx, server, route, servers, errors>>

-----------------------------------------------------------------------------
(* tokenize: text becomes words and punctuation.                           *)

(* flush!: a word that has begun is a token.                               *)
Flush(lx) == IF lx.word = <<>> THEN lx.out ELSE Append(lx.out, lx.word)

(* The loop's body: what a character makes of out, word and in_comment.    *)
Lex(lx, c) ==
    IF lx.comment THEN [lx EXCEPT !.comment = (c # "nl")]
    ELSE IF c \in Punctuation
    THEN [out |-> Append(Flush(lx), <<c>>), word |-> <<>>, comment |-> FALSE]
    ELSE IF c \in {"#", " ", "nl"}
    THEN [out |-> Flush(lx), word |-> <<>>, comment |-> (c = "#")]
    ELSE [lx EXCEPT !.word = Append(@, c)]

Tokenize(text) ==
    Flush(FoldLeft(Lex, [out |-> <<>>, word |-> <<>>, comment |-> FALSE], text))

-----------------------------------------------------------------------------
(***************************************************************************)
(* Directives: what each does to its block, and whether it reports an      *)
(* error.  Both may happen.                                                *)
(***************************************************************************)

NewServer == [host |-> NoAddress, ports |-> <<>>, names |-> <<>>, pages |-> <<>>,
              size |-> DefaultSize, routes |-> <<>>]
NewRoute(path) == [path |-> path, methods |-> <<>>, root |-> {}, index |-> {},
                   autoindex |-> FALSE, cgi |-> <<>>, redirect |-> {}]

Good(block) == [block |-> block, bad |-> FALSE]
Bad(block) == [block |-> block, bad |-> TRUE]

(* The first argument, if f is defined on it.                              *)
Takes(args, f) == args # <<>> /\ Head(args) \in DOMAIN f

Values(args, f) ==
    FoldLeft(LAMBDA vs, a : IF a \in DOMAIN f THEN Append(vs, f[a]) ELSE vs, <<>>, args)

ApplyServer(s, name, args) ==
    CASE name = <<"host">> ->
            IF Takes(args, Address) THEN Good([s EXCEPT !.host = Address[Head(args)]]) ELSE Bad(s)
      [] name \in {<<"port">>, <<"listen">>} ->
            [block |-> [s EXCEPT !.ports = @ \o Values(args, U16)],
             bad |-> args = <<>> \/ ~(ToSet(args) \subseteq DOMAIN U16)]
      [] name = <<"server_name">> ->
            [block |-> [s EXCEPT !.names = @ \o args], bad |-> args = <<>>]
      [] name = <<"error_page">> ->
            IF Len(args) < 2 THEN Bad(s)
            ELSE LET codes == Front(args)
                 IN  [block |-> [s EXCEPT !.pages =
                                   [c \in DOMAIN @ \cup ToSet(Values(codes, U16)) |->
                                      IF c \in ToSet(Values(codes, U16)) THEN Last(args)
                                      ELSE s.pages[c]]],
                      bad |-> ~(ToSet(codes) \subseteq DOMAIN U16)]
      [] name = <<"client_max_body_size">> ->
            IF Takes(args, Bytes) THEN Good([s EXCEPT !.size = Bytes[Head(args)]]) ELSE Bad(s)
      [] OTHER -> Bad(s)

ApplyRoute(r, name, args) ==
    CASE name = <<"methods">> ->
            [block |-> [r EXCEPT !.methods = [i \in DOMAIN args |-> Upper[args[i]]]],
             bad |-> args = <<>>]
      [] name = <<"root">> /\ args # <<>> -> Good([r EXCEPT !.root = {Head(args)}])
      [] name = <<"index">> /\ args # <<>> -> Good([r EXCEPT !.index = {Head(args)}])
      [] name = <<"autoindex">> /\ args # <<>> /\ Head(args) \in {<<"on">>, <<"off">>} ->
            Good([r EXCEPT !.autoindex = (Head(args) = <<"on">>)])
      [] name = <<"cgi">> /\ Len(args) >= 2 ->
            Good([r EXCEPT !.cgi = [x \in DOMAIN @ \cup {args[1]} |->
                                      IF x = args[1] THEN args[2] ELSE r.cgi[x]]])
      [] name = <<"redirect">> /\ Len(args) >= 2 /\ args[1] \in DOMAIN U16 ->
            Good([r EXCEPT !.redirect = {<<U16[args[1]], args[2]>>}])
      [] OTHER -> Bad(r)

-----------------------------------------------------------------------------
(***************************************************************************)
(* The parser.                                                             *)
(***************************************************************************)

Marks == {<<c>> : c \in Punctuation}

IsTok(i, t) == i <= Len(toks) /\ toks[i] = t
IsWord(i) == i <= Len(toks) /\ toks[i] \notin Marks

Report(bad) == errors' = IF bad THEN errors \cup {pos} ELSE errors

(* Mutant: the position goes on beyond the end of the file.               *)
PastEnd == pos + 2

(* Two calls of advance, which stops at the end of the file.               *)
TwoAhead == Min({pos + 2, Len(toks) + 1})

(* Mutants: what ends the words is consumed, whatever it is; and a missing *)
(* semicolon is not reported.                                              *)
ReadThroughBrace ==
    LET end == Min({i \in pos .. Len(toks) + 1 : ~IsWord(i)})
    IN  [name |-> toks[pos], args |-> SubSeq(toks, pos + 1, end - 1),
         next |-> Min({end + 1, Len(toks) + 1}), bad |-> ~IsTok(end, <<";">>)]
ReadUnended ==
    LET end == Min({i \in pos .. Len(toks) + 1 : ~IsWord(i)})
    IN  [name |-> toks[pos], args |-> SubSeq(toks, pos + 1, end - 1),
         next |-> IF IsTok(end, <<";">>) THEN end + 1 ELSE end, bad |-> FALSE]

(* read_directive: words up to a semicolon, which a brace or the end of    *)
(* the file may stand in for.                                              *)
ReadDirective ==
    LET end == Min({i \in pos .. Len(toks) + 1 : ~IsWord(i)})
    IN  [name |-> toks[pos], args |-> SubSeq(toks, pos + 1, end - 1),
         next |-> IF IsTok(end, <<";">>) THEN end + 1 ELSE end,
         bad |-> ~IsTok(end, <<";">>)]

(* The loop of parse.                                                      *)
OpenServer ==
    /\ ctx = "top"
    /\ IsTok(pos, <<"server">>)
    /\ IF IsTok(pos + 1, <<"{">>)
       THEN pos' = pos + 2 /\ ctx' = "server" /\ server' = NewServer /\ Report(FALSE)
       ELSE pos' = pos + 1 /\ UNCHANGED <<ctx, server>> /\ Report(TRUE)
    /\ UNCHANGED <<toks, route, servers>>

ExpectServer ==
    /\ ctx = "top"
    /\ pos <= Len(toks)
    /\ ~IsTok(pos, <<"server">>)
    /\ pos' = pos + 1
    /\ Report(TRUE)
    /\ UNCHANGED <<toks, ctx, server, route, servers>>

Finish ==
    /\ ctx = "top"
    /\ pos > Len(toks)
    /\ ctx' = "done"
    /\ UNCHANGED <<toks, pos, server, route, servers, errors>>

(* The loop of parse_server_block, and what follows it.                    *)
CloseServer ==
    /\ ctx = "server"
    /\ IsTok(pos, <<"}">>) \/ pos > Len(toks)
    /\ pos' = IF pos > Len(toks) THEN pos ELSE pos + 1
    /\ ctx' = "top"
    /\ servers' = IF server.ports = <<>> THEN servers ELSE Append(servers, server)
    /\ Report(pos > Len(toks) \/ server.ports = <<>>)
    /\ UNCHANGED <<toks, server, route>>

(* parse_route_block up to its loop.  The path is whatever token follows;  *)
(* at the end of the file advance() gives `route` once more.               *)
OpenRoute ==
    /\ ctx = "server"
    /\ IsTok(pos, <<"route">>)
    /\ IF IsWord(pos + 1) /\ IsTok(pos + 2, <<"{">>)
       THEN pos' = pos + 3 /\ ctx' = "route" /\ route' = NewRoute(toks[pos + 1]) /\ Report(FALSE)
       ELSE /\ pos' = TwoAhead
            /\ UNCHANGED <<ctx, route>>
            /\ Report(TRUE)
    /\ UNCHANGED <<toks, server, servers>>

ServerDirective ==
    /\ ctx = "server"
    /\ IsWord(pos) /\ ~IsTok(pos, <<"route">>)
    /\ LET d == ReadDirective
           result == ApplyServer(server, d.name, d.args)
       IN  pos' = d.next /\ server' = result.block /\ Report(d.bad \/ result.bad)
    /\ UNCHANGED <<toks, ctx, route, servers>>

(* The loop of parse_route_block, and what follows it.                     *)
CloseRoute ==
    /\ ctx = "route"
    /\ IsTok(pos, <<"}">>) \/ pos > Len(toks)
    /\ pos' = IF pos > Len(toks) THEN pos ELSE pos + 1
    /\ ctx' = "server"
    /\ server' = [server EXCEPT !.routes = Append(@, route)]
    /\ Report(pos > Len(toks))
    /\ UNCHANGED <<toks, route, servers>>

RouteDirective ==
    /\ ctx = "route"
    /\ IsWord(pos)
    /\ LET d == ReadDirective
           result == ApplyRoute(route, d.name, d.args)
       IN  pos' = d.next /\ route' = result.block /\ Report(d.bad \/ result.bad)
    /\ UNCHANGED <<toks, ctx, server, servers>>

(* Mutant: the token is reported and left where it is.                     *)
UnexpectedKept ==
    /\ ctx \in {"server", "route"}
    /\ IsTok(pos, <<"{">>) \/ IsTok(pos, <<";">>)
    /\ Report(TRUE)
    /\ UNCHANGED <<toks, pos, ctx, server, route, servers>>

(* In either block.                                                        *)
Unexpected ==
    /\ ctx \in {"server", "route"}
    /\ IsTok(pos, <<"{">>) \/ IsTok(pos, <<";">>)
    /\ pos' = pos + 1
    /\ Report(TRUE)
    /\ UNCHANGED <<toks, ctx, server, route, servers>>

Init ==
    /\ toks \in {Tokenize(text) : text \in Texts}
    /\ pos = 1
    /\ ctx = "top"
    /\ server = NewServer
    /\ route = NewRoute(<<>>)
    /\ servers = <<>>
    /\ errors = {}

Next ==
    \/ OpenServer \/ ExpectServer \/ Finish
    \/ CloseServer \/ OpenRoute \/ ServerDirective
    \/ CloseRoute \/ RouteDirective \/ Unexpected

Spec == Init /\ [][Next]_vars

(* The parser is a loop that nothing blocks.                               *)
FairSpec == Spec /\ WF_vars(Next)

-----------------------------------------------------------------------------
(***************************************************************************)
(* Properties.                                                             *)
(***************************************************************************)

(* The position stays within the file or just behind it, only ports that   *)
(* parse are kept, and no block without a port is.                         *)
TypeOK ==
    /\ pos \in 1 .. Len(toks) + 1
    /\ ctx \in {"top", "server", "route", "done"}
    /\ ToSet(server.ports) \subseteq {U16[w] : w \in DOMAIN U16}
    /\ \A i \in DOMAIN servers : servers[i].ports # <<>>
    /\ errors \subseteq 1 .. Len(toks) + 1

(* Whatever the file holds, the parser comes to its end.                   *)
ParsingEnds == <>(ctx = "done")

(***************************************************************************)
(* The grammar, by trying every way to cut tokens ts, and what they mean.  *)
(* An item is given by the positions of its first and last tokens.         *)
(***************************************************************************)

Spans(ts) == {s \in (1 .. Len(ts)) \X (1 .. Len(ts)) : s[1] <= s[2]}

(* Every token of i .. j is in some item, one after another.               *)
Sequence(i, j, items) ==
    LET from[a \in 1 .. j + 1] ==
            a > j \/ \E b \in a .. j : <<a, b>> \in items /\ from[b + 1]
    IN  from[i]

IsDirective(ts, a, b) == b > a /\ ts[b] = <<";">> /\ \A k \in a .. b - 1 : ts[k] \notin Marks

Arguments(ts, a, b) == SubSeq(ts, a + 1, b - 1)

IsServerDirective(ts, a, b) ==
    /\ IsDirective(ts, a, b)
    /\ ts[a] # <<"route">>
    /\ ~ApplyServer(NewServer, ts[a], Arguments(ts, a, b)).bad

IsRouteDirective(ts, a, b) ==
    /\ IsDirective(ts, a, b)
    /\ ~ApplyRoute(NewRoute(<<>>), ts[a], Arguments(ts, a, b)).bad

RouteItems(ts) == {s \in Spans(ts) : IsRouteDirective(ts, s[1], s[2])}

IsRoute(ts, a, b) ==
    /\ b >= a + 3
    /\ ts[a] = <<"route">> /\ ts[a + 1] \notin Marks /\ ts[a + 2] = <<"{">> /\ ts[b] = <<"}">>
    /\ Sequence(a + 3, b - 1, RouteItems(ts))

ServerItems(ts) ==
    {s \in Spans(ts) : IsServerDirective(ts, s[1], s[2]) \/ IsRoute(ts, s[1], s[2])}

(* A directive that gives ports, where something may begin.                *)
PortIn(ts, a, b) ==
    \E c, d \in a .. b : /\ ts[c - 1] \in Marks
                         /\ ts[c] \in {<<"port">>, <<"listen">>}
                         /\ IsServerDirective(ts, c, d)

IsServer(ts, a, b) ==
    /\ b >= a + 2
    /\ ts[a] = <<"server">> /\ ts[a + 1] = <<"{">> /\ ts[b] = <<"}">>
    /\ Sequence(a + 2, b - 1, ServerItems(ts))
    /\ PortIn(ts, a + 2, b - 1)

Servers(ts) == {s \in Spans(ts) : IsServer(ts, s[1], s[2])}

(* The routes that the items before i make, in a route block at r, and the *)
(* servers that they make in a server block at a.                          *)
RoutesMade(ts, r, i) ==
    LET made[k \in 1 .. Len(ts) + 1] ==
            IF k = r + 3 THEN {NewRoute(ts[r + 1])}
            ELSE UNION {{ApplyRoute(x, ts[c], Arguments(ts, c, k - 1)).block : x \in made[c]} :
                          c \in {c \in r + 3 .. k - 1 : IsRouteDirective(ts, c, k - 1)}}
    IN  made[i]

ServersMade(ts, a, i) ==
    LET made[k \in 1 .. Len(ts) + 1] ==
            IF k = a + 2 THEN {NewServer}
            ELSE UNION (
                {{ApplyServer(s, ts[c], Arguments(ts, c, k - 1)).block : s \in made[c]} :
                   c \in {c \in a + 2 .. k - 1 : IsServerDirective(ts, c, k - 1)}}
                \cup
                {{[s EXCEPT !.routes = Append(@, x)] : s \in made[c], x \in RoutesMade(ts, c, k - 1)} :
                   c \in {c \in a + 2 .. k - 1 : IsRoute(ts, c, k - 1)}})
    IN  made[i]

(* How many blocks the first n tokens leave open.  A brace that closes     *)
(* nothing does not count, and neither does one in a server block that     *)
(* comes where the path of a `route` should be: the parser takes it for    *)
(* the path.                                                               *)
OpenBlocks(ts, n) ==
    LET open[i \in 0 .. Len(ts)] ==
            IF i = 0 THEN 0
            ELSE LET depth == open[i - 1]
                     path == depth = 1 /\ i > 1 /\ ts[i - 1] = <<"route">>
                 IN  CASE ts[i] = <<"{">> -> depth + 1
                       [] ts[i] = <<"}">> /\ depth > 0 /\ ~path -> depth - 1
                       [] OTHER -> depth
    IN  open[n]

(* A file is accepted without a complaint exactly if it is a sequence of   *)
(* well-formed server blocks.  This says whether anything is complained    *)
(* of, not what: errors that lie close together may be reported as one.    *)
ComplaintsExact ==
    ctx = "done" => (errors = {} <=> Sequence(1, Len(toks), Servers(toks)))

(* One broken block does not take down the rest: a well-formed block that  *)
(* stands outside every other yields the server it means, whatever is      *)
(* broken before or after it.                                              *)
BlocksStandAlone ==
    ctx = "done" =>
        \A a, b \in DOMAIN toks :
            IsServer(toks, a, b) /\ OpenBlocks(toks, a - 1) = 0
                => ToSet(servers) \cap ServersMade(toks, a, b) # {}
=============================================================================
