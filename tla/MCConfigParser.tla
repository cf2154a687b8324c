--------------------------- MODULE MCConfigParser ---------------------------
(* Files of up to four lines, whole blocks and fragments of them.          *)
EXTENDS ConfigParser, TLC

(* Words apart from each other; braces and semicolons need no space.       *)
Words(ws) ==
    FlattenSeq([i \in DOMAIN ws |->
                  IF i < Len(ws) /\ {ws[i], ws[i + 1]} \cap Punctuation = {}
                  THEN <<ws[i], " ">> ELSE <<ws[i]>>])

Small == [text |-> Words(<<"server", "{", "port", "80", ";", "}">>),
          server |-> [NewServer EXCEPT !.ports = <<80>>]]
Large == [text |-> <<"server", "{", "#", "}", "nl">>
                     \o Words(<<"host", "10.0.0.1", ";", "listen", "81", "80", ";",
                                "server_name", "a", "b", ";", "error_page", "80", "81", "p", ";",
                                "client_max_body_size", "1k", ";",
                                "route", "/", "{", "methods", "get", ";", "root", "r", ";",
                                "index", "i", ";", "autoindex", "on", ";", "cgi", ".py", "py", ";",
                                "redirect", "80", "u", ";", "}", "}">>),
          server |-> [host |-> "ten", ports |-> <<81, 80>>, names |-> <<<<"a">>, <<"b">>>>,
                       pages |-> 80 :> <<"p">> @@ 81 :> <<"p">>, size |-> 1024,
                       routes |-> <<[path |-> <<"/">>, methods |-> <<"GET">>, root |-> {<<"r">>},
                                     index |-> {<<"i">>}, autoindex |-> TRUE,
                                     cgi |-> <<".py">> :> <<"py">>,
                                     redirect |-> {<<80, <<"u">>>>}]>>]]

(* What the author of a block means is what the grammar makes of it.       *)
ASSUME BlocksMeant ==
    \A block \in {Small, Large} :
        LET ts == Tokenize(Append(block.text, "nl"))
        IN  IsServer(ts, 1, Len(ts)) /\ ServersMade(ts, 1, Len(ts)) = {block.server}

Fragments ==
    {Words(ws) : ws \in {<<"server", "{">>, <<"server", "{", "port", "82", ";">>,
                            <<"server">>, <<"}">>, <<"{">>, <<";">>,
                            <<"route", "/", "{", "root", "r", ";">>, <<"route">>,
                            <<"port", "82">>, <<"port", "x">>, <<"autoindex", ";">>,
                            <<"error_page", "80", ";">>, <<"#", "}">>}}

Concat(S, T) == {s \o t : s \in S, t \in T}
Lines(S) == {Append(text, "nl") : text \in S}
One == Lines(Fragments \cup {Small.text})
UpToTwo == {<<>>} \cup One \cup Concat(One, One)
Whole == Lines({Large.text})
SomeTexts == Concat(UpToTwo, UpToTwo) \cup Concat(UpToTwo, Whole) \cup Concat(Whole, UpToTwo)

Numbers == <<"80">> :> 80 @@ <<"81">> :> 81 @@ <<"82">> :> 82
Addresses == <<"10.0.0.1">> :> "ten"
Sizes == <<"1k">> :> 1024
UpperCase == <<"get">> :> "GET"
=============================================================================
