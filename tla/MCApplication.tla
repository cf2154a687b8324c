--------------------------- MODULE MCApplication ---------------------------
(* A server block with five routes, and requests for each of its cases.     *)
EXTENDS Application

CONSTANTS c1, c2, r1, r2, k

Symmetry == Permutations({c1, c2}) \cup Permutations({r1, r2})

Route(path, methods, root) ==
    [path |-> path, methods |-> methods, root |-> root, index |-> {}, autoindex |-> FALSE,
     cgi |-> {}, redirect |-> {}]

SomeRoutes ==
    <<[Route(<<"site">>, {"GET"}, {<<"www">>}) EXCEPT !.index = {<<"index">>}],
      [Route(<<"up">>, {}, {<<"data">>}) EXCEPT !.autoindex = TRUE],
      [Route(<<"up", "cgi">>, {"POST", "PUT"}, {<<"bin">>}) EXCEPT !.cgi = {".py"}],
      [Route(<<"old">>, {}, {}) EXCEPT !.redirect = {301}],
      Route(<<"bare">>, {}, {})>>

(* "a" beside the roots is what no request may reach.                      *)
SomePaths == {<<"www">>, <<"www", "index">>, <<"data">>, <<"data", "a">>, <<"data", "d">>,
              <<"data", "d", "a">>, <<"bin">>, <<"bin", "s.py">>, <<"a">>}
Disk == [p \in SomePaths |->
            CASE p \in {<<"www">>, <<"bin">>} -> Dir
              [] p \in {<<"www", "index">>, <<"bin", "s.py">>, <<"a">>} -> File(<<"old">>)
              [] OTHER -> Absent]

Extensions == "s.py" :> ".py"
Names == "file d" :> <<"d">> @@ "file ../a" :> <<"..", "a">> @@ "file .." :> <<"..">>

(* filename=x and a line end, Content-Type: text/d.                        *)
Loose == <<"file x", "cr", "lf", "type">>
LooseNames == Loose :> <<"x type text", "d">>

Fields == "Status: 404" :> [kind |-> "status", value |-> 404]
          @@ "Content-Type" :> [kind |-> "type", value |-> 0]
          @@ "Content-Length" :> [kind |-> "framing", value |-> 0]

Part(line, data) ==
    [fields |-> <<"disposition", line>>, data |-> data,
     name |-> IF line \in DOMAIN Names THEN Names[line] ELSE <<>>]

Plain(method, path) ==
    [method |-> method, path |-> path, multipart |-> FALSE, body |-> <<"x">>, sent |-> <<>>]
Upload(parts) ==
    [method |-> "POST", path |-> <<"up">>, multipart |-> TRUE, body |-> Encode(parts),
     sent |-> parts]

LooseRequests == {Upload(<<[Part("text", <<"y">>) EXCEPT !.fields = Loose]>>)}

SomeRequests ==
    {Plain("GET", p) : p \in {<<>>, <<"site">>, <<"up">>, <<"up", "a">>, <<"up", "d", "..", "..", "a">>,
                             <<"old", "x">>, <<"bare">>}}
    \cup {Plain("POST", p) : p \in {<<"site">>, <<"up">>, <<"up", "d", "a">>, <<"up", "cgi", "s.py">>}}
    \cup {Plain("DELETE", p) : p \in {<<"up">>, <<"up", "a">>, <<"up", "d">>}}
    \cup {Plain("PUT", <<"up", "cgi", "x">>), Plain("POST", <<"up", "cgi", "..", "s.py">>)}
    \cup {Upload(<<Part("file d", CRLF), Part("file ../a", <<"y">>)>>),
          Upload(<<Part("file ..", <<"x">>), Part("text", <<"y">>)>>)}
    \cup LooseRequests

Printed(lines, eol, body, status, kept) ==
    [raw |-> Lines(lines, eol) \o eol \o body, lines |-> lines, eol |-> eol,
     status |-> status, fields |-> kept, body |-> body]

(* Nothing and bare text, as a script prints that fails or knows no CGI.   *)
SomeOutputs ==
    {[raw |-> text, lines |-> <<>>, eol |-> CRLF,
      status |-> 200, fields |-> <<"text/plain">>, body |-> text] : text \in {<<>>, <<"x">>}}
    \cup UNION {{Printed(<<"Content-Type">>, <<"lf">>, body, 200, <<"Content-Type">>),
            Printed(<<"Content-Length", "Status: 404">>, CRLF, body, 404, <<"text/plain">>)} :
           body \in {<<"x", "lf", "lf", "y">>, CRLF \o CRLF \o <<"x">>}}

(* So that what EffectsAsAnswered and CgiAnswerExact say is about them      *)
(* all, but for a file name without quotes.                                 *)
ASSUME MadeAndMeant ==
    /\ \A q \in SomeRequests : IsMade(q) <=> q \notin LooseRequests
    /\ \A out \in SomeOutputs : IsMeant(out)

SomeOthers ==
    {[path |-> <<"data">>, entry |-> Absent], [path |-> <<"data">>, entry |-> Dir],
     [path |-> <<"data", "a">>, entry |-> File(<<"other">>)], [path |-> <<"data", "a">>, entry |-> Dir],
     [path |-> <<"data", "d">>, entry |-> File(<<"other">>)],
     [path |-> <<"www", "index">>, entry |-> Absent]}
=============================================================================
