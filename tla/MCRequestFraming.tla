-------------------------- MODULE MCRequestFraming --------------------------
(* Streams put together from short pieces, for TLC.                        *)
EXTENDS RequestFraming, TLC

Hex == ("0" :> 0) @@ ("2" :> 2) @@ ("f" :> 15)
Headers ==
    ("len2" :> [name |-> "cl", value |-> 2]) @@ ("len9" :> [name |-> "cl", value |-> 9])
    @@ ("chunked" :> [name |-> "te", value |-> 1]) @@ ("gzip" :> [name |-> "te", value |-> 0])
    @@ ("host" :> [name |-> "other", value |-> 0])

End == <<"CR", "LF">>
Get == <<"get">> \o End \o End
Post(field) == <<"get">> \o End \o <<field>> \o End \o End
PostBoth(f, g) == <<"get">> \o End \o <<f>> \o End \o <<g>> \o End \o End

Heads == {Get, PostBoth("len2", "len9"), PostBoth("len9", "len2"), PostBoth("chunked", "len9"),
          PostBoth("gzip", "len2"), PostBoth("len2", "len2")}
            \cup {Post(f) : f \in DOMAIN Headers \cup {"0"}}
(* A whole chunk; sizes 2, 0, 255 and 2 with an extension; fragments of a  *)
(* chunk, of a trailer and of a line end; a head.                          *)
Pieces == {<<"2">> \o End \o <<"0", "2">> \o End,
           <<"2">> \o End, <<"0">> \o End, <<"f", "f">> \o End, <<"2", ";", "0">> \o End,
           <<"2", "0">>, <<"2">>, End, <<"CR">>, Get}

Concat(S, T) == {s \o t : s \in S, t \in T}
UpToTwo == {<<>>} \cup Pieces \cup Concat(Pieces, Pieces)

SomeStreams == Concat(Heads, UpToTwo)
               \cup Concat({Post("chunked")}, Concat(UpToTwo, UpToTwo))
=============================================================================
