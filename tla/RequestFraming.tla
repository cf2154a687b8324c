--------------------------- MODULE RequestFraming ---------------------------
(***************************************************************************)
(* How a connection's byte stream is cut into requests: parse_head,        *)
(* body_mode and decode_body (lc/src/http/request.rs), as try_dispatch     *)
(* calls them on inbuf after each read and after each answer.  The whole   *)
(* buffer is parsed anew every time, so what has to be shown is that reads *)
(* may split the stream anywhere.                                          *)
(*                                                                         *)
(* Data.  An element of the stream is a byte, except that a request line   *)
(* ("GET / HTTP/1.1") and a header field ("Content-Length: 2 ") are one    *)
(* element each.  Text is ASCII, so from_utf8 never fails.                 *)
(***************************************************************************)
EXTENDS Naturals, Sequences, FiniteSetsExt, SequencesExt

CONSTANTS
    Streams,         \* what a peer may send
    CR, LF, Semi,    \* the bytes that framing looks for
    DigitValue,      \* the hexadecimal digits and their values
    RequestLines,    \* request lines that are well formed
    Field,           \* header fields: their name ("te", "cl", "other") and value
    Chunked,         \* the value of a Transfer-Encoding that names `chunked`
    MaxHead,         \* MAX_HEAD_BYTES
    MaxBody,         \* client_max_body_size
    MaxSize,         \* usize::MAX
    ReadMax,         \* bytes of the read buffer
    OverflowChecks   \* is the build one that panics on overflow?

Digits == DOMAIN DigitValue
HeadWords == RequestLines \cup DOMAIN Field
Element == {CR, LF, Semi} \cup Digits \cup HeadWords

ASSUME FramingAssumption ==
    /\ Streams \subseteq Seq(Element)
    /\ CR # LF
    /\ DigitValue \in [Digits -> 0 .. 15]
    /\ MaxHead \in Nat /\ MaxBody \in Nat /\ ReadMax \in Nat \ {0}
    /\ MaxSize \in Nat /\ MaxBody <= MaxSize
    /\ \A s \in Streams : Len(s) + 2 <= MaxSize
    /\ Field \in [DOMAIN Field -> [name : {"te", "cl", "other"}, value : Nat]]
    /\ Chunked \in Nat
    /\ OverflowChecks \in BOOLEAN

VARIABLES
    stream,     \* the bytes the peer sends on the connection
    lo, hi,     \* inbuf is stream[lo + 1 .. hi]
    decision,   \* what try_dispatch last made of inbuf
    framed      \* history: the requests given to http::handle

vars == <<stream, lo, hi, decision, framed>>

CRLF == <<CR, LF>>
Wrap(n) == n % (MaxSize + 1)

IsAt(s, i, needle) ==
    /\ i + Len(needle) - 1 <= Len(s)
    /\ SubSeq(s, i, i + Len(needle) - 1) = needle

(* Where needle first starts in s at or after i; 0 if it does not.         *)
FindFrom(s, i, needle) ==
    LET hits == {j \in i .. Len(s) : IsAt(s, j, needle)}
    IN  IF hits = {} THEN 0 ELSE Min(hits)

Trim(s) ==
    LET ink == {i \in DOMAIN s : s[i] \notin {CR, LF}}
    IN  IF ink = {} THEN <<>> ELSE SubSeq(s, Min(ink), Max(ink))

-----------------------------------------------------------------------------
(***************************************************************************)
(* The head.                                                               *)
(***************************************************************************)

(* Where the lines of text begin, and the line that begins at a.           *)
LineStarts(text) == {1} \cup {i + 2 : i \in {j \in DOMAIN text : IsAt(text, j, CRLF)}}

LineAt(text, a) ==
    LET end == FindFrom(text, a, CRLF)
    IN  SubSeq(text, a, IF end = 0 THEN Len(text) ELSE end - 1)

WordsOf(line) == SelectSeq(line, LAMBDA e : e \in HeadWords)

(* Three parts separated by single spaces, the last an HTTP version.       *)
IsRequestLine(line) == \E r \in RequestLines : WordsOf(line) = <<r>>

(* A name without spaces before the first colon.                           *)
IsHeaderLine(line) == WordsOf(line) # <<>> /\ WordsOf(line)[1] \in DOMAIN Field

(* What a header line says; a value with anything else after it is no      *)
(* number and no transfer coding that the server knows.                    *)
FieldOf(line) ==
    IF line[1] \notin DOMAIN Field THEN [name |-> "other", value |-> 0]
    ELSE [Field[line[1]] EXCEPT !.value = IF Trim(Tail(line)) = <<>> THEN @ ELSE MaxSize + 1]

(* The value the headers give to name: a later one replaces an earlier.    *)
Given(fields, name) == {a \in DOMAIN fields : fields[a].name = name}
Has(fields, name) == Given(fields, name) # {}
ValueOf(fields, name) == fields[Max(Given(fields, name))].value

(* Mutant: an unfinished head may be of any size.                          *)
NeverTooLong(buf) == FALSE

(* Asked of a buffer without the end of a head.                            *)
HeadTooLong(buf) == Len(buf) > MaxHead

ParseHead(buf) ==
    LET end == FindFrom(buf, 1, CRLF \o CRLF)
        text == SubSeq(buf, 1, end - 1)
        headers == LineStarts(text) \ {1}
        wellFormed == /\ IsRequestLine(LineAt(text, 1))
                      /\ \A a \in headers : IsHeaderLine(LineAt(text, a))
    IN  IF end = 0 THEN [verdict |-> IF HeadTooLong(buf) THEN "bad" ELSE "need_more"]
        ELSE IF ~wellFormed THEN [verdict |-> "bad"]
        ELSE [verdict |-> "ok", len |-> end + 3,
              fields |-> [a \in headers |-> FieldOf(LineAt(text, a))]]

(* A Transfer-Encoding takes precedence over any Content-Length.           *)
BodyMode(fields) ==
    CASE Has(fields, "te") ->
            [mode |-> IF ValueOf(fields, "te") = Chunked THEN "chunked" ELSE "bad"]
      [] ~Has(fields, "te") /\ Has(fields, "cl") ->
            LET n == ValueOf(fields, "cl")
            IN  IF n > MaxSize THEN [mode |-> "bad"] ELSE [mode |-> "length", n |-> n]
      [] OTHER -> [mode |-> "length", n |-> 0]

-----------------------------------------------------------------------------
(***************************************************************************)
(* The body.  A decision is a verdict on a buffer and, for "ok", the bytes *)
(* used and what they carry.                                               *)
(***************************************************************************)

Decision == [verdict : {"need_more", "ok", "bad", "too_large", "panic"},
             len : Nat, body : Seq(Element)]

Decided(v) == [verdict |-> v, len |-> 0, body |-> <<>>]
Complete(n, body) == [verdict |-> "ok", len |-> n, body |-> body]

(* usize::from_str_radix of a chunk-size line, its extension left out;     *)
(* MaxSize + 1 stands for an error.                                        *)
Size(line) ==
    LET text == Trim(SubSeq(line, 1, Min({i - 1 : i \in {j \in DOMAIN line : line[j] = Semi}}
                                         \cup {Len(line)})))
    IN  IF text = <<>> \/ \E i \in DOMAIN text : text[i] \notin Digits THEN MaxSize + 1
        ELSE Min({MaxSize + 1, FoldLeft(LAMBDA n, d : 16 * n + DigitValue[d], 0, text)})

(* Mutants: a chunk is looked at before its line end is there; a body of   *)
(* exactly the limit is refused; no limit is enforced.                     *)
ChunkTooSoon(buf, at, size, got) ==
    IF Len(buf) < Wrap(at - 1 + size) THEN "need_more"
    ELSE IF Wrap(got + size) > MaxBody THEN "too_large"
    ELSE IF IsAt(buf, at + size, CRLF) THEN "ok" ELSE "bad"
ChunkUpToLimit(buf, at, size, got) ==
    IF Len(buf) < Wrap(at - 1 + size + 2) THEN "need_more"
    ELSE IF Wrap(got + size) >= MaxBody THEN "too_large"
    ELSE IF IsAt(buf, at + size, CRLF) THEN "ok" ELSE "bad"

(* What becomes of a chunk of size bytes at `at`, got bytes before it.     *)
(* The sums are of the machine's words; a slice beyond buf is a panic.     *)
ChunkVerdict(buf, at, size, got) ==
    IF OverflowChecks /\ at - 1 + size + 2 > MaxSize THEN "panic"
    ELSE IF Len(buf) < Wrap(at - 1 + size + 2) THEN "need_more"
    ELSE IF Wrap(got + size) > MaxBody THEN "too_large"
    ELSE IF at - 1 + size > Len(buf) THEN "panic"
    ELSE IF IsAt(buf, at + size, CRLF) THEN "ok" ELSE "bad"

(* Mutant: the last line end is left in the buffer.                        *)
TrailerShort(buf, at, body) ==
    LET blank == IF IsAt(buf, at, CRLF) THEN at
                 ELSE IF FindFrom(buf, at, CRLF \o CRLF) = 0 THEN 0
                 ELSE FindFrom(buf, at, CRLF \o CRLF) + 2
    IN  IF blank = 0 THEN Decided("need_more") ELSE Complete(blank - 1, body)

(* After the last chunk: lines up to a blank one, which is the line at     *)
(* `at` itself or follows the first pair of line ends.                     *)
Trailer(buf, at, body) ==
    LET pair == FindFrom(buf, at, CRLF \o CRLF)
        blank == IF IsAt(buf, at, CRLF) THEN at
                 ELSE IF pair = 0 THEN 0 ELSE pair + 2
    IN  IF blank = 0 THEN Decided("need_more") ELSE Complete(blank + 1, body)

(* The loop of decode_chunked: its variables are pos and out.              *)
Loop == [at : Nat \ {0}, out : Seq(Element)]

Decoding(buf) ==
    LET decode[c \in Loop] ==
          LET end == FindFrom(buf, c.at, CRLF)
              size == Size(SubSeq(buf, c.at, end - 1))
              data == end + 2
              v == ChunkVerdict(buf, data, size, Len(c.out))
          IN  CASE end = 0 -> Decided("need_more")
                [] end # 0 /\ size > MaxSize -> Decided("bad")
                [] end # 0 /\ size = 0 -> Trailer(buf, data, c.out)
                [] OTHER ->
                     IF v # "ok" THEN Decided(v)
                     ELSE decode[[at |-> data + size + 2,
                                  out |-> c.out \o SubSeq(buf, data, data + size - 1)]]
    IN  decode

DecodeChunked(buf) == Decoding(buf)[[at |-> 1, out |-> <<>>]]

(* Mutant: one byte more than the body is waited for.                      *)
DecodeTooLate(buf, mode) ==
    IF mode.mode = "chunked" THEN DecodeChunked(buf)
    ELSE IF mode.n > MaxBody THEN Decided("too_large")
    ELSE IF Len(buf) <= mode.n /\ mode.n > 0 THEN Decided("need_more")
    ELSE Complete(mode.n, SubSeq(buf, 1, mode.n))

DecodeBody(buf, mode) ==
    IF mode.mode = "chunked" THEN DecodeChunked(buf)
    ELSE IF mode.n > MaxBody THEN Decided("too_large")
    ELSE IF Len(buf) < mode.n THEN Decided("need_more")
    ELSE Complete(mode.n, SubSeq(buf, 1, mode.n))

(* The first request in buf, as try_dispatch finds it.                     *)
Decide(buf) ==
    LET head == ParseHead(buf)
        mode == BodyMode(head.fields)
        d == DecodeBody(SubSeq(buf, head.len + 1, Len(buf)), mode)
    IN  IF head.verdict # "ok" THEN Decided(head.verdict)
        ELSE IF mode.mode = "bad" THEN Decided("bad")
        ELSE IF d.verdict # "ok" THEN d
        ELSE Complete(head.len + d.len, d.body)

-----------------------------------------------------------------------------
(***************************************************************************)
(* The connection.                                                         *)
(***************************************************************************)

Inbuf == SubSeq(stream, lo + 1, hi)

(* try_dispatch on stream[l + 1 .. h].                                     *)
TryDispatch(l, h) ==
    LET d == Decide(SubSeq(stream, l + 1, h))
    IN  /\ lo' = l /\ hi' = h /\ decision' = d
        /\ framed' = IF d.verdict = "ok"
                     THEN Append(framed, [at |-> l, len |-> d.len, body |-> d.body])
                     ELSE framed
        /\ UNCHANGED stream

(* handle_read: any part of what is still to come, up to a buffer's worth. *)
Read ==
    /\ decision.verdict = "need_more"
    /\ \E n \in 1 .. Min({ReadMax, Len(stream) - hi}) : TryDispatch(lo, hi + n)

(* Mutant: the bytes after the request are drained with it.                *)
FinishBeyond ==
    /\ decision.verdict = "ok"
    /\ TryDispatch(lo + decision.len + 2, hi)

(* finish_response: the answered request is drained, the next one tried.   *)
(* (A connection may also be closed here, after which nothing happens.)    *)
Finish ==
    /\ decision.verdict = "ok"
    /\ TryDispatch(Min({lo + decision.len, hi}), hi)

Init ==
    /\ stream \in Streams
    /\ lo = 0 /\ hi = 0
    /\ decision = Decided("need_more")
    /\ framed = <<>>

Next == Read \/ Finish

Spec == Init /\ [][Next]_vars

-----------------------------------------------------------------------------
(***************************************************************************)
(* What a request is, said without a parser: the ways to cut the front of  *)
(* s into a head and a body that the head announces.                       *)
(***************************************************************************)

(* s[i .. j] is one line with its end.                                     *)
IsLine(s, i, j) ==
    /\ j >= i + 1 /\ IsAt(s, j - 1, CRLF)
    /\ \A k \in i .. j - 2 : ~IsAt(s, k, CRLF)

(* Where lines end that begin at i: a blank one, after any others.         *)
TrailerEnds(s) ==
    LET ends[i \in Nat \ {0}] ==
          {j \in {i + 1} : IsAt(s, i, CRLF)}
          \cup UNION {ends[j + 1] : j \in {k \in i + 2 .. Len(s) : IsLine(s, i, k)}}
    IN  ends

(* The chunked bodies in s of which a chunk begins at i.                   *)
BodiesAt(s) ==
    LET bodies[i \in Nat \ {0}] ==
          UNION {LET n == Size(SubSeq(s, i, j - 2))
                 IN  IF n = 0
                     THEN {[len |-> e, body |-> <<>>] : e \in TrailerEnds(s)[j + 1]}
                     ELSE IF ~IsAt(s, j + n + 1, CRLF) THEN {}
                     ELSE {[len |-> r.len, body |-> SubSeq(s, j + 1, j + n) \o r.body] :
                              r \in bodies[j + n + 3]}
                 : j \in {k \in i + 1 .. Len(s) : IsLine(s, i, k)}}
    IN  bodies

ChunkedBodies(s) == BodiesAt(s)[1]

Requests(s) ==
    LET head == ParseHead(s)
        rest == SubSeq(s, head.len + 1, Len(s))
        mode == BodyMode(head.fields)
        bodies == IF mode.mode = "chunked" THEN ChunkedBodies(rest)
                  ELSE IF mode.mode = "bad" \/ Len(rest) < mode.n THEN {}
                  ELSE {[len |-> mode.n, body |-> SubSeq(rest, 1, mode.n)]}
    IN  IF head.verdict # "ok" THEN {}
        ELSE {[len |-> head.len + b.len, body |-> b.body] : b \in bodies}

FromHere(at) == SubSeq(stream, at + 1, Len(stream))

-----------------------------------------------------------------------------
(* Every variable has its type.                                            *)
TypeOK ==
    /\ stream \in Seq(Element)
    /\ lo \in 0 .. hi /\ hi \in 0 .. Len(stream)
    /\ decision \in Decision
    /\ framed \in Seq([at : Nat, len : Nat \ {0}, body : Seq(Element)])

(* Every request that was handled is a request of the stream, body and     *)
(* all, within the limit, and starts where the one before it ended: no     *)
(* byte of a body is taken for framing, and no byte belongs to two.        *)
RequestsExact ==
    \A i \in DOMAIN framed :
        LET f == framed[i]
        IN  /\ [len |-> f.len, body |-> f.body] \in Requests(FromHere(f.at))
            /\ Len(f.body) <= MaxBody
            /\ f.at = IF i = 1 THEN 0 ELSE framed[i - 1].at + framed[i - 1].len

(* A request that is wholly buffered is not waited for: nothing else would *)
(* come to complete it.                                                    *)
NothingWithheld ==
    decision.verdict = "need_more" => Requests(Inbuf) = {}

(* What is decided of a buffer stands, whatever arrives after it: parsing  *)
(* the whole stream at once gives the same.  So reads may split it at any  *)
(* byte.  The exception is a head beyond MaxHead, refused or not as its    *)
(* end arrives.                                                            *)
SplitIndependent ==
    LET rest == FromHere(lo)
    IN  \/ decision.verdict = "need_more"
        \/ Decide(rest) = decision
        \/ decision.verdict = "bad" /\ FindFrom(rest, 1, CRLF \o CRLF) > MaxHead - 3

(* A request within the limits is never refused, however it arrives.       *)
RefusedForCause ==
    decision.verdict \in {"bad", "too_large"} =>
        \A r \in Requests(FromHere(lo)) :
            \/ Len(r.body) > MaxBody
            \/ FindFrom(FromHere(lo), 1, CRLF \o CRLF) > MaxHead - 3

(* The memory an undecided request holds is bounded, unless its body is    *)
(* chunked (whose size lines and trailers have no limit).                  *)
BufferBounded ==
    decision.verdict = "need_more" =>
        LET head == ParseHead(Inbuf)
        IN  IF head.verdict # "ok" THEN Len(Inbuf) <= MaxHead
            ELSE \/ BodyMode(head.fields).mode = "chunked"
                 \/ Len(Inbuf) < MaxHead + ReadMax + MaxBody
=============================================================================
