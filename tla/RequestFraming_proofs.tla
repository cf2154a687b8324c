----------------------- MODULE RequestFraming_proofs -----------------------
(***************************************************************************)
(* What is proved of RequestFraming, for any streams, limits and sizes of  *)
(* reads.                                                                  *)
(***************************************************************************)
EXTENDS RequestFraming, SequenceTheorems, Recursion, TLAPS

Bytes == Seq(Element)

-----------------------------------------------------------------------------
(***************************************************************************)
(* Bytes.                                                                  *)
(***************************************************************************)

(* A part of a string of bytes.                                            *)
LEMMA Part ==
    ASSUME NEW s \in Bytes, NEW i \in Nat \ {0}, NEW j \in Int, j <= Len(s)
    PROVE  /\ SubSeq(s, i, j) \in Bytes
           /\ Len(SubSeq(s, i, j)) = IF i <= j THEN j - i + 1 ELSE 0
           /\ \A k \in 1 .. j - i + 1 : SubSeq(s, i, j)[k] = s[i + k - 1]
<1>1. Len(s) \in Nat /\ \A k \in 1 .. Len(s) : s[k] \in Element
    BY LenProperties, ElementOfSeq DEF Bytes
<1>2. \A k \in i .. j : s[k] \in Element
    BY <1>1
<1> QED
    BY <1>2, SubSeqProperties DEF Bytes

(* Where a line ends, and where two line ends stand side by side.          *)
LEMMA LineEnds ==
    ASSUME NEW s \in Bytes, NEW i \in Nat \ {0}
    PROVE  /\ IsAt(s, i, CRLF) <=> i + 1 <= Len(s) /\ s[i] = CR /\ s[i + 1] = LF
           /\ IsAt(s, i, CRLF \o CRLF) <=> IsAt(s, i, CRLF) /\ IsAt(s, i + 2, CRLF)
<1>1. Len(s) \in Nat
    BY LenProperties DEF Bytes
<1>2. CRLF \in Bytes /\ Len(CRLF) = 2 /\ CRLF[1] = CR /\ CRLF[2] = LF
    BY DEF CRLF, Bytes, Element
<1>3. /\ CRLF \o CRLF \in Bytes /\ Len(CRLF \o CRLF) = 4
      /\ (CRLF \o CRLF)[1] = CR /\ (CRLF \o CRLF)[2] = LF
      /\ (CRLF \o CRLF)[3] = CR /\ (CRLF \o CRLF)[4] = LF
    <2>1. /\ CRLF \o CRLF \in Bytes /\ Len(CRLF \o CRLF) = Len(CRLF) + Len(CRLF)
          /\ \A k \in 1 .. Len(CRLF) + Len(CRLF) :
                (CRLF \o CRLF)[k] = IF k <= Len(CRLF) THEN CRLF[k] ELSE CRLF[k - Len(CRLF)]
        BY <1>2, ConcatProperties, Zenon DEF Bytes
    <2> QED
        BY <1>2, <2>1
<1>4. ASSUME NEW k \in Nat \ {0}
      PROVE  IsAt(s, k, CRLF) <=> k + 1 <= Len(s) /\ s[k] = CR /\ s[k + 1] = LF
    <2>1. CASE k + 1 <= Len(s)
        <3>1. /\ SubSeq(s, k, k + 1) \in Bytes /\ Len(SubSeq(s, k, k + 1)) = 2
              /\ SubSeq(s, k, k + 1)[1] = s[k] /\ SubSeq(s, k, k + 1)[2] = s[k + 1]
            BY <1>1, <2>1, Part
        <3> DEFINE two == SubSeq(s, k, k + 1)
        <3> HIDE DEF two
        <3>2. two \in Bytes /\ Len(two) = 2 /\ two[1] = s[k] /\ two[2] = s[k + 1]
            BY <3>1 DEF two
        <3>3. s[k] = CR /\ s[k + 1] = LF => two = CRLF
            <4>1. s[k] = CR /\ s[k + 1] = LF => \A j \in 1 .. 2 : two[j] = CRLF[j]
                BY <1>2, <3>2
            <4> QED
                BY <1>2, <3>2, <4>1, SeqEqual DEF Bytes
        <3>4. two = CRLF => s[k] = CR /\ s[k + 1] = LF
            BY <1>2, <3>2
        <3>5. IsAt(s, k, CRLF) <=> two = CRLF
            BY <1>1, <1>2, <2>1 DEF IsAt, two
        <3> QED
            BY <2>1, <3>3, <3>4, <3>5
    <2>2. CASE ~(k + 1 <= Len(s))
        BY <1>1, <1>2, <2>2 DEF IsAt
    <2> QED
        BY <2>1, <2>2
<1>5. IsAt(s, i, CRLF \o CRLF) <=> IsAt(s, i, CRLF) /\ IsAt(s, i + 2, CRLF)
    <2>1. CASE i + 3 <= Len(s)
        <3> DEFINE four == SubSeq(s, i, i + 3)
        <3>1. /\ four \in Bytes /\ Len(four) = 4
              /\ four[1] = s[i] /\ four[2] = s[i + 1] /\ four[3] = s[i + 2] /\ four[4] = s[i + 3]
            BY <1>1, <2>1, Part
        <3> HIDE DEF four
        <3>2. s[i] = CR /\ s[i + 1] = LF /\ s[i + 2] = CR /\ s[i + 3] = LF
              => four = CRLF \o CRLF
            <4>1. s[i] = CR /\ s[i + 1] = LF /\ s[i + 2] = CR /\ s[i + 3] = LF
                  => \A j \in 1 .. 4 : four[j] = (CRLF \o CRLF)[j]
                BY <1>3, <3>1
            <4> QED
                BY <1>3, <3>1, <4>1, SeqEqual DEF Bytes
        <3>3. four = CRLF \o CRLF
              => s[i] = CR /\ s[i + 1] = LF /\ s[i + 2] = CR /\ s[i + 3] = LF
            BY <1>3, <3>1
        <3>4. IsAt(s, i, CRLF \o CRLF) <=> four = CRLF \o CRLF
            BY <1>1, <1>3, <2>1, SMTT(30) DEF IsAt, four
        <3> QED
            BY <1>1, <1>4, <2>1, <3>2, <3>3, <3>4
    <2>2. CASE ~(i + 3 <= Len(s))
        <3>1. ~IsAt(s, i, CRLF \o CRLF)
            BY <1>1, <1>3, <2>2 DEF IsAt
        <3> QED
            BY <1>1, <1>4, <2>2, <3>1
    <2> QED
        BY <2>1, <2>2
<1> QED
    BY <1>4, <1>5

(* find_from, when what is looked for is not empty: the first place, or 0. *)
FirstAt(s, i, needle, k) ==
    /\ k \in i .. Len(s) /\ IsAt(s, k, needle)
    /\ \A j \in i .. k - 1 : ~IsAt(s, j, needle)

(* FindFrom returns the first place at or after i where the needle stands, *)
(* and 0 when it stands nowhere.                                           *)
LEMMA FindsFirst ==
    ASSUME NEW s \in Bytes, NEW i \in Nat \ {0}, NEW needle
    PROVE  /\ FindFrom(s, i, needle) \in Nat
           /\ FindFrom(s, i, needle) = 0 => \A j \in i .. Len(s) : ~IsAt(s, j, needle)
           /\ FindFrom(s, i, needle) # 0 => FirstAt(s, i, needle, FindFrom(s, i, needle))
           /\ \A k : FirstAt(s, i, needle, k) => FindFrom(s, i, needle) = k
<1> DEFINE hits == {j \in i .. Len(s) : IsAt(s, j, needle)}
<1>1. hits \in SUBSET Nat /\ Len(s) \in Nat /\ 0 \notin hits
    BY LenProperties DEF Bytes
<1>2. FindFrom(s, i, needle) = IF hits = {} THEN 0 ELSE Min(hits)
    BY DEF FindFrom
<1>3. \A j : j \in hits <=> j \in i .. Len(s) /\ IsAt(s, j, needle)
    OBVIOUS
<1> HIDE DEF hits
<1>4. hits # {} => Min(hits) \in hits /\ \A j \in hits : Min(hits) <= j
    <2>1. hits # {} => \E x \in hits : \A y \in hits : x <= y
        BY <1>1, LeastNatural
    <2> QED
        BY <2>1 DEF Min
<1>5. \A k : FirstAt(s, i, needle, k) => FindFrom(s, i, needle) = k
    <2> SUFFICES ASSUME NEW k, FirstAt(s, i, needle, k) PROVE FindFrom(s, i, needle) = k
        OBVIOUS
    <2>1. k \in hits /\ \A j \in hits : k <= j
        BY <1>1, <1>3 DEF FirstAt
    <2>2. Min(hits) \in hits /\ Min(hits) <= k /\ k <= Min(hits)
        BY <1>4, <2>1
    <2>3. Min(hits) \in Nat /\ k \in Nat
        BY <1>1, <2>1, <2>2
    <2>4. Min(hits) = k
        BY <2>2, <2>3
    <2> QED
        BY <1>2, <2>1, <2>4
<1>6. hits # {} => FirstAt(s, i, needle, Min(hits))
    BY <1>1, <1>3, <1>4 DEF FirstAt
<1> QED
    BY <1>1, <1>2, <1>3, <1>4, <1>5, <1>6

-----------------------------------------------------------------------------
(***************************************************************************)
(* What more bytes do not change.                                          *)
(***************************************************************************)

(* s begins with buf.                                                      *)
Extends(s, buf) ==
    /\ s \in Bytes /\ buf \in Bytes
    /\ Len(buf) <= Len(s)
    /\ \A i \in 1 .. Len(buf) : s[i] = buf[i]

(* A buffer that holds the beginning of a stream is extended by the stream.*)
LEMMA PrefixExtends ==
    ASSUME NEW s \in Bytes, NEW n \in 0 .. Len(s)
    PROVE  Extends(s, SubSeq(s, 1, n)) /\ Len(SubSeq(s, 1, n)) = n
<1>1. Len(s) \in Nat
    BY LenProperties DEF Bytes
<1>2. /\ SubSeq(s, 1, n) \in Bytes /\ Len(SubSeq(s, 1, n)) = n
      /\ \A k \in 1 .. n : SubSeq(s, 1, n)[k] = s[k]
    BY <1>1, Part
<1> QED
    BY <1>1, <1>2 DEF Extends

(* What is cut out of the bytes already received is the same when more have*)
(* arrived.                                                                *)
LEMMA SamePart ==
    ASSUME NEW s, NEW buf, Extends(s, buf),
           NEW i \in Nat \ {0}, NEW j \in Int, j <= Len(buf)
    PROVE  SubSeq(s, i, j) = SubSeq(buf, i, j)
<1>1. /\ s \in Bytes /\ buf \in Bytes /\ Len(s) \in Nat /\ Len(buf) \in Nat
      /\ j <= Len(s) /\ \A k \in 1 .. Len(buf) : s[k] = buf[k]
    BY LenProperties DEF Bytes, Extends
<1>2. /\ SubSeq(s, i, j) \in Bytes /\ SubSeq(buf, i, j) \in Bytes
      /\ Len(SubSeq(s, i, j)) = Len(SubSeq(buf, i, j))
      /\ Len(SubSeq(s, i, j)) = IF i <= j THEN j - i + 1 ELSE 0
      /\ \A k \in 1 .. j - i + 1 : SubSeq(s, i, j)[k] = s[i + k - 1]
      /\ \A k \in 1 .. j - i + 1 : SubSeq(buf, i, j)[k] = buf[i + k - 1]
    BY <1>1, Part
<1>3. \A k \in 1 .. Len(SubSeq(s, i, j)) : SubSeq(s, i, j)[k] = SubSeq(buf, i, j)[k]
    BY <1>1, <1>2
<1> QED
    BY <1>2, <1>3, SeqEqual DEF Bytes

(* Behind a common beginning, the longer sequence still extends the        *)
(* shorter.                                                                *)
LEMMA RestExtends ==
    ASSUME NEW s, NEW buf, Extends(s, buf), NEW i \in Nat \ {0}
    PROVE  Extends(SubSeq(s, i, Len(s)), SubSeq(buf, i, Len(buf)))
<1>1. /\ s \in Bytes /\ buf \in Bytes /\ Len(s) \in Nat /\ Len(buf) \in Nat
      /\ Len(buf) <= Len(s) /\ \A k \in 1 .. Len(buf) : s[k] = buf[k]
    BY LenProperties DEF Bytes, Extends
<1> DEFINE a == SubSeq(s, i, Len(s))
           b == SubSeq(buf, i, Len(buf))
<1>2. /\ a \in Bytes /\ Len(a) = IF i <= Len(s) THEN Len(s) - i + 1 ELSE 0
      /\ \A k \in 1 .. Len(s) - i + 1 : a[k] = s[i + k - 1]
    BY <1>1, Part
<1>3. /\ b \in Bytes /\ Len(b) = IF i <= Len(buf) THEN Len(buf) - i + 1 ELSE 0
      /\ \A k \in 1 .. Len(buf) - i + 1 : b[k] = buf[i + k - 1]
    BY <1>1, Part
<1> HIDE DEF a, b
<1>4. Len(b) <= Len(a)
    BY <1>1, <1>2, <1>3
<1>5. ASSUME NEW k \in 1 .. Len(b) PROVE a[k] = b[k]
    <2>1. i + k - 1 \in 1 .. Len(buf) /\ k \in 1 .. Len(buf) - i + 1 /\ k \in 1 .. Len(s) - i + 1
        BY <1>1, <1>3
    <2> QED
        BY <1>1, <1>2, <1>3, <2>1
<1>6. Extends(a, b)
    BY <1>2, <1>3, <1>4, <1>5 DEF Extends
<1> QED
    BY <1>6 DEF a, b

(* A line end, or a pair of them, that is in buf is where it was.          *)
LEMMA SamePlaces ==
    ASSUME NEW s, NEW buf, Extends(s, buf), NEW i \in Nat \ {0}
    PROVE  /\ IsAt(buf, i, CRLF) <=> IsAt(s, i, CRLF) /\ i + 1 <= Len(buf)
           /\ IsAt(buf, i, CRLF \o CRLF) <=> IsAt(s, i, CRLF \o CRLF) /\ i + 3 <= Len(buf)
<1>1. /\ s \in Bytes /\ buf \in Bytes /\ Len(s) \in Nat /\ Len(buf) \in Nat
      /\ Len(buf) <= Len(s) /\ \A k \in 1 .. Len(buf) : s[k] = buf[k]
    BY LenProperties DEF Bytes, Extends
<1>2. ASSUME NEW k \in Nat \ {0}
      PROVE  IsAt(buf, k, CRLF) <=> IsAt(s, k, CRLF) /\ k + 1 <= Len(buf)
    BY <1>1, LineEnds
<1> QED
    BY <1>1, <1>2, LineEnds

(* A line ending or blank line found in the bytes received stays where it  *)
(* was found; one found later reaches beyond the bytes that were searched  *)
(* in vain.                                                                *)
LEMMA SameFind ==
    ASSUME NEW s, NEW buf, Extends(s, buf), NEW i \in Nat \ {0}
    PROVE  /\ FindFrom(buf, i, CRLF) # 0 => FindFrom(s, i, CRLF) = FindFrom(buf, i, CRLF)
           /\ FindFrom(buf, i, CRLF \o CRLF) # 0
                 => FindFrom(s, i, CRLF \o CRLF) = FindFrom(buf, i, CRLF \o CRLF)
           /\ FindFrom(buf, i, CRLF) = 0
                 => FindFrom(s, i, CRLF) = 0 \/ FindFrom(s, i, CRLF) + 1 > Len(buf)
           /\ FindFrom(buf, i, CRLF \o CRLF) = 0
                 => \/ FindFrom(s, i, CRLF \o CRLF) = 0
                    \/ FindFrom(s, i, CRLF \o CRLF) + 3 > Len(buf)
<1>1. s \in Bytes /\ buf \in Bytes /\ Len(s) \in Nat /\ Len(buf) \in Nat /\ Len(buf) <= Len(s)
    BY LenProperties DEF Bytes, Extends
<1>2. ASSUME NEW k, FirstAt(buf, i, CRLF, k) PROVE FirstAt(s, i, CRLF, k)
    <2>1. k \in i .. Len(buf) /\ IsAt(buf, k, CRLF) /\ \A j \in i .. k - 1 : ~IsAt(buf, j, CRLF)
        BY <1>2 DEF FirstAt
    <2>2. IsAt(s, k, CRLF) /\ k + 1 <= Len(buf)
        BY <1>1, <2>1, SamePlaces
    <2>3. \A j \in i .. k - 1 : ~IsAt(s, j, CRLF)
        BY <1>1, <2>1, <2>2, SamePlaces
    <2> QED
        BY <1>1, <2>1, <2>2, <2>3 DEF FirstAt
<1>3. ASSUME NEW k, FirstAt(buf, i, CRLF \o CRLF, k) PROVE FirstAt(s, i, CRLF \o CRLF, k)
    <2>1. /\ k \in i .. Len(buf) /\ IsAt(buf, k, CRLF \o CRLF)
          /\ \A j \in i .. k - 1 : ~IsAt(buf, j, CRLF \o CRLF)
        BY <1>3 DEF FirstAt
    <2>2. IsAt(s, k, CRLF \o CRLF) /\ k + 3 <= Len(buf)
        BY <1>1, <2>1, SamePlaces
    <2>3. \A j \in i .. k - 1 : ~IsAt(s, j, CRLF \o CRLF)
        BY <1>1, <2>1, <2>2, SamePlaces
    <2> QED
        BY <1>1, <2>1, <2>2, <2>3 DEF FirstAt
<1>4. ASSUME FindFrom(buf, i, CRLF \o CRLF) = 0, FindFrom(s, i, CRLF \o CRLF) # 0
      PROVE  FindFrom(s, i, CRLF \o CRLF) + 3 > Len(buf)
    <2> DEFINE k == FindFrom(s, i, CRLF \o CRLF)
    <2>1. FirstAt(s, i, CRLF \o CRLF, k)
        BY <1>1, <1>4, FindsFirst
    <2>2. k \in i .. Len(s) /\ IsAt(s, k, CRLF \o CRLF)
        BY <2>1 DEF FirstAt
    <2> HIDE DEF k
    <2>3. k \in i .. Len(buf) => ~IsAt(buf, k, CRLF \o CRLF)
        BY <1>1, <1>4, FindsFirst
    <2>4. k + 3 > Len(buf)
        BY <1>1, <2>2, <2>3, SamePlaces
    <2> QED
        BY <2>4 DEF k
<1>5. ASSUME FindFrom(buf, i, CRLF) = 0, FindFrom(s, i, CRLF) # 0
      PROVE  FindFrom(s, i, CRLF) + 1 > Len(buf)
    <2> DEFINE k == FindFrom(s, i, CRLF)
    <2>1. FirstAt(s, i, CRLF, k)
        BY <1>1, <1>5, FindsFirst
    <2>2. k \in i .. Len(s) /\ IsAt(s, k, CRLF)
        BY <2>1 DEF FirstAt
    <2> HIDE DEF k
    <2>3. k \in i .. Len(buf) => ~IsAt(buf, k, CRLF)
        BY <1>1, <1>5, FindsFirst
    <2>4. k + 1 > Len(buf)
        BY <1>1, <2>2, <2>3, SamePlaces
    <2> QED
        BY <2>4 DEF k
<1> QED
    BY <1>1, <1>2, <1>3, <1>4, <1>5, FindsFirst

-----------------------------------------------------------------------------
(***************************************************************************)
(* Heads.                                                                  *)
(***************************************************************************)

HeadEnd(buf) == FindFrom(buf, 1, CRLF \o CRLF)

HeaderFields == [name : {"te", "cl", "other"}, value : Nat]

(* The end of a head lies within the buffer.                               *)
LEMMA HeadEnds ==
    ASSUME NEW buf \in Bytes, HeadEnd(buf) # 0
    PROVE  HeadEnd(buf) \in Nat \ {0} /\ HeadEnd(buf) + 3 <= Len(buf)
<1>1. Len(buf) \in Nat
    BY LenProperties DEF Bytes
<1>2. FirstAt(buf, 1, CRLF \o CRLF, HeadEnd(buf))
    BY FindsFirst DEF HeadEnd
<1>3. HeadEnd(buf) \in 1 .. Len(buf) /\ IsAt(buf, HeadEnd(buf), CRLF \o CRLF)
    BY <1>2 DEF FirstAt
<1>4. HeadEnd(buf) \in Nat \ {0} /\ HeadEnd(buf) + 2 \in Nat \ {0}
    BY <1>1, <1>3
<1>5. IsAt(buf, HeadEnd(buf) + 2, CRLF)
    BY <1>3, <1>4, LineEnds
<1> QED
    BY <1>1, <1>4, <1>5, LineEnds

(* A header line gives a number to a name.                                 *)
LEMMA FieldTyped == \A line : FieldOf(line) \in HeaderFields
<1> SUFFICES ASSUME NEW line PROVE FieldOf(line) \in HeaderFields
    OBVIOUS
<1>1. Field \in [DOMAIN Field -> HeaderFields] /\ MaxSize + 1 \in Nat
    BY FramingAssumption DEF HeaderFields
<1>2. CASE line[1] \notin DOMAIN Field
    BY <1>2 DEF FieldOf, HeaderFields
<1>3. CASE line[1] \in DOMAIN Field
    <2>1. Field[line[1]] \in HeaderFields
        BY <1>1, <1>3
    <2>2. PICK f \in HeaderFields : f = Field[line[1]]
        BY <2>1
    <2>3. \A v \in Nat : [f EXCEPT !.value = v] \in HeaderFields /\ f.value \in Nat
        BY DEF HeaderFields
    <2>4. FieldOf(line)
          = [f EXCEPT !.value = IF Trim(Tail(line)) = <<>> THEN f.value ELSE MaxSize + 1]
        BY <1>3, <2>2 DEF FieldOf
    <2> QED
        BY <1>1, <2>3, <2>4
<1> QED
    BY <1>2, <1>3

(* parse_head accepts a head only up to its blank line, and waits only     *)
(* without one; the fields it keeps are in the buffer.                     *)
LEMMA HeadTyped ==
    ASSUME NEW buf \in Bytes
    PROVE  LET h == ParseHead(buf)
           IN  /\ h.verdict \in {"need_more", "bad", "ok"}
               /\ h.verdict = "need_more" => HeadEnd(buf) = 0
               /\ HeadEnd(buf) = 0 => h.verdict = IF HeadTooLong(buf) THEN "bad" ELSE "need_more"
               /\ h.verdict = "ok" =>
                     /\ HeadEnd(buf) # 0 /\ h.len = HeadEnd(buf) + 3 /\ h.len \in 4 .. Len(buf)
                     /\ DOMAIN h.fields \subseteq 1 .. Len(buf) + 2
                     /\ h.fields \in [DOMAIN h.fields -> HeaderFields]
<1>1. Len(buf) \in Nat /\ HeadEnd(buf) \in Nat
    BY LenProperties, FindsFirst DEF Bytes, HeadEnd
<1> DEFINE text == SubSeq(buf, 1, HeadEnd(buf) - 1)
           headers == LineStarts(text) \ {1}
           fields == [a \in headers |-> FieldOf(LineAt(text, a))]
           wellFormed == /\ IsRequestLine(LineAt(text, 1))
                         /\ \A a \in headers : IsHeaderLine(LineAt(text, a))
<1>2. ParseHead(buf) = IF HeadEnd(buf) = 0
                       THEN [verdict |-> IF HeadTooLong(buf) THEN "bad" ELSE "need_more"]
                       ELSE IF ~wellFormed THEN [verdict |-> "bad"]
                       ELSE [verdict |-> "ok", len |-> HeadEnd(buf) + 3, fields |-> fields]
    BY DEF ParseHead, HeadEnd
<1>3. CASE HeadEnd(buf) = 0
    BY <1>2, <1>3
<1>4. CASE HeadEnd(buf) # 0
    <2>1. HeadEnd(buf) \in Nat \ {0} /\ HeadEnd(buf) + 3 <= Len(buf)
        BY <1>4, HeadEnds
    <2>2. text \in Bytes /\ Len(text) <= Len(buf) /\ Len(text) \in Nat /\ DOMAIN text = 1 .. Len(text)
        <3>1. text \in Bytes /\ Len(text) = HeadEnd(buf) - 1
            BY <1>1, <2>1, Part
        <3> HIDE DEF text
        <3> QED
            BY <1>1, <2>1, <3>1, LenProperties DEF Bytes
    <2>3. headers \subseteq 1 .. Len(buf) + 2
        BY <1>1, <2>2 DEF LineStarts
    <2>4. fields \in [DOMAIN fields -> HeaderFields] /\ DOMAIN fields = headers
        BY FieldTyped
    <2> HIDE DEF text, headers, wellFormed, fields
    <2>5. CASE ~wellFormed
        BY <1>2, <1>4, <2>5
    <2>6. CASE wellFormed
        BY <1>1, <1>2, <1>4, <2>1, <2>3, <2>4, <2>6
    <2> QED
        BY <2>5, <2>6
<1> QED
    BY <1>3, <1>4

(* What the headers of a head say of the body: chunks, a number of bytes   *)
(* or nothing acceptable.                                                  *)
Modes == [mode : {"chunked", "bad"}] \cup [mode : {"length"}, n : 0 .. MaxSize]

(* The header fields select a chunked body, a length within the machine's  *)
(* integers, or nothing acceptable.                                        *)
LEMMA ModeTyped ==
    ASSUME NEW b \in Nat, NEW fields, DOMAIN fields \subseteq 1 .. b,
           fields \in [DOMAIN fields -> HeaderFields]
    PROVE  BodyMode(fields) \in Modes
<1>1. ASSUME NEW name, Has(fields, name) PROVE ValueOf(fields, name) \in Nat
    <2> DEFINE G == Given(fields, name)
    <2>1. G \in SUBSET Nat /\ G # {} /\ (\A y \in G : y <= b) /\ G \subseteq DOMAIN fields
        BY <1>1 DEF Given, Has
    <2> HIDE DEF G
    <2>2. \E x \in G : \A y \in G : y <= x
        BY <2>1, GreatestNatural
    <2>3. Max(G) \in G
        BY <2>2 DEF Max
    <2>4. fields[Max(G)] \in HeaderFields
        BY <2>1, <2>3
    <2> QED
        BY <2>4 DEF G, ValueOf, HeaderFields
<1>2. MaxSize \in Nat
    BY FramingAssumption
<1>3. CASE Has(fields, "te")
    BY <1>3 DEF BodyMode, Modes
<1>4. CASE ~Has(fields, "te") /\ Has(fields, "cl")
    BY <1>1, <1>2, <1>4 DEF BodyMode, Modes
<1>5. CASE ~Has(fields, "te") /\ ~Has(fields, "cl")
    BY <1>2, <1>5 DEF BodyMode, Modes
<1> QED
    BY <1>3, <1>4, <1>5

(* A head that has ended is the same whatever follows it.                  *)
LEMMA HeadStands ==
    ASSUME NEW s, NEW buf, Extends(s, buf), HeadEnd(buf) # 0
    PROVE  ParseHead(s) = ParseHead(buf) /\ HeadEnd(s) = HeadEnd(buf)
<1>1. HeadEnd(s) = HeadEnd(buf)
    BY SameFind DEF HeadEnd
<1>2. buf \in Bytes /\ Len(buf) \in Nat
    BY LenProperties DEF Extends, Bytes
<1>3. HeadEnd(buf) - 1 \in Int /\ HeadEnd(buf) - 1 <= Len(buf) /\ 1 \in Nat \ {0}
    BY <1>2, HeadEnds
<1>4. SubSeq(s, 1, HeadEnd(buf) - 1) = SubSeq(buf, 1, HeadEnd(buf) - 1)
    BY <1>3, SamePart, Zenon
<1> QED
    BY <1>1, <1>4 DEF ParseHead, HeadEnd

-----------------------------------------------------------------------------
(***************************************************************************)
(* Sizes of chunks.                                                        *)
(***************************************************************************)

(* Trimming a size line leaves bytes.                                      *)
LEMMA TrimTyped ==
    ASSUME NEW s \in Bytes
    PROVE  Trim(s) \in Bytes
<1> DEFINE ink == {i \in DOMAIN s : s[i] \notin {CR, LF}}
<1>1. Len(s) \in Nat /\ DOMAIN s = 1 .. Len(s)
    BY LenProperties DEF Bytes
<1>2. ink \in SUBSET Nat /\ ink \subseteq 1 .. Len(s) /\ \A y \in ink : y <= Len(s)
    BY <1>1
<1>3. Trim(s) = IF ink = {} THEN <<>> ELSE SubSeq(s, Min(ink), Max(ink))
    BY DEF Trim
<1> HIDE DEF ink
<1>4. CASE ink = {}
    BY <1>3, <1>4 DEF Bytes
<1>5. CASE ink # {}
    <2>1. /\ \E x \in ink : \A y \in ink : x <= y
          /\ \E x \in ink : \A y \in ink : y <= x
        BY <1>1, <1>2, <1>5, LeastNatural, GreatestNatural
    <2>2. Min(ink) \in ink /\ Max(ink) \in ink
        BY <1>2, <2>1 DEF Min, Max
    <2>3. Min(ink) \in 1 .. Len(s) /\ Max(ink) \in 1 .. Len(s)
        BY <1>2, <2>2
    <2>4. Min(ink) \in Nat \ {0} /\ Max(ink) \in Int /\ Max(ink) <= Len(s)
        BY <1>1, <2>3
    <2> QED
        BY <1>3, <1>5, <2>4, Part
<1> QED
    BY <1>4, <1>5

(* The number that digits stand for.                                       *)
NumberOf(text) == FoldLeft(LAMBDA n, d : 16 * n + DigitValue[d], 0, text)

(* Digits stand for a natural number: the fold that reads them stays in    *)
(* Nat.                                                                    *)
LEMMA NumberTyped ==
    ASSUME NEW text \in Bytes, \A i \in DOMAIN text : text[i] \in Digits
    PROVE  NumberOf(text) \in Nat
<1> DEFINE X == SUBSET (1 .. Len(text))
           Turn(g, s) == IF s = {} THEN 0
                         ELSE 16 * g[s \ {Greatest(s)}] + DigitValue[text[Greatest(s)]]
           iter == CHOOSE g : g = [s \in X |-> Turn(g, s)]
           op == [i \in 1 .. Len(text) |-> [v \in Nat |-> 16 * v + DigitValue[text[i]]]]
<1>1. Len(text) \in Nat /\ DOMAIN text = 1 .. Len(text)
    BY LenProperties DEF Bytes
<1>2. NumberOf(text) = iter[1 .. Len(text)]
    BY <1>1 DEF NumberOf, FoldLeft, MapThenFoldSet, Max, Greatest
<1>3. \A i \in 1 .. Len(text) : DigitValue[text[i]] \in Nat
    BY <1>1, FramingAssumption, SMTT(30)
<1>4. op \in [1 .. Len(text) -> [Nat -> Nat]]
    BY <1>3
<1>5. \A s \in X : s # {} => /\ Greatest(s) \in 1 .. Len(text)
                             /\ s \ {Greatest(s)} \in X
                             /\ GreatestOf(Len(text))[s \ {Greatest(s)}] < GreatestOf(Len(text))[s]
    BY <1>1, GreatestLowers
<1>6. \E g : g = [s \in X |-> Turn(g, s)]
    <2> HIDE DEF op
    <2>0. PICK f \in [X -> Nat] : Folds(f, Len(text), 0, op)
        BY <1>1, <1>4, FoldExists
    <2>1. /\ \A s \in X : f[s] = IF s = {} THEN 0 ELSE op[Greatest(s)][f[s \ {Greatest(s)}]]
          /\ \A i \in 1 .. Len(text), v \in Nat : op[i][v] = 16 * v + DigitValue[text[i]]
        BY <2>0 DEF Folds, op
    <2>2. ASSUME NEW s \in X PROVE f[s] = Turn(f, s)
        <3>1. CASE s = {}
            BY <2>1, <3>1
        <3>2. CASE s # {}
            <4>1. Greatest(s) \in 1 .. Len(text) /\ f[s \ {Greatest(s)}] \in Nat
                BY <1>5, <2>1, <3>2
            <4> QED
                BY <2>1, <3>2, <4>1
        <3> QED
            BY <3>1, <3>2
    <2>3. f = [s \in X |-> f[s]]
        OBVIOUS
    <2> HIDE DEF Turn, X
    <2>4. f = [s \in X |-> Turn(f, s)]
        BY <2>2, <2>3
    <2> QED
        BY <2>4
<1>7. iter = [s \in X |-> Turn(iter, s)]
    BY <1>6
<1> HIDE DEF iter, op
<1>8. \A s \in X : s \in {t \in X : iter[t] \in Nat}
    <2> DEFINE S == {t \in X : iter[t] \in Nat}
    <2>1. ASSUME NEW s \in X,
                 \A t \in X : GreatestOf(Len(text))[t] < GreatestOf(Len(text))[s] => t \in S
          PROVE  s \in S
        <3>1. CASE s = {}
            BY <1>7, <3>1
        <3>2. CASE s # {}
            <4>1. /\ Greatest(s) \in 1 .. Len(text) /\ s \ {Greatest(s)} \in S
                BY <1>5, <2>1, <3>2
            <4>2. iter[s] = 16 * iter[s \ {Greatest(s)}] + DigitValue[text[Greatest(s)]]
                BY <1>7, <3>2
            <4> QED
                BY <1>3, <4>1, <4>2
        <3> QED
            BY <3>1, <3>2
    <2>2. GreatestOf(Len(text)) \in [X -> Nat]
        BY <1>1, GreatestLowers DEF Measures
    <2>3. Inherits(S, GreatestOf(Len(text)), X)
        BY <2>1 DEF Inherits
    <2> DEFINE m == GreatestOf(Len(text))
    <2> HIDE DEF S, X, m
    <2>4. \A s \in X : s \in S
        BY <2>2, <2>3, MeasureInduction DEF m
    <2> QED
        BY <2>4 DEF S
<1> QED
    BY <1>2, <1>8

(* A size is a number of the machine's or the mark of an error.            *)
LEMMA SizeTyped ==
    ASSUME NEW line \in Bytes
    PROVE  Size(line) \in 0 .. MaxSize + 1
<1> DEFINE ends == {i - 1 : i \in {j \in DOMAIN line : line[j] = Semi}} \cup {Len(line)}
           text == Trim(SubSeq(line, 1, Min(ends)))
<1>1. Len(line) \in Nat /\ DOMAIN line = 1 .. Len(line) /\ MaxSize \in Nat
    BY LenProperties, FramingAssumption DEF Bytes
<1>2. ends \in SUBSET Nat /\ ends \subseteq 0 .. Len(line) /\ ends # {}
    BY <1>1
<1>3. Size(line) = IF text = <<>> \/ \E i \in DOMAIN text : text[i] \notin Digits
                   THEN MaxSize + 1 ELSE Min({MaxSize + 1, NumberOf(text)})
    BY DEF Size, NumberOf
<1> HIDE DEF ends
<1>4. Min(ends) \in ends
    <2>1. \E x \in ends : \A y \in ends : x <= y
        BY <1>2, LeastNatural
    <2> QED
        BY <2>1 DEF Min
<1>5. text \in Bytes
    <2>1. Min(ends) \in 0 .. Len(line)
        BY <1>2, <1>4
    <2>2. Min(ends) \in Int /\ Min(ends) <= Len(line) /\ 1 \in Nat \ {0}
        BY <1>1, <2>1
    <2>3. SubSeq(line, 1, Min(ends)) \in Bytes
        BY <2>2, Part, Zenon
    <2> QED
        BY <2>3, TrimTyped
<1> HIDE DEF text
<1>6. ASSUME NEW n \in Nat PROVE Min({MaxSize + 1, n}) \in 0 .. MaxSize + 1
    <2>1. {MaxSize + 1, n} \in SUBSET Nat
        BY <1>1
    <2>2. \E x \in {MaxSize + 1, n} : \A y \in {MaxSize + 1, n} : x <= y
        BY <2>1, LeastNatural
    <2>3. /\ Min({MaxSize + 1, n}) \in {MaxSize + 1, n}
          /\ \A y \in {MaxSize + 1, n} : Min({MaxSize + 1, n}) <= y
        BY <2>2 DEF Min
    <2> QED
        BY <1>1, <2>3
<1>7. CASE text = <<>> \/ \E i \in DOMAIN text : text[i] \notin Digits
    BY <1>1, <1>3, <1>7
<1>8. CASE ~(text = <<>> \/ \E i \in DOMAIN text : text[i] \notin Digits)
    BY <1>3, <1>5, <1>6, <1>8, NumberTyped
<1> QED
    BY <1>7, <1>8

-----------------------------------------------------------------------------
(***************************************************************************)
(* Bodies in chunks.  The loop of decode_chunked, a turn at a time.        *)
(***************************************************************************)

(* The sums of machine words are the sums of numbers when they fit.        *)
LEMMA WrapTyped ==
    ASSUME NEW n \in Nat
    PROVE  Wrap(n) \in Nat /\ (n <= MaxSize => Wrap(n) = n)
<1>1. MaxSize \in Nat
    BY FramingAssumption
<1>2. Wrap(n) \in 0 .. MaxSize
    BY <1>1 DEF Wrap
<1>3. n <= MaxSize => Wrap(n) = n
    BY <1>1 DEF Wrap
<1> QED
    BY <1>1, <1>2, <1>3

SizeEnd(buf, c) == FindFrom(buf, c.at, CRLF)
SizeAt(buf, c) == Size(SubSeq(buf, c.at, SizeEnd(buf, c) - 1))
DataAt(buf, c) == SizeEnd(buf, c) + 2
VerdictAt(buf, c) == ChunkVerdict(buf, DataAt(buf, c), SizeAt(buf, c), Len(c.out))

(* Whether there is a turn after the one at c, where it begins, and what   *)
(* the loop gives when there is none.                                      *)
Goes(buf, c) ==
    /\ SizeEnd(buf, c) # 0 /\ SizeAt(buf, c) \in 1 .. MaxSize
    /\ VerdictAt(buf, c) = "ok"

NextTurn(buf, c) ==
    [at |-> DataAt(buf, c) + SizeAt(buf, c) + 2,
     out |-> c.out \o SubSeq(buf, DataAt(buf, c), DataAt(buf, c) + SizeAt(buf, c) - 1)]

Outcome(buf, c) ==
    IF SizeEnd(buf, c) = 0 THEN Decided("need_more")
    ELSE IF SizeAt(buf, c) > MaxSize THEN Decided("bad")
    ELSE IF SizeAt(buf, c) = 0 THEN Trailer(buf, DataAt(buf, c), c.out)
    ELSE Decided(VerdictAt(buf, c))

(* A size line lies in the buffer.                                         *)
LEMMA SizeEnds ==
    ASSUME NEW buf \in Bytes, NEW c \in Loop
    PROVE  /\ SizeEnd(buf, c) \in Nat
           /\ SizeEnd(buf, c) # 0 =>
                 /\ SizeEnd(buf, c) \in c.at .. Len(buf) - 1
                 /\ IsAt(buf, SizeEnd(buf, c), CRLF)
                 /\ \A k \in c.at .. SizeEnd(buf, c) - 1 : ~IsAt(buf, k, CRLF)
                 /\ SizeAt(buf, c) \in 0 .. MaxSize + 1
<1>1. Len(buf) \in Nat /\ c.at \in Nat \ {0}
    BY LenProperties DEF Bytes, Loop
<1>2. SizeEnd(buf, c) \in Nat
    BY <1>1, FindsFirst DEF SizeEnd
<1>3. ASSUME SizeEnd(buf, c) # 0
      PROVE  /\ SizeEnd(buf, c) \in c.at .. Len(buf) - 1
             /\ IsAt(buf, SizeEnd(buf, c), CRLF)
             /\ \A k \in c.at .. SizeEnd(buf, c) - 1 : ~IsAt(buf, k, CRLF)
             /\ SizeAt(buf, c) \in 0 .. MaxSize + 1
    <2>1. FirstAt(buf, c.at, CRLF, SizeEnd(buf, c))
        BY <1>1, <1>3, FindsFirst DEF SizeEnd
    <2>2. /\ SizeEnd(buf, c) \in c.at .. Len(buf) /\ IsAt(buf, SizeEnd(buf, c), CRLF)
          /\ \A k \in c.at .. SizeEnd(buf, c) - 1 : ~IsAt(buf, k, CRLF)
        BY <2>1 DEF FirstAt
    <2>3. SizeEnd(buf, c) + 1 <= Len(buf)
        BY <1>1, <2>2, LineEnds
    <2>4. SizeEnd(buf, c) - 1 \in Int /\ SizeEnd(buf, c) - 1 <= Len(buf)
        BY <1>1, <2>2
    <2>5. SubSeq(buf, c.at, SizeEnd(buf, c) - 1) \in Bytes
        BY <1>1, <2>4, Part
    <2>6. SizeAt(buf, c) \in 0 .. MaxSize + 1
        BY <2>5, SizeTyped DEF SizeAt
    <2> QED
        BY <1>1, <2>2, <2>3, <2>6
<1> QED
    BY <1>2, <1>3

(* What follows the last chunk is decided, or waited for.                  *)
LEMMA TrailerTyped ==
    ASSUME NEW buf \in Bytes, NEW at \in Nat \ {0}, NEW body \in Bytes
    PROVE  /\ Trailer(buf, at, body) \in Decision
           /\ Trailer(buf, at, body).verdict \in {"need_more", "ok"}
           /\ Trailer(buf, at, body).verdict = "ok" =>
                 Trailer(buf, at, body).len \in at + 1 .. Len(buf)
<1> DEFINE pair == FindFrom(buf, at, CRLF \o CRLF)
           blank == IF IsAt(buf, at, CRLF) THEN at ELSE IF pair = 0 THEN 0 ELSE pair + 2
<1>1. Len(buf) \in Nat
    BY LenProperties DEF Bytes
<1>2. pair \in Nat /\ (pair # 0 => FirstAt(buf, at, CRLF \o CRLF, pair))
    BY FindsFirst
<1>3. pair # 0 => pair \in at .. Len(buf) /\ IsAt(buf, pair, CRLF \o CRLF)
    BY <1>2 DEF FirstAt
<1>4. Trailer(buf, at, body) = IF blank = 0 THEN Decided("need_more")
                               ELSE Complete(blank + 1, body)
    BY DEF Trailer
<1> HIDE DEF pair
<1>5. IsAt(buf, at, CRLF) => at + 1 <= Len(buf)
    BY LineEnds
<1>6. pair # 0 => pair + 3 <= Len(buf)
    <2>1. pair # 0 => pair \in Nat \ {0} /\ pair + 2 \in Nat \ {0} /\ IsAt(buf, pair, CRLF \o CRLF)
        BY <1>1, <1>2, <1>3
    <2>2. pair # 0 => IsAt(buf, pair + 2, CRLF)
        BY <2>1, LineEnds
    <2>3. pair # 0 => (pair + 2) + 1 <= Len(buf)
        BY <2>1, <2>2, LineEnds
    <2> QED
        BY <1>2, <2>3
<1>7. Decided("need_more") \in Decision /\ Decided("need_more").verdict = "need_more"
    BY DEF Decided, Decision, Bytes
<1>8. CASE blank = 0
    BY <1>4, <1>7, <1>8
<1>9. CASE blank # 0
    <2>1. blank + 1 \in at + 1 .. Len(buf)
        <3>1. CASE IsAt(buf, at, CRLF)
            BY <1>1, <1>5, <3>1
        <3>2. CASE ~IsAt(buf, at, CRLF)
            BY <1>1, <1>2, <1>3, <1>6, <1>9, <3>2
        <3> QED
            BY <3>1, <3>2
    <2>2. Trailer(buf, at, body) = Complete(blank + 1, body)
        BY <1>4, <1>9
    <2> HIDE DEF blank
    <2>3. blank + 1 \in Nat
        BY <2>1
    <2>4. Complete(blank + 1, body) \in Decision
        BY <2>3 DEF Complete, Decision, Bytes
    <2> QED
        BY <2>1, <2>2, <2>4 DEF Complete
<1> QED
    BY <1>8, <1>9

(* A turn is decided, or the next one begins further on in the buffer.     *)
LEMMA TurnTyped ==
    ASSUME NEW buf \in Bytes, NEW c \in Loop
    PROVE  /\ ~Goes(buf, c) => Outcome(buf, c) \in Decision
           /\ ~Goes(buf, c) /\ Outcome(buf, c).verdict = "ok"
                 => /\ Outcome(buf, c).len \in DataAt(buf, c) + 1 .. Len(buf)
                    /\ DataAt(buf, c) \in Nat /\ DataAt(buf, c) > c.at
                    /\ Outcome(buf, c).body = c.out
           /\ Goes(buf, c) =>
                 /\ NextTurn(buf, c) \in Loop
                 /\ NextTurn(buf, c).at > c.at /\ NextTurn(buf, c).at <= Len(buf) + 1
                 /\ IsAt(buf, DataAt(buf, c) + SizeAt(buf, c), CRLF)
                 /\ SizeEnd(buf, c) # 0 /\ SizeAt(buf, c) \in 1 .. MaxSize
<1>1. /\ Len(buf) \in Nat /\ MaxSize \in Nat /\ c.at \in Nat \ {0} /\ c.out \in Bytes
      /\ Len(c.out) \in Nat
    BY LenProperties, FramingAssumption DEF Bytes, Loop
<1>2. \A v \in {"need_more", "bad", "too_large", "panic", "ok"} :
         Decided(v) \in Decision /\ Decided(v).verdict = v
    BY DEF Decided, Decision
<1>3. VerdictAt(buf, c) \in {"need_more", "bad", "too_large", "panic", "ok"}
    BY DEF VerdictAt, ChunkVerdict
<1>4. CASE SizeEnd(buf, c) = 0
    BY <1>2, <1>4 DEF Outcome, Goes
<1>5. CASE SizeEnd(buf, c) # 0 /\ SizeAt(buf, c) > MaxSize
    <2>1. ~Goes(buf, c)
        BY <1>1, <1>5 DEF Goes
    <2> QED
        BY <1>2, <1>5, <2>1 DEF Outcome
<1>6. CASE SizeEnd(buf, c) # 0 /\ SizeAt(buf, c) = 0
    <2>1. ~Goes(buf, c) /\ DataAt(buf, c) \in Nat \ {0} /\ DataAt(buf, c) > c.at
        BY <1>1, <1>6, SizeEnds DEF Goes, DataAt
    <2>2. Outcome(buf, c) = Trailer(buf, DataAt(buf, c), c.out)
        BY <1>1, <1>6 DEF Outcome
    <2>3. Trailer(buf, DataAt(buf, c), c.out).verdict = "ok"
             => Trailer(buf, DataAt(buf, c), c.out).body = c.out
        BY DEF Trailer, Complete, Decided
    <2> QED
        BY <1>1, <2>1, <2>2, <2>3, TrailerTyped
<1>7. CASE SizeEnd(buf, c) # 0 /\ SizeAt(buf, c) \in 1 .. MaxSize
    <2>1. CASE VerdictAt(buf, c) # "ok"
        <3>1. ~Goes(buf, c) /\ ~(SizeAt(buf, c) > MaxSize) /\ SizeAt(buf, c) # 0
            BY <1>1, <1>7, <2>1 DEF Goes
        <3> QED
            BY <1>2, <1>3, <1>7, <2>1, <3>1 DEF Outcome
    <2>2. CASE VerdictAt(buf, c) = "ok"
        <3>1. IsAt(buf, DataAt(buf, c) + SizeAt(buf, c), CRLF)
            BY <2>2 DEF VerdictAt, ChunkVerdict
        <3>2. SizeEnd(buf, c) \in c.at .. Len(buf) - 1
            BY <1>7, SizeEnds
        <3>3. DataAt(buf, c) \in Nat \ {0} /\ DataAt(buf, c) > c.at /\ SizeAt(buf, c) \in Nat \ {0}
            BY <1>1, <1>7, <3>2 DEF DataAt
        <3>4. DataAt(buf, c) + SizeAt(buf, c) \in Nat \ {0}
            BY <3>3
        <3>5. DataAt(buf, c) + SizeAt(buf, c) + 1 <= Len(buf)
            BY <3>1, <3>4, LineEnds
        <3> DEFINE a == DataAt(buf, c)
                   b == DataAt(buf, c) + SizeAt(buf, c) - 1
                   n == DataAt(buf, c) + SizeAt(buf, c) + 2
        <3>6. b \in Int /\ b <= Len(buf) /\ n \in Nat \ {0} /\ n > c.at /\ n <= Len(buf) + 1
            BY <1>1, <3>3, <3>4, <3>5, SMTT(30)
        <3>7. SubSeq(buf, a, b) \in Bytes
            BY <3>3, <3>6, Part
        <3>8. c.out \o SubSeq(buf, a, b) \in Bytes
            BY <1>1, <3>7, ConcatProperties DEF Bytes
        <3>9. NextTurn(buf, c) = [at |-> n, out |-> c.out \o SubSeq(buf, a, b)]
            BY DEF NextTurn
        <3> HIDE DEF a, b, n
        <3>10. Goes(buf, c)
            BY <1>7, <2>2 DEF Goes
        <3>11. NextTurn(buf, c) \in Loop /\ NextTurn(buf, c).at = n
            BY <3>6, <3>8, <3>9 DEF Loop, Bytes
        <3> QED
            BY <1>7, <3>1, <3>6, <3>10, <3>11
    <2> QED
        BY <2>1, <2>2
<1> QED
    BY <1>1, <1>4, <1>5, <1>6, <1>7, SizeEnds

(* What holds of a turn when it holds of the next one holds of all.        *)
Handed(buf, S) ==
    \A c \in Loop : (Goes(buf, c) => NextTurn(buf, c) \in S) => c \in S

Left(buf) == [c \in Loop |-> IF c.at > Len(buf) THEN 0 ELSE Len(buf) + 1 - c.at]

(* The chunk loop terminates: each turn leaves fewer bytes ahead of its    *)
(* position.                                                               *)
LEMMA TurnsEnd ==
    ASSUME NEW buf \in Bytes
    PROVE  /\ Measures(Left(buf), Len(buf) + 2, Loop)
           /\ \A c \in Loop : Goes(buf, c) => Left(buf)[NextTurn(buf, c)] < Left(buf)[c]
<1>1. Len(buf) \in Nat /\ \A c \in Loop : c.at \in Nat \ {0}
    BY LenProperties DEF Bytes, Loop
<1>2. Measures(Left(buf), Len(buf) + 2, Loop)
    BY <1>1 DEF Measures, Left
<1>3. ASSUME NEW c \in Loop, Goes(buf, c)
      PROVE  Left(buf)[NextTurn(buf, c)] < Left(buf)[c]
    <2>1. /\ NextTurn(buf, c) \in Loop
          /\ NextTurn(buf, c).at > c.at /\ NextTurn(buf, c).at <= Len(buf) + 1
        BY <1>3, TurnTyped
    <2> HIDE DEF NextTurn
    <2> QED
        BY <1>1, <2>1 DEF Left
<1> QED
    BY <1>2, <1>3

(* What a turn hands to the turns before it holds of every state of the    *)
(* chunk loop.                                                             *)
LEMMA TurnInduction ==
    ASSUME NEW buf \in Bytes, NEW S, Handed(buf, S)
    PROVE  \A c \in Loop : c \in S
<1>1. Left(buf) \in [Loop -> Nat]
    BY TurnsEnd DEF Measures
<1>2. Inherits(S, Left(buf), Loop)
    <2> SUFFICES ASSUME NEW c \in Loop,
                        \A d \in Loop : Left(buf)[d] < Left(buf)[c] => d \in S
                 PROVE  c \in S
        BY DEF Inherits
    <2>1. Goes(buf, c) => NextTurn(buf, c) \in S
        BY TurnTyped, TurnsEnd
    <2> QED
        BY <2>1 DEF Handed
<1> QED
    BY <1>1, <1>2, MeasureInduction

(* The loop of DecodeChunked is that of the turns.                         *)
LEMMA DecodingTurns ==
    ASSUME NEW buf \in Bytes
    PROVE  \A c \in Loop :
              /\ Decoding(buf)[c] \in Decision
              /\ Decoding(buf)[c] = IF Goes(buf, c) THEN Decoding(buf)[NextTurn(buf, c)]
                                    ELSE Outcome(buf, c)
<1> DEFINE Turn(f, c) == IF Goes(buf, c) THEN f[NextTurn(buf, c)] ELSE Outcome(buf, c)
           Body(f, c) ==
              CASE SizeEnd(buf, c) = 0 -> Decided("need_more")
                [] SizeEnd(buf, c) # 0 /\ SizeAt(buf, c) > MaxSize -> Decided("bad")
                [] SizeEnd(buf, c) # 0 /\ SizeAt(buf, c) = 0 -> Trailer(buf, DataAt(buf, c), c.out)
                [] OTHER ->
                     IF VerdictAt(buf, c) # "ok" THEN Decided(VerdictAt(buf, c))
                     ELSE f[NextTurn(buf, c)]
<1>2. Decoding(buf) = CHOOSE f : f = [c \in Loop |-> Body(f, c)]
    BY DEF Decoding, SizeEnd, SizeAt, DataAt, VerdictAt, NextTurn
<1>3. ASSUME NEW f, NEW c \in Loop PROVE Body(f, c) = Turn(f, c)
    <2>1. SizeEnd(buf, c) # 0 => SizeAt(buf, c) \in 0 .. MaxSize + 1 /\ MaxSize \in Nat
        BY SizeEnds, FramingAssumption
    <2>2. CASE SizeEnd(buf, c) = 0
        BY <2>2 DEF Goes, Outcome
    <2>3. CASE SizeEnd(buf, c) # 0 /\ SizeAt(buf, c) > MaxSize
        BY <2>1, <2>3 DEF Goes, Outcome
    <2>4. CASE SizeEnd(buf, c) # 0 /\ SizeAt(buf, c) = 0
        BY <2>1, <2>4 DEF Goes, Outcome
    <2>5. CASE SizeEnd(buf, c) # 0 /\ SizeAt(buf, c) \in 1 .. MaxSize
        BY <2>1, <2>5 DEF Goes, Outcome
    <2> QED
        BY <2>1, <2>2, <2>3, <2>4, <2>5
<1> DEFINE stop == {c \in Loop : ~Goes(buf, c)}
           val == [c \in Loop |-> IF Goes(buf, c) THEN Decided("bad") ELSE Outcome(buf, c)]
           next == [c \in Loop |-> IF Goes(buf, c) THEN NextTurn(buf, c) ELSE c]
           op == [c \in Loop |-> [v \in Decision |-> v]]
<1>4. Decided("bad") \in Decision
    BY DEF Decided, Decision
<1>5. val \in [Loop -> Decision] /\ next \in [Loop -> Loop] /\ op \in [Loop -> [Decision -> Decision]]
    BY <1>4, TurnTyped
<1>6. \A c \in Loop : c \notin stop => Left(buf)[next[c]] < Left(buf)[c]
    BY TurnsEnd
<1>7. \E f \in [Loop -> Decision] : f = [c \in Loop |-> Body(f, c)]
    <2> HIDE DEF stop, val, next, op
    <2>1. Len(buf) + 2 \in Nat
        BY LenProperties DEF Bytes
    <2>2. PICK f \in [Loop -> Decision] : Follows(f, Loop, stop, val, op, next)
        BY <1>4, <1>5, <1>6, <2>1, TurnsEnd, ChainRecursion
    <2>3. \A c \in Loop : f[c] = IF c \in stop THEN val[c] ELSE op[c][f[next[c]]]
        BY <2>2 DEF Follows
    <2>4. ASSUME NEW c \in Loop PROVE f[c] = Turn(f, c)
        BY <2>3, <2>4, TurnTyped DEF stop, val, next, op
    <2>5. \A c \in Loop : f[c] = Body(f, c)
        BY <1>3, <2>4
    <2> HIDE DEF Body
    <2> QED
        BY <2>5
<1> HIDE DEF Body
<1>8. Decoding(buf) = [c \in Loop |-> Body(Decoding(buf), c)]
    BY <1>2, <1>7
<1>9. \A c \in Loop : Decoding(buf)[c] = Turn(Decoding(buf), c)
    BY <1>3, <1>8
<1> DEFINE S == {c \in Loop : Decoding(buf)[c] \in Decision}
<1>10. Handed(buf, S)
    BY <1>9, TurnTyped DEF Handed
<1> HIDE DEF S
<1>11. \A c \in Loop : c \in S
    BY <1>10, TurnInduction
<1> QED
    BY <1>9, <1>11 DEF S

-----------------------------------------------------------------------------
(***************************************************************************)
(* Decisions.                                                              *)
(***************************************************************************)

(* A chunk that is not waited for is judged as with more bytes behind it.  *)
LEMMA VerdictStands ==
    ASSUME NEW s, NEW buf, Extends(s, buf), Len(s) + 2 <= MaxSize,
           NEW at \in Nat \ {0}, NEW size \in Nat \ {0}, NEW got \in Nat,
           ChunkVerdict(buf, at, size, got) # "need_more"
    PROVE  ChunkVerdict(s, at, size, got) = ChunkVerdict(buf, at, size, got)
<1>1. /\ Len(buf) \in Nat /\ Len(s) \in Nat /\ MaxSize \in Nat /\ Len(buf) <= Len(s)
      /\ at - 1 + size + 2 \in Nat /\ at + size \in Nat \ {0}
    BY LenProperties, FramingAssumption, SMTT(30) DEF Extends, Bytes
<1>2. CASE OverflowChecks /\ at - 1 + size + 2 > MaxSize
    BY <1>2 DEF ChunkVerdict
<1>3. CASE ~(OverflowChecks /\ at - 1 + size + 2 > MaxSize)
    <2>1. Len(buf) >= Wrap(at - 1 + size + 2) /\ Wrap(at - 1 + size + 2) \in Nat
        <3>1. Wrap(at - 1 + size + 2) \in Nat
            BY <1>1, WrapTyped
        <3> QED
            BY <1>1, <1>3, <3>1 DEF ChunkVerdict
    <2>2. Len(s) >= Wrap(at - 1 + size + 2)
        BY <1>1, <2>1
    <2>3. CASE Wrap(got + size) > MaxBody
        BY <1>1, <1>3, <2>1, <2>2, <2>3 DEF ChunkVerdict
    <2>4. CASE ~(Wrap(got + size) > MaxBody) /\ at - 1 + size > Len(buf)
        <3>1. at - 1 + size > Len(s)
            <4> SUFFICES ASSUME ~(at - 1 + size > Len(s)) PROVE FALSE
                OBVIOUS
            <4>1. at - 1 + size + 2 <= MaxSize
                BY <1>1
            <4>2. Wrap(at - 1 + size + 2) = at - 1 + size + 2
                BY <1>1, <4>1, WrapTyped
            <4> QED
                BY <1>1, <2>1, <2>4, <4>2
        <3> QED
            BY <1>1, <1>3, <2>1, <2>2, <2>4, <3>1 DEF ChunkVerdict
    <2>5. CASE ~(Wrap(got + size) > MaxBody) /\ ~(at - 1 + size > Len(buf))
        <3>1. at - 1 + size + 2 <= MaxSize
            BY <1>1, <2>5
        <3>2. Wrap(at - 1 + size + 2) = at - 1 + size + 2
            BY <1>1, <3>1, WrapTyped
        <3>3. at + size + 1 <= Len(buf) /\ ~(at - 1 + size > Len(s))
            BY <1>1, <2>1, <2>5, <3>2
        <3>4. IsAt(s, at + size, CRLF) <=> IsAt(buf, at + size, CRLF)
            BY <1>1, <3>3, SamePlaces
        <3> QED
            BY <1>1, <1>3, <2>1, <2>2, <2>5, <3>3, <3>4 DEF ChunkVerdict
    <2> QED
        BY <2>3, <2>4, <2>5
<1> QED
    BY <1>2, <1>3

(* So is what follows the last chunk.                                      *)
LEMMA TrailerStands ==
    ASSUME NEW s, NEW buf, Extends(s, buf), NEW at \in Nat \ {0}, NEW body,
           Trailer(buf, at, body).verdict # "need_more"
    PROVE  Trailer(s, at, body) = Trailer(buf, at, body)
<1>1. buf \in Bytes /\ Len(buf) \in Nat
    BY LenProperties DEF Extends, Bytes
<1>2. CASE IsAt(buf, at, CRLF)
    <2>1. IsAt(s, at, CRLF)
        BY <1>2, SamePlaces
    <2> QED
        BY <1>2, <2>1 DEF Trailer
<1>3. CASE ~IsAt(buf, at, CRLF)
    <2>1. FindFrom(buf, at, CRLF \o CRLF) # 0
        BY <1>3 DEF Trailer, Decided
    <2>2. FindFrom(s, at, CRLF \o CRLF) = FindFrom(buf, at, CRLF \o CRLF)
        BY <2>1, SameFind
    <2>3. at + 1 <= Len(buf)
        <3>1. FirstAt(buf, at, CRLF \o CRLF, FindFrom(buf, at, CRLF \o CRLF))
            BY <1>1, <2>1, FindsFirst
        <3>2. PICK k : k \in at .. Len(buf) /\ IsAt(buf, k, CRLF \o CRLF)
            BY <3>1 DEF FirstAt
        <3>3. k \in Nat \ {0}
            BY <1>1, <3>2
        <3> QED
            BY <1>1, <3>2, <3>3, LineEnds
    <2>4. ~IsAt(s, at, CRLF)
        BY <1>3, <2>3, SamePlaces
    <2> QED
        BY <1>3, <2>2, <2>4 DEF Trailer
<1> QED
    BY <1>2, <1>3

(* A turn that does not wait for bytes is the same with more of them.      *)
LEMMA TurnStands ==
    ASSUME NEW s, NEW buf, Extends(s, buf), Len(s) + 2 <= MaxSize, NEW c \in Loop
    PROVE  /\ Goes(buf, c) => Goes(s, c) /\ NextTurn(s, c) = NextTurn(buf, c)
           /\ ~Goes(buf, c) /\ Outcome(buf, c).verdict # "need_more"
                 => ~Goes(s, c) /\ Outcome(s, c) = Outcome(buf, c)
<1>1. /\ s \in Bytes /\ buf \in Bytes /\ Len(buf) \in Nat /\ Len(s) \in Nat /\ Len(buf) <= Len(s)
      /\ MaxSize \in Nat
      /\ c.at \in Nat \ {0} /\ c.out \in Bytes /\ Len(c.out) \in Nat
    BY LenProperties, FramingAssumption DEF Extends, Bytes, Loop
<1>2. CASE SizeEnd(buf, c) = 0
    BY <1>2 DEF Goes, Outcome, Decided
<1>3. CASE SizeEnd(buf, c) # 0
    <2>1. SizeEnd(s, c) = SizeEnd(buf, c)
        BY <1>1, <1>3, SameFind DEF SizeEnd
    <2>2. SizeEnd(buf, c) \in c.at .. Len(buf) - 1 /\ SizeAt(buf, c) \in 0 .. MaxSize + 1
        BY <1>1, <1>3, SizeEnds
    <2>3. SizeEnd(buf, c) - 1 \in Int /\ SizeEnd(buf, c) - 1 <= Len(buf)
        BY <1>1, <2>2
    <2>4. SizeAt(s, c) = SizeAt(buf, c)
        <3>1. SubSeq(s, c.at, SizeEnd(buf, c) - 1) = SubSeq(buf, c.at, SizeEnd(buf, c) - 1)
            BY <1>1, <2>3, SamePart
        <3> QED
            BY <2>1, <3>1 DEF SizeAt
    <2>5. DataAt(s, c) = DataAt(buf, c) /\ DataAt(buf, c) \in Nat \ {0}
        BY <1>1, <2>1, <2>2 DEF DataAt
    <2>6. CASE SizeAt(buf, c) > MaxSize
        BY <1>1, <1>3, <2>1, <2>2, <2>4, <2>6 DEF Goes, Outcome
    <2>7. CASE SizeAt(buf, c) = 0
        <3>1. ~Goes(buf, c) /\ ~Goes(s, c)
            BY <2>4, <2>7 DEF Goes
        <3>2. /\ Outcome(buf, c) = Trailer(buf, DataAt(buf, c), c.out)
              /\ Outcome(s, c) = Trailer(s, DataAt(buf, c), c.out)
            BY <1>1, <1>3, <2>1, <2>4, <2>5, <2>7 DEF Outcome
        <3> QED
            BY <2>5, <3>1, <3>2, TrailerStands
    <2>8. CASE SizeAt(buf, c) \in 1 .. MaxSize
        <3>1. VerdictAt(buf, c) # "need_more" => VerdictAt(s, c) = VerdictAt(buf, c)
            <4>1. SizeAt(buf, c) \in Nat \ {0}
                BY <1>1, <2>8
            <4> QED
                BY <1>1, <2>4, <2>5, <4>1, VerdictStands DEF VerdictAt
        <3>2. Outcome(buf, c) = Decided(VerdictAt(buf, c)) /\ Outcome(s, c) = Decided(VerdictAt(s, c))
            BY <1>1, <1>3, <2>1, <2>4, <2>8 DEF Outcome
        <3>3. ~Goes(buf, c) /\ Outcome(buf, c).verdict # "need_more"
                 => ~Goes(s, c) /\ Outcome(s, c) = Outcome(buf, c)
            BY <1>3, <2>1, <2>4, <2>8, <3>1, <3>2 DEF Goes, Decided
        <3>4. ASSUME Goes(buf, c) PROVE Goes(s, c) /\ NextTurn(s, c) = NextTurn(buf, c)
            <4>1. VerdictAt(buf, c) = "ok" /\ Goes(s, c)
                BY <2>1, <2>4, <3>1, <3>4 DEF Goes
            <4>2. IsAt(buf, DataAt(buf, c) + SizeAt(buf, c), CRLF)
                BY <1>1, <3>4, TurnTyped
            <4>3. DataAt(buf, c) + SizeAt(buf, c) \in Nat \ {0}
                BY <1>1, <2>5, <2>8
            <4>4. DataAt(buf, c) + SizeAt(buf, c) + 1 <= Len(buf)
                BY <1>1, <4>2, <4>3, LineEnds
            <4> DEFINE b == DataAt(buf, c) + SizeAt(buf, c) - 1
            <4>5. SizeAt(buf, c) \in Nat
                BY <1>1, <2>8
            <4>6. b \in Int /\ b <= Len(buf)
                BY <1>1, <2>5, <4>4, <4>5
            <4> HIDE DEF b
            <4>7. SubSeq(s, DataAt(buf, c), b) = SubSeq(buf, DataAt(buf, c), b)
                BY <2>5, <4>6, SamePart
            <4>8. SubSeq(s, DataAt(buf, c), DataAt(buf, c) + SizeAt(buf, c) - 1)
                  = SubSeq(buf, DataAt(buf, c), DataAt(buf, c) + SizeAt(buf, c) - 1)
                BY <4>7 DEF b
            <4>9. NextTurn(s, c) = NextTurn(buf, c)
                BY <2>4, <2>5, <4>8, Zenon DEF NextTurn
            <4> QED
                BY <4>1, <4>9
        <3> QED
            BY <3>3, <3>4
    <2> QED
        BY <1>1, <2>2, <2>6, <2>7, <2>8
<1> QED
    BY <1>2, <1>3

(* Hence the whole loop gives the same.                                    *)
LEMMA DecodingStands ==
    ASSUME NEW s, NEW buf, Extends(s, buf), Len(s) + 2 <= MaxSize, NEW c \in Loop,
           Decoding(buf)[c].verdict # "need_more"
    PROVE  Decoding(s)[c] = Decoding(buf)[c]
<1>1. s \in Bytes /\ buf \in Bytes
    BY DEF Extends
<1> DEFINE S == {d \in Loop : Decoding(buf)[d].verdict # "need_more"
                                 => Decoding(s)[d] = Decoding(buf)[d]}
<1>2. Handed(buf, S)
    <2> SUFFICES ASSUME NEW d \in Loop, Goes(buf, d) => NextTurn(buf, d) \in S,
                        Decoding(buf)[d].verdict # "need_more"
                 PROVE  Decoding(s)[d] = Decoding(buf)[d]
        BY DEF Handed
    <2>1. CASE Goes(buf, d)
        <3>1. Goes(s, d) /\ NextTurn(s, d) = NextTurn(buf, d)
            BY <2>1, TurnStands
        <3>2. Decoding(buf)[d] = Decoding(buf)[NextTurn(buf, d)]
            BY <1>1, <2>1, DecodingTurns
        <3>3. Decoding(s)[d] = Decoding(s)[NextTurn(buf, d)]
            BY <1>1, <3>1, DecodingTurns
        <3> QED
            BY <2>1, <3>2, <3>3
    <2>2. CASE ~Goes(buf, d)
        <3>1. Decoding(buf)[d] = Outcome(buf, d)
            BY <1>1, <2>2, DecodingTurns
        <3>2. ~Goes(s, d) /\ Outcome(s, d) = Outcome(buf, d)
            BY <2>2, <3>1, TurnStands
        <3>3. Decoding(s)[d] = Outcome(s, d)
            BY <1>1, <3>2, DecodingTurns
        <3> QED
            BY <3>1, <3>2, <3>3
    <2> QED
        BY <2>1, <2>2
<1> HIDE DEF S
<1>3. \A d \in Loop : d \in S
    BY <1>1, <1>2, TurnInduction
<1> QED
    BY <1>3 DEF S

(* A body that is complete lies in the buffer.                             *)
LEMMA DecodingTyped ==
    ASSUME NEW buf \in Bytes, NEW c \in Loop
    PROVE  /\ Decoding(buf)[c] \in Decision
           /\ Decoding(buf)[c].verdict = "ok" => Decoding(buf)[c].len \in c.at + 1 .. Len(buf)
<1> DEFINE S == {d \in Loop : Decoding(buf)[d].verdict = "ok"
                                 => Decoding(buf)[d].len \in d.at + 1 .. Len(buf)}
<1>1. Handed(buf, S)
    <2> SUFFICES ASSUME NEW d \in Loop, Goes(buf, d) => NextTurn(buf, d) \in S,
                        Decoding(buf)[d].verdict = "ok"
                 PROVE  Decoding(buf)[d].len \in d.at + 1 .. Len(buf)
        BY DEF Handed
    <2>1. Len(buf) \in Nat /\ d.at \in Nat
        BY LenProperties DEF Bytes, Loop
    <2>2. CASE Goes(buf, d)
        <3>1. NextTurn(buf, d).at > d.at /\ NextTurn(buf, d).at \in Nat
            BY <2>2, TurnTyped DEF Loop
        <3>2. Decoding(buf)[d] = Decoding(buf)[NextTurn(buf, d)]
            BY <2>2, DecodingTurns
        <3> HIDE DEF NextTurn
        <3> QED
            BY <2>1, <2>2, <3>1, <3>2
    <2>3. CASE ~Goes(buf, d)
        BY <2>1, <2>3, DecodingTurns, TurnTyped
    <2> QED
        BY <2>2, <2>3
<1> HIDE DEF S
<1>2. \A d \in Loop : d \in S
    BY <1>1, TurnInduction
<1> QED
    BY <1>2, DecodingTurns DEF S

(* decode_body returns a decision, and an accepted body lies within the    *)
(* bytes it was given.                                                     *)
LEMMA BodyTyped ==
    ASSUME NEW buf \in Bytes, NEW mode \in Modes, mode.mode # "bad"
    PROVE  /\ DecodeBody(buf, mode) \in Decision
           /\ DecodeBody(buf, mode).verdict = "ok"
                 => DecodeBody(buf, mode).len \in 0 .. Len(buf)
<1>1. Len(buf) \in Nat /\ MaxSize \in Nat /\ MaxBody \in Nat
    BY LenProperties, FramingAssumption DEF Bytes
<1>2. CASE mode.mode = "chunked"
    <2>1. [at |-> 1, out |-> <<>>] \in Loop
        BY DEF Loop
    <2>2. DecodeBody(buf, mode) = Decoding(buf)[[at |-> 1, out |-> <<>>]]
        BY <1>2 DEF DecodeBody, DecodeChunked
    <2>3. /\ Decoding(buf)[[at |-> 1, out |-> <<>>]] \in Decision
          /\ Decoding(buf)[[at |-> 1, out |-> <<>>]].verdict = "ok"
                => Decoding(buf)[[at |-> 1, out |-> <<>>]].len \in 1 + 1 .. Len(buf)
        BY <2>1, DecodingTyped
    <2> QED
        BY <1>1, <2>2, <2>3
<1>3. CASE mode.mode # "chunked"
    <2>1. mode.mode = "length" /\ mode.n \in 0 .. MaxSize
        BY <1>3 DEF Modes
    <2>2. \A v \in {"need_more", "too_large"} : Decided(v) \in Decision /\ Decided(v).verdict = v
        BY DEF Decided, Decision
    <2>3. CASE mode.n > MaxBody
        BY <1>3, <2>2, <2>3 DEF DecodeBody
    <2>4. CASE ~(mode.n > MaxBody) /\ Len(buf) < mode.n
        BY <1>3, <2>2, <2>4 DEF DecodeBody
    <2>5. CASE ~(mode.n > MaxBody) /\ ~(Len(buf) < mode.n)
        <3>1. mode.n \in Nat /\ mode.n \in Int /\ mode.n <= Len(buf) /\ 1 \in Nat \ {0}
            BY <1>1, <2>1, <2>5
        <3>2. SubSeq(buf, 1, mode.n) \in Bytes
            BY <3>1, Part, Zenon
        <3>3. DecodeBody(buf, mode) = Complete(mode.n, SubSeq(buf, 1, mode.n))
            BY <1>3, <2>5 DEF DecodeBody
        <3> QED
            BY <1>1, <3>1, <3>2, <3>3 DEF Complete, Decision, Bytes
    <2> QED
        BY <2>3, <2>4, <2>5
<1> QED
    BY <1>2, <1>3

(* A decision about a body stands when more bytes arrive.                  *)
LEMMA BodyStands ==
    ASSUME NEW s, NEW buf, Extends(s, buf), Len(s) + 2 <= MaxSize, NEW mode \in Modes,
           mode.mode # "bad", DecodeBody(buf, mode).verdict # "need_more"
    PROVE  DecodeBody(s, mode) = DecodeBody(buf, mode)
<1>1. /\ Len(buf) \in Nat /\ Len(s) \in Nat /\ Len(buf) <= Len(s)
      /\ MaxSize \in Nat /\ MaxBody \in Nat
    BY LenProperties, FramingAssumption DEF Extends, Bytes
<1>2. CASE mode.mode = "chunked"
    <2>1. [at |-> 1, out |-> <<>>] \in Loop
        BY DEF Loop
    <2>2. \A b : DecodeBody(b, mode) = Decoding(b)[[at |-> 1, out |-> <<>>]]
        BY <1>2 DEF DecodeBody, DecodeChunked
    <2> QED
        BY <2>1, <2>2, DecodingStands
<1>3. CASE mode.mode # "chunked"
    <2>1. mode.mode = "length" /\ mode.n \in 0 .. MaxSize
        BY <1>3 DEF Modes
    <2>2. CASE mode.n > MaxBody
        BY <1>3, <2>2 DEF DecodeBody
    <2>3. CASE ~(mode.n > MaxBody)
        <3>1. ~(Len(buf) < mode.n)
            BY <1>3, <2>3 DEF DecodeBody, Decided
        <3>2. ~(Len(s) < mode.n) /\ mode.n \in Int /\ mode.n <= Len(buf) /\ 1 \in Nat \ {0}
            BY <1>1, <2>1, <3>1
        <3>3. SubSeq(s, 1, mode.n) = SubSeq(buf, 1, mode.n)
            BY <3>2, SamePart, Zenon
        <3> QED
            BY <1>3, <2>3, <3>1, <3>2, <3>3 DEF DecodeBody
    <2> QED
        BY <2>2, <2>3
<1> QED
    BY <1>2, <1>3

(* What is left of a buffer after its head, and how long the body is.      *)
Rest(buf) == SubSeq(buf, ParseHead(buf).len + 1, Len(buf))
ModeOf(buf) == BodyMode(ParseHead(buf).fields)

(* A decision is that of the head, or, after an accepted head, that of the *)
(* body behind it.                                                         *)
LEMMA DecideParts ==
    ASSUME NEW buf \in Bytes
    PROVE  /\ ParseHead(buf).verdict # "ok" => Decide(buf) = Decided(ParseHead(buf).verdict)
           /\ ParseHead(buf).verdict = "ok" =>
                 /\ ParseHead(buf).len \in 4 .. Len(buf)
                 /\ Rest(buf) \in Bytes /\ Len(Rest(buf)) = Len(buf) - ParseHead(buf).len
                 /\ ModeOf(buf) \in Modes
                 /\ Decide(buf) = IF ModeOf(buf).mode = "bad" THEN Decided("bad")
                                  ELSE LET d == DecodeBody(Rest(buf), ModeOf(buf))
                                       IN  IF d.verdict # "ok" THEN d
                                           ELSE Complete(ParseHead(buf).len + d.len, d.body)
<1>1. Len(buf) \in Nat
    BY LenProperties DEF Bytes
<1>2. CASE ParseHead(buf).verdict # "ok"
    BY <1>2 DEF Decide
<1>3. CASE ParseHead(buf).verdict = "ok"
    <2>1. /\ ParseHead(buf).len \in 4 .. Len(buf)
          /\ DOMAIN ParseHead(buf).fields \subseteq 1 .. Len(buf) + 2
          /\ ParseHead(buf).fields \in [DOMAIN ParseHead(buf).fields -> HeaderFields]
        BY <1>3, HeadTyped
    <2>2. ModeOf(buf) \in Modes
        <3>1. Len(buf) + 2 \in Nat
            BY <1>1
        <3> QED
            BY <2>1, <3>1, ModeTyped DEF ModeOf
    <2>3. Rest(buf) \in Bytes /\ Len(Rest(buf)) = Len(buf) - ParseHead(buf).len
        <3> DEFINE i == ParseHead(buf).len + 1
        <3>1. i \in Nat \ {0} /\ i <= Len(buf) + 1 /\ i = ParseHead(buf).len + 1
            BY <1>1, <2>1
        <3>2. Rest(buf) = SubSeq(buf, i, Len(buf))
            BY DEF Rest
        <3> HIDE DEF i
        <3>3. /\ SubSeq(buf, i, Len(buf)) \in Bytes
              /\ Len(SubSeq(buf, i, Len(buf))) = IF i <= Len(buf) THEN Len(buf) - i + 1 ELSE 0
            BY <1>1, <3>1, Part
        <3> QED
            BY <1>1, <2>1, <3>1, <3>2, <3>3
    <2>4. Decide(buf) = IF ModeOf(buf).mode = "bad" THEN Decided("bad")
                        ELSE LET d == DecodeBody(Rest(buf), ModeOf(buf))
                             IN  IF d.verdict # "ok" THEN d
                                 ELSE Complete(ParseHead(buf).len + d.len, d.body)
        BY <1>3 DEF Decide, ModeOf, Rest
    <2> QED
        BY <1>3, <2>1, <2>2, <2>3, <2>4
<1> QED
    BY <1>2, <1>3

(* Every buffer is decided, or waited for; a request lies in the buffer.   *)
LEMMA DecideTyped ==
    ASSUME NEW buf \in Bytes
    PROVE  /\ Decide(buf) \in Decision
           /\ Decide(buf).verdict = "ok" => Decide(buf).len \in 4 .. Len(buf)
<1>1. Len(buf) \in Nat
    BY LenProperties DEF Bytes
<1>2. \A v \in {"need_more", "bad"} : Decided(v) \in Decision /\ Decided(v).verdict = v
    BY DEF Decided, Decision
<1>3. CASE ParseHead(buf).verdict # "ok"
    BY <1>2, <1>3, DecideParts, HeadTyped
<1>4. CASE ParseHead(buf).verdict = "ok" /\ ModeOf(buf).mode = "bad"
    BY <1>2, <1>4, DecideParts
<1>5. CASE ParseHead(buf).verdict = "ok" /\ ModeOf(buf).mode # "bad"
    <2> DEFINE d == DecodeBody(Rest(buf), ModeOf(buf))
               n == ParseHead(buf).len
    <2>1. /\ n \in 4 .. Len(buf)
          /\ Rest(buf) \in Bytes /\ Len(Rest(buf)) = Len(buf) - n /\ ModeOf(buf) \in Modes
          /\ Decide(buf) = IF d.verdict # "ok" THEN d ELSE Complete(n + d.len, d.body)
        BY <1>5, DecideParts
    <2>2. d \in Decision /\ (d.verdict = "ok" => d.len \in 0 .. Len(Rest(buf)))
        BY <1>5, <2>1, BodyTyped
    <2> HIDE DEF d, n
    <2>3. CASE d.verdict # "ok"
        BY <2>1, <2>2, <2>3
    <2>4. CASE d.verdict = "ok"
        <3>1. n + d.len \in 4 .. Len(buf) /\ n + d.len \in Nat /\ d.body \in Seq(Element)
            BY <1>1, <2>1, <2>2, <2>4 DEF Decision
        <3> QED
            BY <2>1, <2>4, <3>1 DEF Complete, Decision
    <2> QED
        BY <2>3, <2>4
<1> QED
    BY <1>3, <1>4, <1>5

(* What is decided stands, but for the head that is too long.              *)
LEMMA DecideStands ==
    ASSUME NEW s, NEW buf, Extends(s, buf), Len(s) + 2 <= MaxSize,
           Decide(buf).verdict # "need_more"
    PROVE  \/ Decide(s) = Decide(buf)
           \/ Decide(buf).verdict = "bad" /\ HeadEnd(s) > MaxHead - 3
<1>1. /\ s \in Bytes /\ buf \in Bytes /\ Len(buf) \in Nat /\ Len(s) \in Nat
      /\ Len(buf) <= Len(s) /\ MaxHead \in Nat
    BY LenProperties, FramingAssumption DEF Extends, Bytes
<1>2. HeadEnd(s) \in Nat
    BY <1>1, FindsFirst DEF HeadEnd
<1>3. CASE HeadEnd(buf) = 0
    <2>1. ParseHead(buf).verdict = IF HeadTooLong(buf) THEN "bad" ELSE "need_more"
        BY <1>1, <1>3, HeadTyped
    <2>2. Decide(buf) = Decided(ParseHead(buf).verdict)
        BY <1>1, <2>1, DecideParts
    <2>3. HeadTooLong(buf)
        BY <2>1, <2>2 DEF Decided
    <2>4. CASE HeadEnd(s) = 0
        <3>1. HeadTooLong(s)
            BY <1>1, <2>3 DEF HeadTooLong
        <3>2. ParseHead(s).verdict = "bad"
            BY <1>1, <2>4, <3>1, HeadTyped
        <3> QED
            BY <1>1, <2>1, <2>2, <2>3, <3>2, DecideParts
    <2>5. CASE HeadEnd(s) # 0
        <3>1. HeadEnd(s) + 3 > Len(buf)
            BY <1>3, <2>5, SameFind DEF HeadEnd
        <3>2. HeadEnd(s) > MaxHead - 3
            BY <1>1, <1>2, <2>3, <3>1 DEF HeadTooLong
        <3> QED
            BY <2>1, <2>2, <2>3, <3>2 DEF Decided
    <2> QED
        BY <2>4, <2>5
<1>4. CASE HeadEnd(buf) # 0
    <2>1. ParseHead(s) = ParseHead(buf)
        BY <1>4, HeadStands
    <2>2. CASE ParseHead(buf).verdict # "ok"
        BY <1>1, <2>1, <2>2, DecideParts
    <2>3. CASE ParseHead(buf).verdict = "ok"
        <3>1. ModeOf(s) = ModeOf(buf)
            BY <2>1 DEF ModeOf
        <3>2. Extends(Rest(s), Rest(buf)) /\ Len(Rest(s)) + 2 <= MaxSize /\ ModeOf(buf) \in Modes
            <4>1. ParseHead(buf).len \in 4 .. Len(buf) /\ ModeOf(buf) \in Modes
                BY <1>1, <2>3, DecideParts
            <4>2. Len(Rest(s)) = Len(s) - ParseHead(s).len
                BY <1>1, <2>1, <2>3, DecideParts
            <4>3. Len(Rest(s)) + 2 <= MaxSize
                BY <1>1, <2>1, <4>1, <4>2, FramingAssumption, SMTT(30)
            <4>4. ParseHead(buf).len + 1 \in Nat \ {0}
                BY <4>1
            <4>5. Extends(Rest(s), Rest(buf))
                BY <2>1, <4>4, RestExtends DEF Rest
            <4> QED
                BY <4>1, <4>3, <4>5
        <3>3. CASE ModeOf(buf).mode = "bad"
            BY <1>1, <2>1, <2>3, <3>1, <3>3, DecideParts
        <3>4. CASE ModeOf(buf).mode # "bad"
            <4> DEFINE d == DecodeBody(Rest(buf), ModeOf(buf))
                       e == DecodeBody(Rest(s), ModeOf(buf))
                       n == ParseHead(buf).len
            <4>1. Decide(buf) = IF d.verdict # "ok" THEN d ELSE Complete(n + d.len, d.body)
                BY <1>1, <2>3, <3>4, DecideParts
            <4>2. Decide(s) = IF e.verdict # "ok" THEN e ELSE Complete(n + e.len, e.body)
                BY <1>1, <2>1, <2>3, <3>1, <3>4, DecideParts
            <4>3. d.verdict # "need_more"
                BY <4>1
            <4>4. e = d
                BY <3>2, <3>4, <4>3, BodyStands
            <4> QED
                BY <4>1, <4>2, <4>4
        <3> QED
            BY <3>3, <3>4
    <2> QED
        BY <2>2, <2>3
<1> QED
    BY <1>3, <1>4

(* What was waited for reaches beyond the bytes that were there: a turn,   *)
LEMMA TurnReaches ==
    ASSUME NEW s, NEW buf, Extends(s, buf), Len(s) + 2 <= MaxSize, NEW c \in Loop,
           ~Goes(buf, c), Outcome(buf, c).verdict = "need_more"
    PROVE  /\ Goes(s, c) => NextTurn(s, c).at > Len(buf)
           /\ ~Goes(s, c) /\ Outcome(s, c).verdict = "ok" => Outcome(s, c).len > Len(buf)
<1>1. /\ s \in Bytes /\ buf \in Bytes /\ Len(buf) \in Nat /\ Len(s) \in Nat /\ Len(buf) <= Len(s)
      /\ MaxSize \in Nat
      /\ c.at \in Nat \ {0} /\ c.out \in Bytes /\ Len(c.out) \in Nat
    BY LenProperties, FramingAssumption DEF Extends, Bytes, Loop
<1>2. CASE SizeEnd(buf, c) = 0
    <2>1. SizeEnd(s, c) = 0 \/ SizeEnd(s, c) + 1 > Len(buf)
        BY <1>1, <1>2, SameFind DEF SizeEnd
    <2>2. ASSUME Goes(s, c) PROVE NextTurn(s, c).at > Len(buf)
        <3>1. /\ SizeEnd(s, c) # 0 /\ SizeEnd(s, c) \in Nat /\ SizeAt(s, c) \in Nat
              /\ NextTurn(s, c).at = SizeEnd(s, c) + 2 + SizeAt(s, c) + 2
            BY <1>1, <2>2, SizeEnds DEF Goes, NextTurn, DataAt
        <3> QED
            BY <1>1, <2>1, <3>1
    <2>3. ASSUME ~Goes(s, c), Outcome(s, c).verdict = "ok" PROVE Outcome(s, c).len > Len(buf)
        <3>1. Outcome(s, c).len \in DataAt(s, c) + 1 .. Len(s)
            BY <1>1, <2>3, TurnTyped
        <3>2. SizeEnd(s, c) # 0 /\ SizeEnd(s, c) \in Nat /\ DataAt(s, c) = SizeEnd(s, c) + 2
            BY <1>1, <2>3, SizeEnds DEF Outcome, Decided, DataAt
        <3> QED
            BY <1>1, <2>1, <3>1, <3>2
    <2> QED
        BY <2>2, <2>3
<1>3. CASE SizeEnd(buf, c) # 0
    <2>1. SizeEnd(s, c) = SizeEnd(buf, c)
        BY <1>1, <1>3, SameFind DEF SizeEnd
    <2>2. SizeEnd(buf, c) \in c.at .. Len(buf) - 1 /\ SizeAt(buf, c) \in 0 .. MaxSize + 1
        BY <1>1, <1>3, SizeEnds
    <2>3. SizeEnd(buf, c) - 1 \in Int /\ SizeEnd(buf, c) - 1 <= Len(buf)
        BY <1>1, <2>2
    <2>4. SizeAt(s, c) = SizeAt(buf, c)
        <3>1. SubSeq(s, c.at, SizeEnd(buf, c) - 1) = SubSeq(buf, c.at, SizeEnd(buf, c) - 1)
            BY <1>1, <2>3, SamePart
        <3> QED
            BY <2>1, <3>1 DEF SizeAt
    <2>5. DataAt(s, c) = DataAt(buf, c) /\ DataAt(buf, c) \in Nat \ {0}
        BY <1>1, <2>1, <2>2 DEF DataAt
    <2>6. CASE SizeAt(buf, c) > MaxSize
        BY <1>1, <1>3, <2>6 DEF Outcome, Decided
    <2>7. CASE SizeAt(buf, c) = 0
        <3> DEFINE at == DataAt(buf, c)
        <3>1. /\ Outcome(buf, c) = Trailer(buf, at, c.out) /\ Outcome(s, c) = Trailer(s, at, c.out)
              /\ ~Goes(s, c) /\ at \in Nat \ {0}
            BY <1>1, <1>3, <2>1, <2>4, <2>5, <2>7 DEF Outcome, Goes
        <3> HIDE DEF at
        <3>2. ~IsAt(buf, at, CRLF) /\ FindFrom(buf, at, CRLF \o CRLF) = 0
            <4>1. FindFrom(buf, at, CRLF \o CRLF) \in Nat
                BY <1>1, <3>1, FindsFirst
            <4> QED
                BY <3>1, <4>1 DEF Trailer, Complete
        <3>3. CASE IsAt(s, at, CRLF)
            <4>1. at + 1 > Len(buf)
                BY <1>1, <3>1, <3>2, <3>3, SamePlaces
            <4>2. Outcome(s, c).len = at + 1
                BY <3>1, <3>3 DEF Trailer, Complete
            <4> QED
                BY <3>1, <4>1, <4>2
        <3>4. CASE ~IsAt(s, at, CRLF)
            <4> DEFINE pair == FindFrom(s, at, CRLF \o CRLF)
            <4>1. pair \in Nat /\ (pair = 0 \/ pair + 3 > Len(buf))
                BY <1>1, <3>1, <3>2, SameFind, FindsFirst
            <4>2. Outcome(s, c) = IF pair = 0 THEN Decided("need_more")
                                  ELSE Complete((pair + 2) + 1, c.out)
                BY <3>1, <3>4, <4>1 DEF Trailer
            <4> HIDE DEF pair
            <4> QED
                BY <1>1, <3>1, <4>1, <4>2 DEF Complete, Decided
        <3> QED
            BY <3>3, <3>4
    <2>8. CASE SizeAt(buf, c) \in 1 .. MaxSize
        <3> DEFINE sum == DataAt(buf, c) - 1 + SizeAt(buf, c) + 2
        <3>1. VerdictAt(buf, c) = "need_more"
            BY <1>1, <1>3, <2>8 DEF Outcome, Decided
        <3>2. Len(buf) < Wrap(sum)
            BY <3>1 DEF VerdictAt, ChunkVerdict
        <3>3. sum \in Nat /\ DataAt(buf, c) + SizeAt(buf, c) \in Nat \ {0} /\ SizeAt(buf, c) \in Nat
            BY <1>1, <2>5, <2>8
        <3>4. ~Goes(s, c) => Outcome(s, c).verdict # "ok"
            BY <1>1, <1>3, <2>1, <2>4, <2>8 DEF Goes, Outcome, Decided
        <3>5. ASSUME Goes(s, c) PROVE NextTurn(s, c).at > Len(buf)
            <4>1. IsAt(s, DataAt(buf, c) + SizeAt(buf, c), CRLF)
                BY <1>1, <2>4, <2>5, <3>5, TurnTyped
            <4>2. DataAt(buf, c) + SizeAt(buf, c) + 1 <= Len(s)
                BY <1>1, <3>3, <4>1, LineEnds
            <4>3. sum <= MaxSize
                BY <1>1, <2>5, <3>3, <4>2
            <4>4. Len(buf) < sum
                BY <3>2, <3>3, <4>3, WrapTyped
            <4>5. NextTurn(s, c).at = DataAt(buf, c) + SizeAt(buf, c) + 2
                BY <2>4, <2>5 DEF NextTurn
            <4> QED
                BY <1>1, <2>5, <3>3, <4>4, <4>5
        <3> QED
            BY <3>4, <3>5
    <2> QED
        BY <1>1, <2>2, <2>6, <2>7, <2>8
<1> QED
    BY <1>2, <1>3

(* the whole loop,                                                         *)
LEMMA DecodingReaches ==
    ASSUME NEW s, NEW buf, Extends(s, buf), Len(s) + 2 <= MaxSize, NEW c \in Loop,
           Decoding(buf)[c].verdict = "need_more", Decoding(s)[c].verdict = "ok"
    PROVE  Decoding(s)[c].len > Len(buf)
<1>1. s \in Bytes /\ buf \in Bytes /\ Len(buf) \in Nat /\ Len(s) \in Nat
    BY LenProperties DEF Extends, Bytes
<1> DEFINE S == {d \in Loop : Decoding(buf)[d].verdict = "need_more" /\ Decoding(s)[d].verdict = "ok"
                                 => Decoding(s)[d].len > Len(buf)}
<1>2. Handed(buf, S)
    <2> SUFFICES ASSUME NEW d \in Loop, Goes(buf, d) => NextTurn(buf, d) \in S,
                        Decoding(buf)[d].verdict = "need_more", Decoding(s)[d].verdict = "ok"
                 PROVE  Decoding(s)[d].len > Len(buf)
        BY DEF Handed
    <2>1. CASE Goes(buf, d)
        <3>1. Goes(s, d) /\ NextTurn(s, d) = NextTurn(buf, d)
            BY <2>1, TurnStands
        <3>2. /\ Decoding(buf)[d] = Decoding(buf)[NextTurn(buf, d)]
              /\ Decoding(s)[d] = Decoding(s)[NextTurn(buf, d)]
            BY <1>1, <2>1, <3>1, DecodingTurns
        <3> QED
            BY <2>1, <3>2
    <2>2. CASE ~Goes(buf, d)
        <3>1. Outcome(buf, d).verdict = "need_more"
            BY <1>1, <2>2, DecodingTurns
        <3>2. CASE Goes(s, d)
            <4>1. NextTurn(s, d).at > Len(buf)
                BY <2>2, <3>1, <3>2, TurnReaches
            <4>2. NextTurn(s, d) \in Loop /\ Decoding(s)[d] = Decoding(s)[NextTurn(s, d)]
                BY <1>1, <3>2, TurnTyped, DecodingTurns
            <4>3. Decoding(s)[d].len \in NextTurn(s, d).at + 1 .. Len(s)
                BY <1>1, <4>2, DecodingTyped
            <4>4. NextTurn(s, d).at \in Nat
                BY <4>2 DEF Loop
            <4> QED
                BY <1>1, <4>1, <4>3, <4>4
        <3>3. CASE ~Goes(s, d)
            <4>1. Decoding(s)[d] = Outcome(s, d)
                BY <1>1, <3>3, DecodingTurns
            <4> QED
                BY <2>2, <3>1, <3>3, <4>1, TurnReaches
        <3> QED
            BY <3>2, <3>3
    <2> QED
        BY <2>1, <2>2
<1> HIDE DEF S
<1>3. \A d \in Loop : d \in S
    BY <1>1, <1>2, TurnInduction
<1> QED
    BY <1>3 DEF S

(* the whole decision.                                                     *)
LEMMA DecideReaches ==
    ASSUME NEW s, NEW buf, Extends(s, buf), Len(s) + 2 <= MaxSize,
           Decide(buf).verdict = "need_more", Decide(s).verdict = "ok"
    PROVE  Decide(s).len > Len(buf)
<1>1. /\ s \in Bytes /\ buf \in Bytes /\ Len(buf) \in Nat /\ Len(s) \in Nat /\ Len(buf) <= Len(s)
      /\ MaxSize \in Nat
    BY LenProperties, FramingAssumption DEF Extends, Bytes
<1> DEFINE n == ParseHead(s).len
           e == DecodeBody(Rest(s), ModeOf(s))
<1>2. /\ ParseHead(s).verdict = "ok" /\ ModeOf(s).mode # "bad" /\ ModeOf(s) \in Modes
      /\ n \in 4 .. Len(s) /\ Rest(s) \in Bytes /\ Len(Rest(s)) = Len(s) - n
      /\ Decide(s) = Complete(n + e.len, e.body) /\ e.verdict = "ok"
    <2>1. ParseHead(s).verdict = "ok"
        BY <1>1, DecideParts DEF Decided
    <2>2. /\ n \in 4 .. Len(s) /\ Rest(s) \in Bytes /\ Len(Rest(s)) = Len(s) - n
          /\ ModeOf(s) \in Modes
          /\ Decide(s) = IF ModeOf(s).mode = "bad" THEN Decided("bad")
                         ELSE IF e.verdict # "ok" THEN e ELSE Complete(n + e.len, e.body)
        BY <1>1, <2>1, DecideParts
    <2> HIDE DEF n, e
    <2>3. ModeOf(s).mode # "bad"
        BY <2>2 DEF Decided
    <2> QED
        BY <2>1, <2>2, <2>3
<1>3. e \in Decision /\ e.len \in 0 .. Len(Rest(s))
    BY <1>2, BodyTyped
<1>4. Decide(s).len = n + e.len
    BY <1>2 DEF Complete
<1>5. CASE HeadEnd(buf) = 0
    <2>1. n = HeadEnd(s) + 3 /\ HeadEnd(s) # 0 /\ HeadEnd(s) \in Nat
        BY <1>1, <1>2, HeadTyped, FindsFirst DEF HeadEnd
    <2>2. n > Len(buf)
        BY <1>1, <1>5, <2>1, SameFind DEF HeadEnd
    <2> HIDE DEF n, e
    <2> QED
        BY <1>1, <1>2, <1>3, <1>4, <2>2
<1>6. CASE HeadEnd(buf) # 0
    <2> DEFINE d == DecodeBody(Rest(buf), ModeOf(s))
    <2>1. ParseHead(s) = ParseHead(buf) /\ ModeOf(s) = ModeOf(buf)
        BY <1>6, HeadStands DEF ModeOf
    <2>2. /\ n \in 4 .. Len(buf) /\ Len(Rest(buf)) = Len(buf) - n
          /\ Decide(buf) = IF d.verdict # "ok" THEN d ELSE Complete(n + d.len, d.body)
        BY <1>1, <1>2, <2>1, DecideParts
    <2>3. d.verdict = "need_more"
        BY <2>2 DEF Complete
    <2>4. Extends(Rest(s), Rest(buf))
        <3>1. n + 1 \in Nat \ {0}
            BY <2>2
        <3> QED
            BY <2>1, <3>1, RestExtends DEF Rest
    <2>5. e.len > Len(Rest(buf))
        <3>1. CASE ModeOf(s).mode = "chunked"
            <4> DEFINE c == [at |-> 1, out |-> <<>>]
            <4>1. c \in Loop /\ d = Decoding(Rest(buf))[c] /\ e = Decoding(Rest(s))[c]
                BY <3>1 DEF DecodeBody, DecodeChunked, Loop
            <4>2. Len(Rest(s)) + 2 <= MaxSize
                BY <1>1, <1>2
            <4> HIDE DEF c, d, e
            <4> QED
                BY <1>2, <2>3, <2>4, <4>1, <4>2, DecodingReaches
        <3>2. CASE ModeOf(s).mode # "chunked"
            <4>1. e.len = ModeOf(s).n /\ Len(Rest(buf)) < ModeOf(s).n
                BY <1>2, <2>3, <3>2 DEF DecodeBody, Decided, Complete
            <4> QED
                BY <4>1
        <3> QED
            BY <3>1, <3>2
    <2> HIDE DEF n, e, d
    <2> QED
        BY <1>1, <1>2, <1>3, <1>4, <2>2, <2>5
<1> QED
    BY <1>5, <1>6

-----------------------------------------------------------------------------
(***************************************************************************)
(* The connection.  Handled is what framed keeps of a request.             *)
(***************************************************************************)

Handled == [at : Nat, len : Nat \ {0}, body : Seq(Element)]

(* Where the next request begins.                                          *)
EndOf(f) == IF f = <<>> THEN 0 ELSE f[Len(f)].at + f[Len(f)].len

(* decision is what Decide makes of inbuf, and a request that is decided   *)
(* is the last of framed, the others having been drained.                  *)
Current ==
    /\ stream \in Streams
    /\ lo \in Nat /\ hi \in Nat /\ lo <= hi /\ hi <= Len(stream)
    /\ framed \in Seq(Handled)
    /\ decision = Decide(Inbuf)
    /\ decision.verdict = "need_more" => lo = EndOf(framed)
    /\ decision.verdict = "ok" =>
          /\ framed # <<>>
          /\ framed[Len(framed)] = [at |-> lo, len |-> decision.len, body |-> decision.body]

(* Each request handled is what Decide makes of the stream from the end of *)
(* the one before.                                                         *)
Consecutive ==
    \A i \in DOMAIN framed :
        /\ framed[i].at = IF i = 1 THEN 0 ELSE framed[i - 1].at + framed[i - 1].len
        /\ Decide(FromHere(framed[i].at)) = Complete(framed[i].len, framed[i].body)

(* No more than one read has gone beyond a request, or beyond the limit of *)
(* a head.                                                                 *)
Slack ==
    /\ decision.verdict = "ok" => hi - (lo + decision.len) <= ReadMax
    /\ decision.verdict = "need_more" /\ HeadEnd(Inbuf) # 0
          => HeadEnd(Inbuf) + 3 <= MaxHead + ReadMax

FInv == Current /\ Consecutive /\ Slack

(* A stream fits the machine's words, and what is in it from some place on *)
(* does.                                                                   *)
LEMMA StreamTyped ==
    ASSUME NEW s \in Streams
    PROVE  /\ s \in Bytes /\ Len(s) \in Nat /\ Len(s) + 2 <= MaxSize
           /\ \A at \in Nat, h \in Nat : at <= h /\ h <= Len(s) =>
                 /\ SubSeq(s, at + 1, h) \in Bytes /\ Len(SubSeq(s, at + 1, h)) = h - at
                 /\ Extends(SubSeq(s, at + 1, Len(s)), SubSeq(s, at + 1, h))
<1>1. s \in Bytes /\ Len(s) \in Nat /\ Len(s) + 2 <= MaxSize
    BY LenProperties, FramingAssumption DEF Bytes
<1>2. ASSUME NEW at \in Nat, NEW h \in Nat, at <= h, h <= Len(s)
      PROVE  /\ SubSeq(s, at + 1, h) \in Bytes /\ Len(SubSeq(s, at + 1, h)) = h - at
             /\ Extends(SubSeq(s, at + 1, Len(s)), SubSeq(s, at + 1, h))
    <2> DEFINE i == at + 1
               a == SubSeq(s, i, Len(s))
               b == SubSeq(s, i, h)
    <2>1. i \in Nat \ {0} /\ i = at + 1 /\ h \in Int /\ Len(s) \in Int
        BY <1>1
    <2> HIDE DEF i
    <2>2. /\ b \in Bytes /\ Len(b) = (IF i <= h THEN h - i + 1 ELSE 0)
          /\ \A k \in 1 .. h - i + 1 : b[k] = s[i + k - 1]
        BY <1>1, <1>2, <2>1, Part
    <2>3. /\ a \in Bytes /\ Len(a) = (IF i <= Len(s) THEN Len(s) - i + 1 ELSE 0)
          /\ \A k \in 1 .. Len(s) - i + 1 : a[k] = s[i + k - 1]
        BY <1>1, <2>1, Part
    <2> HIDE DEF a, b
    <2>4. Len(b) = h - at /\ Len(b) <= Len(a)
        BY <1>1, <1>2, <2>1, <2>2, <2>3
    <2>5. ASSUME NEW k \in 1 .. Len(b) PROVE a[k] = b[k]
        <3>1. k \in 1 .. h - i + 1 /\ k \in 1 .. Len(s) - i + 1
            BY <1>1, <1>2, <2>1, <2>4
        <3> QED
            BY <2>2, <2>3, <3>1
    <2>6. Extends(a, b)
        BY <2>2, <2>3, <2>4, <2>5 DEF Extends
    <2> QED
        BY <2>2, <2>4, <2>6 DEF a, b, i
<1> QED
    BY <1>1, <1>2

(* The smaller of two numbers, as the model writes it.                     *)
LEMMA MinPair ==
    ASSUME NEW a \in Nat, NEW b \in Nat
    PROVE  Min({a, b}) \in Nat /\ Min({a, b}) <= a /\ Min({a, b}) <= b /\ (a <= b => Min({a, b}) = a)
<1>1. {a, b} \in SUBSET Nat /\ {a, b} # {}
    OBVIOUS
<1>2. \E x \in {a, b} : \A y \in {a, b} : x <= y
    BY <1>1, LeastNatural
<1>3. Min({a, b}) \in {a, b} /\ \A y \in {a, b} : Min({a, b}) <= y
    BY <1>2 DEF Min
<1> QED
    BY <1>3

(* Read and Finish call try_dispatch on more of the stream, or on what is  *)
(* left of inbuf.                                                          *)
LEMMA Dispatches ==
    ASSUME Current, Next
    PROVE  \E l, h \in Nat :
              /\ l <= h /\ h <= Len(stream) /\ TryDispatch(l, h) /\ l = EndOf(framed)
              /\ \/ decision.verdict = "need_more" /\ l = lo /\ hi <= h /\ h <= hi + ReadMax
                 \/ decision.verdict = "ok" /\ l = lo + decision.len /\ h = hi
<1>1. /\ stream \in Streams /\ lo \in Nat /\ hi \in Nat /\ lo <= hi /\ hi <= Len(stream)
      /\ Len(stream) \in Nat /\ ReadMax \in Nat
    BY StreamTyped, FramingAssumption DEF Current
<1>2. CASE Read
    <2>1. PICK n \in 1 .. Min({ReadMax, Len(stream) - hi}) : TryDispatch(lo, hi + n)
        BY <1>2 DEF Read
    <2>2. Len(stream) - hi \in Nat
        BY <1>1
    <2>3. n \in Nat /\ n <= ReadMax /\ n <= Len(stream) - hi
        BY <1>1, <2>1, <2>2, MinPair
    <2>4. decision.verdict = "need_more" /\ lo = EndOf(framed)
        BY <1>2 DEF Read, Current
    <2>5. hi + n \in Nat /\ lo <= hi + n /\ hi + n <= Len(stream) /\ hi <= hi + n /\ hi + n <= hi + ReadMax
        BY <1>1, <2>3
    <2> QED
        BY <1>1, <2>1, <2>4, <2>5
<1>3. CASE Finish
    <2>1. decision.verdict = "ok" /\ TryDispatch(Min({lo + decision.len, hi}), hi)
        BY <1>3 DEF Finish
    <2>2. decision.len \in 4 .. Len(Inbuf) /\ Len(Inbuf) = hi - lo
        BY <1>1, <2>1, StreamTyped, DecideTyped DEF Current, Inbuf
    <2>3. lo + decision.len \in Nat /\ lo + decision.len <= hi
        BY <1>1, <2>2
    <2>4. Min({lo + decision.len, hi}) = lo + decision.len
        BY <1>1, <2>3, MinPair
    <2>5. lo + decision.len = EndOf(framed)
        BY <2>1 DEF Current, EndOf
    <2> QED
        BY <1>1, <2>1, <2>3, <2>4, <2>5
<1> QED
    BY <1>2, <1>3 DEF Next

(* What try_dispatch decides is what it would of the rest of the stream.   *)
LEMMA DecidedOfStream ==
    ASSUME NEW s \in Streams, NEW at \in Nat, NEW h \in Nat, at <= h, h <= Len(s),
           Decide(SubSeq(s, at + 1, h)).verdict # "need_more"
    PROVE  \/ Decide(SubSeq(s, at + 1, Len(s))) = Decide(SubSeq(s, at + 1, h))
           \/ /\ Decide(SubSeq(s, at + 1, h)).verdict = "bad"
              /\ HeadEnd(SubSeq(s, at + 1, Len(s))) > MaxHead - 3
<1> DEFINE a == SubSeq(s, at + 1, Len(s))
           b == SubSeq(s, at + 1, h)
<1>1. Len(s) \in Nat /\ Len(s) + 2 <= MaxSize /\ Extends(a, b)
    BY StreamTyped
<1>2. Len(a) + 2 <= MaxSize
    <2>1. at <= Len(s)
        BY <1>1
    <2>2. Len(a) = Len(s) - at
        BY <1>1, <2>1, StreamTyped
    <2> HIDE DEF a
    <2> QED
        BY <1>1, <2>1, <2>2, FramingAssumption
<1>3. Decide(b).verdict # "need_more"
    OBVIOUS
<1> HIDE DEF a, b
<1>4. \/ Decide(a) = Decide(b)
      \/ Decide(b).verdict = "bad" /\ HeadEnd(a) > MaxHead - 3
    BY <1>1, <1>2, <1>3, DecideStands
<1> QED
    BY <1>4 DEF a, b

(* A connection on which nothing was received satisfies the invariant.     *)
LEMMA FramingInit ==
    ASSUME Init
    PROVE  FInv
<1>1. /\ stream \in Streams /\ lo = 0 /\ hi = 0 /\ framed = <<>>
      /\ decision = Decided("need_more") /\ decision.verdict = "need_more"
    BY DEF Init, Decided
<1>2. Len(stream) \in Nat /\ Inbuf \in Bytes /\ Len(Inbuf) = 0
    BY <1>1, StreamTyped DEF Inbuf
<1>3. HeadEnd(Inbuf) = 0 /\ ~HeadTooLong(Inbuf)
    <2>1. HeadEnd(Inbuf) # 0 => HeadEnd(Inbuf) \in Nat /\ HeadEnd(Inbuf) + 3 <= 0
        BY <1>2, HeadEnds
    <2>2. MaxHead \in Nat
        BY FramingAssumption
    <2> QED
        BY <1>2, <2>1, <2>2 DEF HeadTooLong
<1>4. decision = Decide(Inbuf)
    <2>1. ParseHead(Inbuf).verdict = "need_more"
        BY <1>2, <1>3, HeadTyped
    <2> QED
        BY <1>1, <1>2, <2>1, DecideParts
<1>5. Current
    BY <1>1, <1>2, <1>4 DEF Current, EndOf, Handled
<1>6. Consecutive /\ Slack
    BY <1>1, <1>3 DEF Consecutive, Slack
<1> QED
    BY <1>5, <1>6 DEF FInv

(* A call of try_dispatch keeps the record of what was handled.            *)
LEMMA DispatchCurrent ==
    ASSUME Current, NEW l \in Nat, NEW h \in Nat, l <= h, h <= Len(stream),
           l = EndOf(framed), TryDispatch(l, h)
    PROVE  Current'
<1> DEFINE b == SubSeq(stream, l + 1, h)
           d == Decide(b)
           f == [at |-> l, len |-> d.len, body |-> d.body]
<1>1. /\ stream \in Streams /\ stream' = stream /\ lo' = l /\ hi' = h /\ decision' = d
      /\ framed' = IF d.verdict = "ok" THEN Append(framed, f) ELSE framed
      /\ Inbuf' = b /\ framed \in Seq(Handled) /\ Len(framed) \in Nat
    BY LenProperties DEF Current, TryDispatch, Inbuf
<1>2. b \in Bytes
    BY <1>1, StreamTyped
<1> HIDE DEF b
<1>3. d \in Decision /\ (d.verdict = "ok" => d.len \in 4 .. Len(b))
    BY <1>2, DecideTyped
<1>4. decision' = Decide(Inbuf')
    BY <1>1
<1> HIDE DEF d
<1>5. d.verdict = "ok" => f \in Handled
    BY <1>2, <1>3, LenProperties DEF Decision, Handled, Bytes
<1> HIDE DEF f
<1>6. CASE d.verdict = "ok"
    <2>1. /\ framed' \in Seq(Handled) /\ Len(framed') = Len(framed) + 1
          /\ framed'[Len(framed) + 1] = f
        BY <1>1, <1>5, <1>6, AppendProperties
    <2>2. framed' # <<>>
        BY <1>1, <2>1
    <2>3. framed'[Len(framed')] = [at |-> lo', len |-> decision'.len, body |-> decision'.body]
        BY <1>1, <2>1 DEF f
    <2> QED
        BY <1>1, <1>4, <1>6, <2>1, <2>2, <2>3 DEF Current
<1>7. CASE d.verdict # "ok"
    <2>1. framed' = framed /\ EndOf(framed)' = EndOf(framed)
        BY <1>1, <1>7 DEF EndOf
    <2> QED
        BY <1>1, <1>4, <1>7, <2>1 DEF Current
<1> QED
    BY <1>6, <1>7

(* A dispatch hands on the request that begins where the one before it     *)
(* ended.                                                                  *)
LEMMA DispatchConsecutive ==
    ASSUME Current, Consecutive, NEW l \in Nat, NEW h \in Nat, l <= h, h <= Len(stream),
           l = EndOf(framed), TryDispatch(l, h)
    PROVE  Consecutive'
<1> DEFINE b == SubSeq(stream, l + 1, h)
           d == Decide(b)
           f == [at |-> l, len |-> d.len, body |-> d.body]
<1>1. /\ stream \in Streams /\ stream' = stream
      /\ framed' = IF d.verdict = "ok" THEN Append(framed, f) ELSE framed
      /\ framed \in Seq(Handled) /\ Len(framed) \in Nat /\ DOMAIN framed = 1 .. Len(framed)
    BY LenProperties DEF Current, TryDispatch
<1>2. b \in Bytes
    BY <1>1, StreamTyped
<1>3. d \in Decision /\ (d.verdict = "ok" => d.len \in 4 .. Len(b))
    BY <1>2, DecideTyped
<1>4. \A at : FromHere(at)' = FromHere(at)
    BY <1>1 DEF FromHere
<1>5. d.verdict = "ok" => Decide(FromHere(l)) = Complete(d.len, d.body)
    <2>1. d.verdict = "ok" => Decide(FromHere(l)) = d
        BY <1>1, DecidedOfStream DEF FromHere
    <2>2. d.verdict = "ok" => d = Complete(d.len, d.body)
        BY <1>3 DEF Decision, Complete
    <2> QED
        BY <2>1, <2>2
<1> HIDE DEF b, d
<1>6. d.verdict = "ok" => f \in Handled
    BY <1>2, <1>3, LenProperties DEF Decision, Handled, Bytes
<1>7. f.at = l /\ f.len = d.len /\ f.body = d.body
    OBVIOUS
<1> HIDE DEF f
<1>8. CASE d.verdict = "ok"
    <2>1. /\ framed' \in Seq(Handled) /\ Len(framed') = Len(framed) + 1
          /\ framed'[Len(framed) + 1] = f
          /\ \A i \in 1 .. Len(framed) : framed'[i] = framed[i]
        BY <1>1, <1>6, <1>8, AppendProperties
    <2>2. DOMAIN framed' = 1 .. Len(framed) + 1
        BY <2>1, LenProperties
    <2>3. ASSUME NEW i \in 1 .. Len(framed)
          PROVE  /\ framed'[i].at = IF i = 1 THEN 0 ELSE framed'[i - 1].at + framed'[i - 1].len
                 /\ Decide(FromHere(framed'[i].at)) = Complete(framed'[i].len, framed'[i].body)
        <3>1. framed'[i] = framed[i] /\ (i # 1 => framed'[i - 1] = framed[i - 1])
            BY <1>1, <2>1
        <3> QED
            BY <1>1, <3>1 DEF Consecutive
    <2>4. f.at = IF Len(framed) + 1 = 1 THEN 0 ELSE framed[Len(framed)].at + framed[Len(framed)].len
        <3>1. framed = <<>> <=> Len(framed) = 0
            BY <1>1, EmptySeq
        <3> QED
            BY <1>1, <1>7, <3>1 DEF EndOf
    <2>5. /\ framed'[Len(framed) + 1].at =
                IF Len(framed) + 1 = 1 THEN 0
                ELSE framed'[Len(framed) + 1 - 1].at + framed'[Len(framed) + 1 - 1].len
          /\ Decide(FromHere(framed'[Len(framed) + 1].at))
                = Complete(framed'[Len(framed) + 1].len, framed'[Len(framed) + 1].body)
        <3>1. Len(framed) + 1 - 1 = Len(framed) /\ (Len(framed) + 1 # 1 => Len(framed) \in 1 .. Len(framed))
            BY <1>1
        <3>2. Len(framed) + 1 # 1 => framed'[Len(framed)] = framed[Len(framed)]
            BY <2>1, <3>1
        <3> QED
            BY <1>5, <1>7, <1>8, <2>1, <2>4, <3>1, <3>2
    <2>6. ASSUME NEW i \in DOMAIN framed'
          PROVE  /\ framed'[i].at = IF i = 1 THEN 0 ELSE framed'[i - 1].at + framed'[i - 1].len
                 /\ Decide(FromHere(framed'[i].at)) = Complete(framed'[i].len, framed'[i].body)
        <3>1. i \in 1 .. Len(framed) \/ i = Len(framed) + 1
            BY <1>1, <2>2
        <3> QED
            BY <2>3, <2>5, <3>1
    <2> QED
        BY <1>4, <2>6 DEF Consecutive
<1>9. CASE d.verdict # "ok"
    BY <1>1, <1>4, <1>9 DEF Consecutive
<1> QED
    BY <1>8, <1>9

(* A dispatch leaves at most one read's bytes behind an accepted request,  *)
(* and a head it waits behind is at most one read beyond its limit.        *)
LEMMA DispatchSlack ==
    ASSUME Current, Slack, NEW l \in Nat, NEW h \in Nat, l <= h, h <= Len(stream),
           TryDispatch(l, h),
           \/ decision.verdict = "need_more" /\ l = lo /\ hi <= h /\ h <= hi + ReadMax
           \/ decision.verdict = "ok" /\ l = lo + decision.len /\ h = hi
    PROVE  Slack'
<1> DEFINE b == SubSeq(stream, l + 1, h)
<1>1. /\ stream \in Streams /\ lo \in Nat /\ hi \in Nat /\ lo <= hi /\ hi <= Len(stream)
      /\ lo' = l /\ hi' = h /\ decision' = Decide(b) /\ Inbuf' = b
      /\ Len(stream) \in Nat /\ Len(stream) + 2 <= MaxSize
      /\ decision = Decide(Inbuf)
      /\ ReadMax \in Nat /\ MaxHead \in Nat /\ MaxSize \in Nat
    BY StreamTyped, FramingAssumption DEF Current, TryDispatch, Inbuf
<1>2. b \in Bytes /\ Len(b) = h - l /\ Inbuf \in Bytes /\ Len(Inbuf) = hi - lo
    BY <1>1, StreamTyped DEF Inbuf
<1>3. Decide(b).verdict = "ok" => Decide(b).len \in 4 .. Len(b)
    BY <1>2, DecideTyped
<1>4. HeadEnd(b) # 0 => HeadEnd(b) \in Nat /\ HeadEnd(b) + 3 <= Len(b)
    BY <1>2, HeadEnds
<1>5. CASE decision.verdict = "ok" /\ l = lo + decision.len /\ h = hi
    <2>1. Len(b) <= ReadMax
        BY <1>1, <1>2, <1>5 DEF Slack
    <2> HIDE DEF b
    <2>2. Decide(b).verdict = "ok" => h - (l + Decide(b).len) <= ReadMax
        BY <1>1, <1>2, <1>3, <2>1
    <2>3. HeadEnd(b) # 0 => HeadEnd(b) + 3 <= MaxHead + ReadMax
        BY <1>1, <1>2, <1>4, <2>1
    <2> QED
        BY <1>1, <2>2, <2>3 DEF Slack
<1>6. CASE decision.verdict = "need_more" /\ l = lo /\ hi <= h /\ h <= hi + ReadMax
    <2>1. Extends(b, Inbuf)
        <3> DEFINE i == lo + 1
        <3>2. /\ i \in Nat \ {0} /\ hi \in Int /\ h \in Int /\ h <= Len(stream) /\ stream \in Bytes
              /\ i = lo + 1
            BY <1>1, StreamTyped
        <3>3. b = SubSeq(stream, i, h) /\ Inbuf = SubSeq(stream, i, hi)
            BY <1>6 DEF Inbuf
        <3> HIDE DEF b, i
        <3>4. \A k \in 1 .. h - i + 1 : b[k] = stream[i + k - 1]
            BY <3>2, <3>3, Part, SMTT(30)
        <3>5. \A k \in 1 .. hi - i + 1 : Inbuf[k] = stream[i + k - 1]
            BY <1>1, <3>2, <3>3, Part
        <3>6. \A k \in 1 .. Len(Inbuf) : b[k] = Inbuf[k]
            <4>1. \A k \in 1 .. Len(Inbuf) : k \in 1 .. h - i + 1 /\ k \in 1 .. hi - i + 1
                BY <1>1, <1>2, <1>6, <3>2
            <4> QED
                BY <3>4, <3>5, <4>1
        <3>7. Len(Inbuf) <= Len(b)
            BY <1>1, <1>2, <1>6
        <3> QED
            BY <1>2, <3>6, <3>7 DEF Extends
    <2>2. Len(b) + 2 <= MaxSize
        BY <1>1, <1>2
    <2> HIDE DEF b
    <2>3. Decide(b).verdict = "ok" => Decide(b).len > Len(Inbuf)
        BY <1>1, <1>6, <2>1, <2>2, DecideReaches
    <2>4. Decide(b).verdict = "ok" => h - (l + Decide(b).len) <= ReadMax
        BY <1>1, <1>2, <1>3, <1>6, <2>3, SMTT(30)
    <2>5. HeadEnd(b) # 0 => HeadEnd(b) + 3 <= MaxHead + ReadMax
        <3>1. CASE HeadEnd(Inbuf) # 0
            <4>1. HeadEnd(b) = HeadEnd(Inbuf)
                BY <2>1, <3>1, HeadStands
            <4> QED
                BY <1>6, <3>1, <4>1 DEF Slack
        <3>2. CASE HeadEnd(Inbuf) = 0
            <4>1. ParseHead(Inbuf).verdict = IF HeadTooLong(Inbuf) THEN "bad" ELSE "need_more"
                BY <1>2, <3>2, HeadTyped
            <4>2. decision = Decided(ParseHead(Inbuf).verdict)
                BY <1>1, <1>2, <4>1, DecideParts
            <4>3. Len(Inbuf) <= MaxHead
                BY <1>1, <1>2, <1>6, <4>1, <4>2 DEF HeadTooLong, Decided
            <4> QED
                BY <1>1, <1>2, <1>4, <1>6, <4>3
        <3> QED
            BY <3>1, <3>2
    <2> QED
        BY <1>1, <2>4, <2>5 DEF Slack
<1> QED
    BY <1>5, <1>6

(* Each step of a connection keeps the invariant.                          *)
LEMMA FramingStep ==
    ASSUME FInv, [Next]_vars
    PROVE  FInv'
<1>1. CASE Next
    <2>1. PICK l \in Nat, h \in Nat :
             /\ l <= h /\ h <= Len(stream) /\ TryDispatch(l, h) /\ l = EndOf(framed)
             /\ \/ decision.verdict = "need_more" /\ l = lo /\ hi <= h /\ h <= hi + ReadMax
                \/ decision.verdict = "ok" /\ l = lo + decision.len /\ h = hi
        BY <1>1, Dispatches DEF FInv
    <2>2. Current'
        BY <2>1, DispatchCurrent DEF FInv
    <2>3. Consecutive'
        BY <2>1, DispatchConsecutive DEF FInv
    <2>4. Slack'
        BY <2>1, DispatchSlack DEF FInv
    <2> QED
        BY <2>2, <2>3, <2>4 DEF FInv
<1>2. CASE UNCHANGED vars
    BY <1>2 DEF vars, FInv, Current, Consecutive, Slack, Inbuf, FromHere, EndOf
<1> QED
    BY <1>1, <1>2

(* The invariant that the others follow from.                              *)
THEOREM FramingInvariant == Spec => []FInv
<1>1. Init => FInv
    BY FramingInit
<1>2. FInv /\ [Next]_vars => FInv'
    BY FramingStep
<1> QED
    BY <1>1, <1>2, PTL DEF Spec

(* Every variable has its type.                                            *)
THEOREM FramingTyped == Spec => []TypeOK
<1>1. FInv => TypeOK
    <2> SUFFICES ASSUME FInv PROVE TypeOK
        OBVIOUS
    <2>1. /\ stream \in Seq(Element) /\ lo \in 0 .. hi /\ hi \in 0 .. Len(stream)
          /\ framed \in Seq([at : Nat, len : Nat \ {0}, body : Seq(Element)])
        BY StreamTyped DEF FInv, Current, Handled, Bytes
    <2>2. Inbuf \in Bytes
        BY StreamTyped DEF FInv, Current, Inbuf
    <2>3. decision \in Decision
        BY <2>2, DecideTyped DEF FInv, Current
    <2> QED
        BY <2>1, <2>3 DEF TypeOK
<1> QED
    BY <1>1, FramingInvariant, PTL

(* The decisions of try_dispatch do not depend on how reads split the      *)
(* stream.                                                                 *)
THEOREM DecisionsSplitIndependent == Spec => []SplitIndependent
<1>1. FInv => SplitIndependent
    <2> SUFFICES ASSUME FInv, decision.verdict # "need_more"
                 PROVE  LET rest == FromHere(lo)
                        IN  \/ Decide(rest) = decision
                            \/ /\ decision.verdict = "bad"
                               /\ FindFrom(rest, 1, CRLF \o CRLF) > MaxHead - 3
        BY DEF SplitIndependent
    <2>1. /\ stream \in Streams /\ lo \in Nat /\ hi \in Nat /\ lo <= hi /\ hi <= Len(stream)
          /\ decision = Decide(SubSeq(stream, lo + 1, hi))
        BY DEF FInv, Current, Inbuf
    <2> QED
        BY <2>1, DecidedOfStream DEF FromHere, HeadEnd
<1> QED
    BY <1>1, FramingInvariant, PTL

(* Bodies in chunks aside, inbuf is bounded.                               *)
THEOREM BuffersBounded == Spec => []BufferBounded
<1>1. FInv => BufferBounded
    <2> SUFFICES ASSUME FInv, decision.verdict = "need_more"
                 PROVE  IF ParseHead(Inbuf).verdict # "ok" THEN Len(Inbuf) <= MaxHead
                        ELSE \/ BodyMode(ParseHead(Inbuf).fields).mode = "chunked"
                             \/ Len(Inbuf) < MaxHead + ReadMax + MaxBody
        BY DEF BufferBounded
    <2>1. Inbuf \in Bytes /\ decision = Decide(Inbuf)
        BY StreamTyped DEF FInv, Current, Inbuf
    <2>2. Len(Inbuf) \in Nat /\ MaxHead \in Nat /\ ReadMax \in Nat /\ MaxBody \in Nat /\ MaxSize \in Nat
        BY <2>1, LenProperties, FramingAssumption DEF Bytes
    <2>3. CASE ParseHead(Inbuf).verdict # "ok"
        <3>1. ParseHead(Inbuf).verdict = "need_more"
            BY <2>1, <2>3, DecideParts DEF Decided
        <3>2. ~HeadTooLong(Inbuf)
            BY <2>1, <3>1, HeadTyped
        <3> QED
            BY <2>2, <2>3, <3>2 DEF HeadTooLong
    <2>4. CASE ParseHead(Inbuf).verdict = "ok" /\ ModeOf(Inbuf).mode # "chunked"
        <3> DEFINE n == ParseHead(Inbuf).len
                   mode == ModeOf(Inbuf)
                   d == DecodeBody(Rest(Inbuf), mode)
        <3>1. n = HeadEnd(Inbuf) + 3 /\ HeadEnd(Inbuf) # 0
            BY <2>1, <2>4, HeadTyped
        <3>2. n \in Nat /\ n <= MaxHead + ReadMax
            <4>1. n \in 4 .. Len(Inbuf)
                BY <2>1, <2>4, DecideParts
            <4> QED
                BY <3>1, <4>1 DEF FInv, Slack
        <3>3. /\ Len(Rest(Inbuf)) = Len(Inbuf) - n /\ mode \in Modes
              /\ decision = IF mode.mode = "bad" THEN Decided("bad")
                            ELSE IF d.verdict # "ok" THEN d ELSE Complete(n + d.len, d.body)
            BY <2>1, <2>4, DecideParts
        <3> HIDE DEF n
        <3>4. d.verdict = "need_more" /\ mode.mode = "length" /\ mode.n \in 0 .. MaxSize
            BY <2>4, <3>3 DEF Decided, Complete, Modes
        <3>5. Len(Rest(Inbuf)) < mode.n /\ mode.n <= MaxBody
            BY <2>2, <3>4 DEF DecodeBody, Decided, Complete
        <3>6. Len(Inbuf) < MaxHead + ReadMax + MaxBody
            BY <2>2, <3>2, <3>3, <3>4, <3>5
        <3> QED
            BY <2>4, <3>6
    <2> QED
        BY <2>3, <2>4 DEF ModeOf
<1> QED
    BY <1>1, FramingInvariant, PTL

-----------------------------------------------------------------------------
(***************************************************************************)
(* Decisions and requests.  The places of a buffer are ordered by how much *)
(* of it is left there.                                                    *)
(***************************************************************************)

Places == Nat \ {0}

LeftAt(s) == [i \in Places |-> IF i > Len(s) THEN 0 ELSE Len(s) + 1 - i]

(* The bytes left behind a place of the stream measure the places: the     *)
(* reference's recursion ends.                                             *)
LEMMA LeftMeasures ==
    ASSUME NEW s \in Bytes
    PROVE  /\ LeftAt(s) \in [Places -> Nat] /\ Measures(LeftAt(s), Len(s) + 2, Places)
           /\ \A i, j \in Places : i < j /\ i <= Len(s) => LeftAt(s)[j] < LeftAt(s)[i]
<1>1. Len(s) \in Nat
    BY LenProperties DEF Bytes
<1> QED
    BY <1>1 DEF LeftAt, Measures, Places

(* The line that begins at i is unique.                                    *)
LEMMA LineFound ==
    ASSUME NEW s \in Bytes, NEW i \in Places, NEW k \in Int
    PROVE  /\ k \in i + 1 .. Len(s) /\ IsLine(s, i, k)
              <=> FindFrom(s, i, CRLF) # 0 /\ k = FindFrom(s, i, CRLF) + 1
           /\ FindFrom(s, i, CRLF) # 0 =>
                 /\ FindFrom(s, i, CRLF) \in i .. Len(s) - 1
                 /\ IsAt(s, FindFrom(s, i, CRLF), CRLF)
                 /\ \A j \in i .. FindFrom(s, i, CRLF) - 1 : ~IsAt(s, j, CRLF)
<1> DEFINE e == FindFrom(s, i, CRLF)
<1>1. Len(s) \in Nat /\ i \in Nat \ {0} /\ e \in Nat
    BY LenProperties, FindsFirst DEF Bytes, Places
<1>2. ASSUME e # 0
      PROVE  e \in i .. Len(s) - 1 /\ IsAt(s, e, CRLF) /\ \A j \in i .. e - 1 : ~IsAt(s, j, CRLF)
    <2>1. FirstAt(s, i, CRLF, e)
        BY <1>1, <1>2, FindsFirst
    <2> HIDE DEF e
    <2>2. e \in i .. Len(s) /\ IsAt(s, e, CRLF) /\ \A j \in i .. e - 1 : ~IsAt(s, j, CRLF)
        BY <2>1 DEF FirstAt
    <2>3. e + 1 <= Len(s)
        BY <1>1, <2>2, LineEnds
    <2> QED
        BY <1>1, <2>2, <2>3
<1>3. ASSUME k \in i + 1 .. Len(s), IsLine(s, i, k) PROVE e # 0 /\ k = e + 1
    <2>1. IsAt(s, k - 1, CRLF) /\ \A j \in i .. k - 2 : ~IsAt(s, j, CRLF)
        BY <1>3 DEF IsLine
    <2>2. FirstAt(s, i, CRLF, k - 1)
        BY <1>1, <1>3, <2>1 DEF FirstAt
    <2>3. e = k - 1
        BY <1>1, <2>2, FindsFirst
    <2> QED
        BY <1>1, <1>3, <2>3
<1>4. ASSUME e # 0, k = e + 1 PROVE k \in i + 1 .. Len(s) /\ IsLine(s, i, k)
    <2> HIDE DEF e
    <2>1. k \in i + 1 .. Len(s) /\ k - 1 = e /\ k - 2 = e - 1
        BY <1>1, <1>2, <1>4
    <2> QED
        BY <1>1, <1>2, <1>4, <2>1 DEF IsLine
<1> QED
    BY <1>2, <1>3, <1>4

(* The lines after the last chunk end where Trailer looks for their end.   *)
LEMMA TrailerEndsFound ==
    ASSUME NEW s \in Bytes, NEW i \in Places
    PROVE  TrailerEnds(s)[i] = IF IsAt(s, i, CRLF) THEN {i + 1}
                               ELSE IF FindFrom(s, i, CRLF \o CRLF) = 0 THEN {}
                               ELSE {FindFrom(s, i, CRLF \o CRLF) + 3}
<1> DEFINE Lines(p) == {k \in p + 2 .. Len(s) : IsLine(s, p, k)}
           Ends(f, p) == {j \in {p + 1} : IsAt(s, p, CRLF)}
                         \cup UNION {f[j + 1] : j \in Lines(p)}
           G == [f \in [Places -> SUBSET Nat] |-> [p \in Places |-> Ends(f, p)]]
<1>1. Len(s) \in Nat
    BY LenProperties DEF Bytes
<1>2. \A p \in Places : \A j \in Lines(p) :
         j + 1 \in Places /\ LeftAt(s)[j + 1] < LeftAt(s)[p]
    BY <1>1, LeftMeasures DEF Places
<1>3. Lowers(G, LeftAt(s), Places, SUBSET Nat)
    <2>1. ASSUME NEW f \in [Places -> SUBSET Nat], NEW p \in Places PROVE Ends(f, p) \in SUBSET Nat
        <3>1. \A j \in Lines(p) : f[j + 1] \in SUBSET Nat
            BY <1>2
        <3>2. p + 1 \in Nat
            BY DEF Places
        <3> HIDE DEF Lines
        <3> QED
            BY <3>1, <3>2
    <2>2. ASSUME NEW p \in Places, NEW f \in [Places -> SUBSET Nat], NEW g \in [Places -> SUBSET Nat],
                 \A y \in Places : LeftAt(s)[y] < LeftAt(s)[p] => f[y] = g[y]
          PROVE  Ends(f, p) = Ends(g, p)
        <3>1. \A j \in Lines(p) : f[j + 1] = g[j + 1]
            BY <1>2, <2>2
        <3> HIDE DEF Lines
        <3> QED
            BY <3>1
    <2> HIDE DEF Ends
    <2>3. \A f \in [Places -> SUBSET Nat] : \A p \in Places : G[f][p] = Ends(f, p)
        OBVIOUS
    <2>4. G \in [[Places -> SUBSET Nat] -> [Places -> SUBSET Nat]]
        BY <2>1
    <2> HIDE DEF G
    <2> QED
        BY <2>2, <2>3, <2>4 DEF Lowers
<1>4. \E f : f = [p \in Places |-> Ends(f, p)]
    <2>1. \A f \in [Places -> SUBSET Nat] : \A p \in Places : G[f][p] = Ends(f, p)
        OBVIOUS
    <2> HIDE DEF G, Ends
    <2>2. {} \in SUBSET Nat /\ Len(s) + 2 \in Nat
        BY <1>1
    <2>3. PICK f \in [Places -> SUBSET Nat] : Solves(f, G, Places)
        BY <1>3, <2>2, LeftMeasures, RecursiveFunction
    <2>4. f = [p \in Places |-> Ends(f, p)]
        BY <2>1, <2>3 DEF Solves
    <2> QED
        BY <2>4
<1>5. TrailerEnds(s) = CHOOSE f : f = [p \in Places |-> Ends(f, p)]
    BY DEF TrailerEnds, Places
<1> HIDE DEF Ends, G
<1>6. TrailerEnds(s) = [p \in Places |-> Ends(TrailerEnds(s), p)]
    BY <1>4, <1>5
<1> DEFINE Found(p) == IF IsAt(s, p, CRLF) THEN {p + 1}
                       ELSE IF FindFrom(s, p, CRLF \o CRLF) = 0 THEN {}
                       ELSE {FindFrom(s, p, CRLF \o CRLF) + 3}
           S == {p \in Places : TrailerEnds(s)[p] = Found(p)}
<1>7. ASSUME NEW p \in Places,
             \A y \in Places : LeftAt(s)[y] < LeftAt(s)[p] => y \in S
      PROVE  TrailerEnds(s)[p] = Found(p)
    <2> DEFINE e == FindFrom(s, p, CRLF)
    <2>1. /\ \A k \in Int : k \in p + 1 .. Len(s) /\ IsLine(s, p, k) <=> e # 0 /\ k = e + 1
          /\ e # 0 => /\ e \in p .. Len(s) - 1 /\ IsAt(s, e, CRLF)
                      /\ \A j \in p .. e - 1 : ~IsAt(s, j, CRLF)
          /\ e \in Nat /\ p \in Nat \ {0}
        BY LineFound, FindsFirst DEF Places
    <2>2. TrailerEnds(s)[p] = {j \in {p + 1} : IsAt(s, p, CRLF)}
                              \cup UNION {TrailerEnds(s)[j + 1] : j \in Lines(p)}
        BY <1>6 DEF Ends
    <2>3. (e = 0 => \A j \in p .. Len(s) : ~IsAt(s, j, CRLF)) /\ (IsAt(s, p, CRLF) => e = p)
        <3>1. e = 0 => \A j \in p .. Len(s) : ~IsAt(s, j, CRLF)
            BY <2>1, FindsFirst
        <3>2. ASSUME IsAt(s, p, CRLF) PROVE e = p
            <4>1. p + 1 <= Len(s)
                BY <2>1, <3>2, LineEnds
            <4>2. FirstAt(s, p, CRLF, p)
                BY <1>1, <2>1, <3>2, <4>1 DEF FirstAt
            <4> QED
                BY <2>1, <4>2, FindsFirst
        <3> QED
            BY <3>1, <3>2
    <2> HIDE DEF e
    <2>4. CASE IsAt(s, p, CRLF)
        <3>1. Lines(p) = {}
            BY <1>1, <2>1, <2>3, <2>4
        <3> HIDE DEF Lines
        <3> QED
            BY <2>2, <2>4, <3>1
    <2>5. CASE e = 0
        <3>1. Lines(p) = {} /\ ~IsAt(s, p, CRLF)
            BY <1>1, <2>1, <2>3, <2>5
        <3>2. FindFrom(s, p, CRLF \o CRLF) = 0
            <4> SUFFICES ASSUME FindFrom(s, p, CRLF \o CRLF) # 0 PROVE FALSE
                OBVIOUS
            <4>1. FirstAt(s, p, CRLF \o CRLF, FindFrom(s, p, CRLF \o CRLF))
                BY <2>1, FindsFirst
            <4>2. PICK k : k \in p .. Len(s) /\ IsAt(s, k, CRLF \o CRLF)
                BY <4>1 DEF FirstAt
            <4>3. k \in Nat \ {0}
                BY <2>1, <4>2
            <4>4. IsAt(s, k, CRLF)
                BY <4>2, <4>3, LineEnds
            <4> QED
                BY <2>3, <2>5, <4>2, <4>4
        <3> HIDE DEF Lines
        <3> QED
            BY <2>2, <3>1, <3>2
    <2>6. CASE ~IsAt(s, p, CRLF) /\ e # 0
        <3>1. Lines(p) = {e + 1}
            <4>1. e + 1 \in Lines(p)
                <5>1. e # p
                    BY <2>1, <2>6
                <5>2. e + 1 \in Int
                    BY <2>1
                <5>3. e + 1 \in p + 1 .. Len(s) /\ IsLine(s, p, e + 1)
                    BY <2>1, <2>6, <5>2
                <5> QED
                    BY <1>1, <2>1, <2>6, <5>1, <5>3
            <4>2. \A k \in Lines(p) : k = e + 1
                BY <1>1, <2>1
            <4> QED
                BY <4>1, <4>2
        <3>2. TrailerEnds(s)[p] = TrailerEnds(s)[(e + 1) + 1]
            <4> HIDE DEF Lines
            <4> QED
                BY <2>2, <2>6, <3>1
        <3>3. (e + 1) + 1 = e + 2 /\ e + 2 \in Places /\ e + 2 \in S
            <4>1. e + 1 \in Lines(p)
                BY <3>1
            <4>2. (e + 1) + 1 = e + 2
                BY <2>1
            <4>3. e + 2 \in Places /\ LeftAt(s)[e + 2] < LeftAt(s)[p]
                BY <1>2, <4>1, <4>2
            <4> HIDE DEF S
            <4> QED
                BY <1>7, <4>2, <4>3
        <3>4. TrailerEnds(s)[p] = Found(e + 2)
            BY <3>2, <3>3
        <3>5. \A j \in p .. e - 1 : ~IsAt(s, j, CRLF \o CRLF)
            BY <2>1, <2>6, LineEnds
        <3>6. IsAt(s, e, CRLF \o CRLF) <=> IsAt(s, e + 2, CRLF)
            BY <2>1, <2>6, LineEnds
        <3>7. ~IsAt(s, e + 1, CRLF \o CRLF)
            <4>1. e \in Nat \ {0} /\ e + 1 \in Nat \ {0}
                BY <2>1, <2>6
            <4>2. s[e + 1] = LF
                BY <2>1, <2>6, <4>1, LineEnds
            <4>3. ~IsAt(s, e + 1, CRLF)
                BY <4>1, <4>2, LineEnds, FramingAssumption
            <4> QED
                BY <4>1, <4>3, LineEnds
        <3>8. CASE IsAt(s, e + 2, CRLF)
            <4>1. FirstAt(s, p, CRLF \o CRLF, e)
                BY <1>1, <2>1, <2>6, <3>5, <3>6, <3>8 DEF FirstAt
            <4>2. FindFrom(s, p, CRLF \o CRLF) = e
                BY <2>1, <4>1, FindsFirst
            <4>3. (e + 2) + 1 = e + 3
                BY <2>1
            <4> QED
                BY <2>6, <3>4, <3>8, <4>2, <4>3
        <3>9. CASE ~IsAt(s, e + 2, CRLF)
            <4>1. \A j \in p .. e + 1 : ~IsAt(s, j, CRLF \o CRLF)
                BY <2>1, <3>5, <3>6, <3>7, <3>9
            <4>2. \A k : FirstAt(s, e + 2, CRLF \o CRLF, k) => FirstAt(s, p, CRLF \o CRLF, k)
                BY <1>1, <2>1, <2>6, <4>1 DEF FirstAt
            <4>3. \A k : FirstAt(s, p, CRLF \o CRLF, k) => FirstAt(s, e + 2, CRLF \o CRLF, k)
                BY <1>1, <2>1, <2>6, <4>1 DEF FirstAt
            <4>4. e + 2 \in Nat \ {0}
                BY <2>1
            <4>5. FindFrom(s, p, CRLF \o CRLF) = FindFrom(s, e + 2, CRLF \o CRLF)
                <5>1. CASE FindFrom(s, p, CRLF \o CRLF) # 0
                    BY <2>1, <4>3, <4>4, <5>1, FindsFirst
                <5>2. CASE FindFrom(s, e + 2, CRLF \o CRLF) # 0
                    BY <2>1, <4>2, <4>4, <5>2, FindsFirst
                <5> QED
                    BY <5>1, <5>2
            <4> QED
                BY <2>6, <3>4, <3>9, <4>5
        <3> QED
            BY <3>8, <3>9
    <2> QED
        BY <2>4, <2>5, <2>6
<1>8. Inherits(S, LeftAt(s), Places)
    BY <1>7 DEF Inherits
<1> HIDE DEF S
<1>9. i \in S
    BY <1>8, LeftMeasures, MeasureInduction
<1> QED
    BY <1>9 DEF S

(* The chunk at i, as the turn there sees it.                              *)
TurnFrom(i) == [at |-> i, out |-> <<>>]

BodyRecord == [len : Nat, body : Seq(Element)]

(* What the bodies from place i are, by those from where its chunk ends.   *)
ChunkStep(s, f, i) ==
    LET c == TurnFrom(i)
        data == DataAt(s, c)
        n == SizeAt(s, c)
    IN  IF SizeEnd(s, c) = 0 THEN {}
        ELSE IF n = 0 THEN {[len |-> e, body |-> <<>>] : e \in TrailerEnds(s)[data]}
        ELSE IF ~IsAt(s, data + n, CRLF) THEN {}
        ELSE {[len |-> r.len, body |-> SubSeq(s, data, data + n - 1) \o r.body] :
                 r \in f[data + n + 2]}

(* The reference's recursion has a solution: the bodies that start at a    *)
(* place are those that one chunk and the bodies behind it make up.        *)
LEMMA BodiesFound ==
    ASSUME NEW s \in Bytes, NEW i \in Places
    PROVE  /\ BodiesAt(s)[i] \in SUBSET BodyRecord
           /\ BodiesAt(s)[i] = ChunkStep(s, BodiesAt(s), i)
<1> DEFINE Lines(p) == {k \in p + 1 .. Len(s) : IsLine(s, p, k)}
           After(f, p, j) ==
              LET n == Size(SubSeq(s, p, j - 2))
              IN  IF n = 0 THEN {[len |-> e, body |-> <<>>] : e \in TrailerEnds(s)[j + 1]}
                  ELSE IF ~IsAt(s, j + n + 1, CRLF) THEN {}
                  ELSE {[len |-> r.len, body |-> SubSeq(s, j + 1, j + n) \o r.body] :
                           r \in f[j + n + 3]}
           All(f, p) == UNION {After(f, p, j) : j \in Lines(p)}
           G == [f \in [Places -> SUBSET BodyRecord] |-> [p \in Places |-> ChunkStep(s, f, p)]]
<1>1. Len(s) \in Nat /\ MaxSize \in Nat
    BY LenProperties, FramingAssumption DEF Bytes
<1>2. BodiesAt(s) = CHOOSE f : f = [p \in Places |-> All(f, p)]
    BY DEF BodiesAt, Places
<1>3. ASSUME NEW f, NEW p \in Places
      PROVE  All(f, p) = ChunkStep(s, f, p)
    <2> DEFINE e == FindFrom(s, p, CRLF)
               c == TurnFrom(p)
    <2>1. /\ \A k \in Int : k \in p + 1 .. Len(s) /\ IsLine(s, p, k) <=> e # 0 /\ k = e + 1
          /\ e \in Nat /\ p \in Nat \ {0}
        BY LineFound, FindsFirst DEF Places
    <2>2. SizeEnd(s, c) = e
        BY DEF SizeEnd, TurnFrom
    <2>3. c \in Loop
        BY <2>1 DEF TurnFrom, Loop
    <2>4. CASE e = 0
        <3> HIDE DEF e, c
        <3>1. Lines(p) = {}
            BY <1>1, <2>1, <2>4
        <3>2. ChunkStep(s, f, p) = {}
            BY <2>2, <2>4 DEF ChunkStep, c
        <3> HIDE DEF Lines
        <3> QED
            BY <3>1, <3>2
    <2>5. CASE e # 0
        <3> DEFINE n == SizeAt(s, c)
        <3>1. n \in Nat
            BY <1>1, <2>2, <2>3, <2>5, SizeEnds
        <3>2. Lines(p) = {e + 1}
            <4> HIDE DEF e
            <4>1. e + 1 \in Int
                BY <2>1
            <4>2. e + 1 \in Lines(p)
                BY <2>1, <2>5, <4>1
            <4>3. \A k \in Lines(p) : k = e + 1
                BY <1>1, <2>1
            <4> QED
                BY <4>2, <4>3
        <3>3. All(f, p) = After(f, p, e + 1)
            <4> HIDE DEF Lines, e, After
            <4> QED
                BY <3>2
        <3>4. Size(SubSeq(s, p, (e + 1) - 2)) = n
            <4>1. (e + 1) - 2 = e - 1
                BY <2>1
            <4> QED
                BY <2>2, <4>1 DEF SizeAt, TurnFrom
        <3>5. DataAt(s, c) = e + 2
            BY <2>2 DEF DataAt
        <3> HIDE DEF e, n
        <3>6. /\ (e + 1) + 1 = e + 2 /\ (e + 1) + n + 1 = (e + 2) + n
              /\ (e + 1) + n = (e + 2) + n - 1 /\ (e + 1) + n + 3 = (e + 2) + n + 2
            BY <2>1, <3>1
        <3>7. After(f, p, e + 1)
              = IF n = 0 THEN {[len |-> x, body |-> <<>>] : x \in TrailerEnds(s)[e + 2]}
                ELSE IF ~IsAt(s, (e + 2) + n, CRLF) THEN {}
                ELSE {[len |-> r.len, body |-> SubSeq(s, e + 2, (e + 2) + n - 1) \o r.body] :
                         r \in f[(e + 2) + n + 2]}
            BY <3>4, <3>6, Zenon
        <3> HIDE DEF c
        <3>8. ChunkStep(s, f, p)
              = IF n = 0 THEN {[len |-> x, body |-> <<>>] : x \in TrailerEnds(s)[e + 2]}
                ELSE IF ~IsAt(s, (e + 2) + n, CRLF) THEN {}
                ELSE {[len |-> r.len, body |-> SubSeq(s, e + 2, (e + 2) + n - 1) \o r.body] :
                         r \in f[(e + 2) + n + 2]}
            BY <2>2, <2>5, <3>5, Zenon DEF ChunkStep, c, n
        <3> QED
            BY <3>3, <3>7, <3>8
    <2> QED
        BY <2>4, <2>5
<1> HIDE DEF Lines, After, All
<1>4. ASSUME NEW p \in Places, SizeEnd(s, TurnFrom(p)) # 0
      PROVE  LET data == DataAt(s, TurnFrom(p))
                 n == SizeAt(s, TurnFrom(p))
             IN  /\ data \in Places /\ n \in 0 .. MaxSize + 1 /\ TrailerEnds(s)[data] \subseteq Nat
                 /\ IsAt(s, data + n, CRLF) =>
                       /\ data + n + 2 \in Places /\ LeftAt(s)[data + n + 2] < LeftAt(s)[p]
                       /\ SubSeq(s, data, data + n - 1) \in Bytes
    <2> DEFINE c == TurnFrom(p)
               data == DataAt(s, c)
               n == SizeAt(s, c)
    <2>1. c \in Loop /\ c.at = p /\ p \in Nat \ {0}
        BY DEF TurnFrom, Loop, Places
    <2> HIDE DEF c
    <2>2. SizeEnd(s, c) \in p .. Len(s) - 1 /\ n \in 0 .. MaxSize + 1
        BY <1>4, <2>1, SizeEnds DEF c
    <2>3. data \in Nat \ {0} /\ data > p /\ p <= Len(s)
        BY <1>1, <2>1, <2>2 DEF DataAt
    <2> HIDE DEF data, n
    <2>4. TrailerEnds(s)[data] \subseteq Nat
        <3>1. FindFrom(s, data, CRLF \o CRLF) \in Nat
            BY <2>3, FindsFirst
        <3>2. TrailerEnds(s)[data] = IF IsAt(s, data, CRLF) THEN {data + 1}
                                     ELSE IF FindFrom(s, data, CRLF \o CRLF) = 0 THEN {}
                                     ELSE {FindFrom(s, data, CRLF \o CRLF) + 3}
            <4>1. data \in Places
                BY <2>3 DEF Places
            <4> QED
                BY <4>1, TrailerEndsFound
        <3>3. data + 1 \in Nat /\ FindFrom(s, data, CRLF \o CRLF) + 3 \in Nat
            BY <2>3, <3>1
        <3> QED
            BY <3>2, <3>3
    <2>5. ASSUME IsAt(s, data + n, CRLF)
          PROVE  /\ data + n + 2 \in Places /\ LeftAt(s)[data + n + 2] < LeftAt(s)[p]
                 /\ SubSeq(s, data, data + n - 1) \in Bytes
        <3>1. n \in Nat /\ data + n \in Nat \ {0}
            BY <1>1, <2>2, <2>3
        <3>2. data + n + 1 <= Len(s)
            BY <2>5, <3>1, LineEnds
        <3>3. data + n + 2 \in Places /\ p < data + n + 2
            BY <2>1, <2>3, <3>1 DEF Places
        <3>4. data + n - 1 \in Int /\ data + n - 1 <= Len(s)
            BY <1>1, <2>3, <3>1, <3>2
        <3>5. SubSeq(s, data, data + n - 1) \in Bytes
            BY <2>3, <3>4, Part
        <3> QED
            BY <2>3, <3>3, <3>5, LeftMeasures
    <2> QED
        BY <2>2, <2>3, <2>4, <2>5 DEF data, n, c, Places
<1>5. ASSUME NEW f \in [Places -> SUBSET BodyRecord], NEW p \in Places
      PROVE  ChunkStep(s, f, p) \in SUBSET BodyRecord
    <2> DEFINE c == TurnFrom(p)
               data == DataAt(s, c)
               n == SizeAt(s, c)
    <2>1. SizeEnd(s, c) # 0 =>
             /\ data \in Places /\ n \in 0 .. MaxSize + 1 /\ TrailerEnds(s)[data] \subseteq Nat
             /\ IsAt(s, data + n, CRLF) =>
                   data + n + 2 \in Places /\ SubSeq(s, data, data + n - 1) \in Bytes
        BY <1>4
    <2>2. <<>> \in Seq(Element)
        OBVIOUS
    <2>3. ASSUME SizeEnd(s, c) # 0, IsAt(s, data + n, CRLF), NEW r \in f[data + n + 2]
          PROVE  [len |-> r.len, body |-> SubSeq(s, data, data + n - 1) \o r.body] \in BodyRecord
        <3>1. r \in BodyRecord
            BY <2>1, <2>3
        <3>2. SubSeq(s, data, data + n - 1) \o r.body \in Seq(Element)
            BY <2>1, <2>3, <3>1, ConcatProperties DEF Bytes, BodyRecord
        <3> QED
            BY <3>1, <3>2 DEF BodyRecord
    <2>4. ASSUME SizeEnd(s, c) # 0, NEW e \in TrailerEnds(s)[data]
          PROVE  [len |-> e, body |-> <<>>] \in BodyRecord
        BY <2>1, <2>2, <2>4 DEF BodyRecord
    <2>5. ChunkStep(s, f, p)
          = IF SizeEnd(s, c) = 0 THEN {}
            ELSE IF n = 0 THEN {[len |-> e, body |-> <<>>] : e \in TrailerEnds(s)[data]}
            ELSE IF ~IsAt(s, data + n, CRLF) THEN {}
            ELSE {[len |-> r.len, body |-> SubSeq(s, data, data + n - 1) \o r.body] :
                     r \in f[data + n + 2]}
        BY DEF ChunkStep
    <2> HIDE DEF c, data, n
    <2>6. CASE SizeEnd(s, c) = 0
        BY <2>5, <2>6
    <2>7. CASE SizeEnd(s, c) # 0 /\ n = 0
        BY <2>4, <2>5, <2>7
    <2>8. CASE SizeEnd(s, c) # 0 /\ n # 0 /\ ~IsAt(s, data + n, CRLF)
        BY <2>5, <2>8
    <2>9. CASE SizeEnd(s, c) # 0 /\ n # 0 /\ IsAt(s, data + n, CRLF)
        <3>1. \A r \in f[data + n + 2] :
                 [len |-> r.len, body |-> SubSeq(s, data, data + n - 1) \o r.body] \in BodyRecord
            BY <2>3, <2>9
        <3>2. ChunkStep(s, f, p)
              = {[len |-> r.len, body |-> SubSeq(s, data, data + n - 1) \o r.body] :
                    r \in f[data + n + 2]}
            BY <2>5, <2>9
        <3> QED
            BY <3>1, <3>2, Zenon
    <2> QED
        BY <2>6, <2>7, <2>8, <2>9
<1>6. ASSUME NEW p \in Places,
             NEW f \in [Places -> SUBSET BodyRecord], NEW g \in [Places -> SUBSET BodyRecord],
             \A y \in Places : LeftAt(s)[y] < LeftAt(s)[p] => f[y] = g[y]
      PROVE  ChunkStep(s, f, p) = ChunkStep(s, g, p)
    <2> DEFINE c == TurnFrom(p)
               next == DataAt(s, c) + SizeAt(s, c) + 2
    <2>1. SizeEnd(s, c) # 0 /\ IsAt(s, DataAt(s, c) + SizeAt(s, c), CRLF) => f[next] = g[next]
        BY <1>4, <1>6
    <2> HIDE DEF c
    <2> QED
        BY <2>1 DEF ChunkStep, c
<1>7. /\ Lowers(G, LeftAt(s), Places, SUBSET BodyRecord)
      /\ \A f \in [Places -> SUBSET BodyRecord] : \A p \in Places : G[f][p] = ChunkStep(s, f, p)
    <2>1. \A f \in [Places -> SUBSET BodyRecord] : \A p \in Places : G[f][p] = ChunkStep(s, f, p)
        OBVIOUS
    <2>2. G \in [[Places -> SUBSET BodyRecord] -> [Places -> SUBSET BodyRecord]]
        BY <1>5
    <2> HIDE DEF G
    <2> QED
        BY <1>6, <2>1, <2>2 DEF Lowers
<1> HIDE DEF G
<1>8. PICK f \in [Places -> SUBSET BodyRecord] : Solves(f, G, Places)
    <2>1. {} \in SUBSET BodyRecord /\ Len(s) + 2 \in Nat
        BY <1>1
    <2> QED
        BY <1>7, <2>1, LeftMeasures, RecursiveFunction
<1>9. f = [p \in Places |-> All(f, p)]
    <2>1. \A p \in Places : f[p] = All(f, p)
        BY <1>3, <1>7, <1>8 DEF Solves
    <2> QED
        BY <2>1
<1>10. BodiesAt(s) = [p \in Places |-> All(BodiesAt(s), p)]
    BY <1>2, <1>9
<1>11. \A p \in Places : BodiesAt(s)[p] = ChunkStep(s, BodiesAt(s), p)
    BY <1>3, <1>10
<1> DEFINE S == {p \in Places : BodiesAt(s)[p] \in SUBSET BodyRecord}
<1>12. Inherits(S, LeftAt(s), Places)
    <2> SUFFICES ASSUME NEW p \in Places,
                        \A y \in Places : LeftAt(s)[y] < LeftAt(s)[p] => y \in S
                 PROVE  BodiesAt(s)[p] \in SUBSET BodyRecord
        BY DEF Inherits
    <2> DEFINE g == [y \in Places |-> IF LeftAt(s)[y] < LeftAt(s)[p] THEN BodiesAt(s)[y] ELSE {}]
               c == TurnFrom(p)
               next == DataAt(s, c) + SizeAt(s, c) + 2
    <2>1. g \in [Places -> SUBSET BodyRecord]
        OBVIOUS
    <2>2. SizeEnd(s, c) # 0 /\ IsAt(s, DataAt(s, c) + SizeAt(s, c), CRLF)
             => g[next] = BodiesAt(s)[next]
        BY <1>4
    <2> HIDE DEF c, g
    <2>3. ChunkStep(s, g, p) = ChunkStep(s, BodiesAt(s), p)
        BY <2>2 DEF ChunkStep, c
    <2> QED
        BY <1>5, <1>11, <2>1, <2>3
<1> HIDE DEF S
<1>13. i \in S
    BY <1>12, LeftMeasures, MeasureInduction
<1> QED
    BY <1>11, <1>13 DEF S

(* What the loop says at c is what the bodies from there are: with those   *)
(* of its turns that are behind it.                                        *)
Agrees(s, c) ==
    LET d == Decoding(s)[c]
        bodies == BodiesAt(s)[c.at]
    IN  /\ d.verdict \in {"need_more", "bad"} => bodies = {}
        /\ d.verdict = "too_large" => \A r \in bodies : Len(c.out) + Len(r.body) > MaxBody
        /\ d.verdict = "ok" => /\ Len(d.body) <= MaxBody
                               /\ \E r \in bodies : r.len = d.len /\ c.out \o r.body = d.body

(* The loop is within the limit, and out is shorter than what was read.    *)
Within(c) == Len(c.out) <= MaxBody /\ Len(c.out) < c.at

(* What a turn of the chunk loop finds decides which bodies the reference  *)
(* sees from there on.                                                     *)
LEMMA BodiesFollow ==
    ASSUME NEW s \in Bytes, NEW c \in Loop
    PROVE  /\ BodiesAt(s)[c.at] \in SUBSET BodyRecord
           /\ SizeEnd(s, c) = 0 => BodiesAt(s)[c.at] = {}
           /\ SizeEnd(s, c) # 0 /\ SizeAt(s, c) = 0 =>
                 BodiesAt(s)[c.at] = {[len |-> e, body |-> <<>>] : e \in TrailerEnds(s)[DataAt(s, c)]}
           /\ SizeEnd(s, c) # 0 /\ SizeAt(s, c) # 0 /\ ~IsAt(s, DataAt(s, c) + SizeAt(s, c), CRLF)
                 => BodiesAt(s)[c.at] = {}
           /\ SizeEnd(s, c) # 0 /\ SizeAt(s, c) # 0 /\ IsAt(s, DataAt(s, c) + SizeAt(s, c), CRLF)
                 => BodiesAt(s)[c.at] =
                       {[len |-> r.len,
                         body |-> SubSeq(s, DataAt(s, c), DataAt(s, c) + SizeAt(s, c) - 1) \o r.body] :
                           r \in BodiesAt(s)[DataAt(s, c) + SizeAt(s, c) + 2]}
<1> DEFINE t == TurnFrom(c.at)
<1>1. c.at \in Places
    BY DEF Loop, Places
<1>2. SizeEnd(s, c) = SizeEnd(s, t)
    BY DEF SizeEnd, TurnFrom
<1>3. SizeAt(s, c) = SizeAt(s, t) /\ DataAt(s, c) = DataAt(s, t)
    BY <1>2 DEF SizeAt, DataAt, TurnFrom
<1>4. BodiesAt(s)[c.at] \in SUBSET BodyRecord /\ BodiesAt(s)[c.at] = ChunkStep(s, BodiesAt(s), c.at)
    BY <1>1, BodiesFound
<1> HIDE DEF t
<1>5. BodiesAt(s)[c.at]
      = IF SizeEnd(s, c) = 0 THEN {}
        ELSE IF SizeAt(s, c) = 0
        THEN {[len |-> e, body |-> <<>>] : e \in TrailerEnds(s)[DataAt(s, c)]}
        ELSE IF ~IsAt(s, DataAt(s, c) + SizeAt(s, c), CRLF) THEN {}
        ELSE {[len |-> r.len,
               body |-> SubSeq(s, DataAt(s, c), DataAt(s, c) + SizeAt(s, c) - 1) \o r.body] :
                 r \in BodiesAt(s)[DataAt(s, c) + SizeAt(s, c) + 2]}
    BY <1>2, <1>3, <1>4, Zenon DEF ChunkStep, t
<1> QED
    BY <1>4, <1>5

(* A turn that is the last.                                                *)
LEMMA OutcomeAgrees ==
    ASSUME NEW s \in Bytes, Len(s) + 2 <= MaxSize, NEW c \in Loop, Within(c), ~Goes(s, c)
    PROVE  Agrees(s, c)
<1>1. /\ Len(s) \in Nat /\ MaxSize \in Nat /\ MaxBody \in Nat /\ MaxBody <= MaxSize
      /\ c.at \in Nat \ {0} /\ c.out \in Bytes /\ Len(c.out) \in Nat
    BY LenProperties, FramingAssumption DEF Bytes, Loop
<1>2. Decoding(s)[c] = Outcome(s, c)
    BY DecodingTurns
<1>3. CASE SizeEnd(s, c) = 0
    <2>1. Decoding(s)[c].verdict = "need_more" /\ BodiesAt(s)[c.at] = {}
        BY <1>2, <1>3, BodiesFollow DEF Outcome, Decided
    <2> QED
        BY <2>1 DEF Agrees
<1>4. CASE SizeEnd(s, c) # 0
    <2> DEFINE data == DataAt(s, c)
               n == SizeAt(s, c)
    <2>1. n \in 0 .. MaxSize + 1 /\ data \in Nat \ {0} /\ data > c.at /\ data <= Len(s) + 1
        BY <1>1, <1>4, SizeEnds, SMTT(30) DEF DataAt
    <2>2. data + n \in Nat \ {0} /\ (IsAt(s, data + n, CRLF) => data + n + 1 <= Len(s))
        <3> HIDE DEF data, n
        <3>1. data + n \in Nat \ {0}
            BY <1>1, <2>1
        <3> QED
            BY <3>1, LineEnds
    <2>3. CASE n > MaxSize
        <3>1. n # 0 /\ ~IsAt(s, data + n, CRLF)
            BY <1>1, <2>1, <2>2, <2>3
        <3>2. BodiesAt(s)[c.at] = {} /\ Decoding(s)[c].verdict = "bad"
            BY <1>2, <1>4, <2>3, <3>1, BodiesFollow DEF Outcome, Decided
        <3> QED
            BY <3>2 DEF Agrees
    <2>4. CASE n = 0
        <3>1. BodiesAt(s)[c.at] = {[len |-> e, body |-> <<>>] : e \in TrailerEnds(s)[data]}
            BY <1>4, <2>4, BodiesFollow
        <3>2. Decoding(s)[c] = Trailer(s, data, c.out)
            BY <1>1, <1>2, <1>4, <2>4 DEF Outcome
        <3> HIDE DEF data
        <3>3. TrailerEnds(s)[data] = IF IsAt(s, data, CRLF) THEN {data + 1}
                                     ELSE IF FindFrom(s, data, CRLF \o CRLF) = 0 THEN {}
                                     ELSE {FindFrom(s, data, CRLF \o CRLF) + 3}
            <4>1. data \in Places
                BY <2>1 DEF Places
            <4> QED
                BY <4>1, TrailerEndsFound
        <3>4. FindFrom(s, data, CRLF \o CRLF) \in Nat
            BY <2>1, FindsFirst
        <3>5. c.out \o <<>> = c.out
            BY <1>1, ConcatEmptySeq DEF Bytes
        <3> DEFINE pair == FindFrom(s, data, CRLF \o CRLF)
                   end == IF IsAt(s, data, CRLF) THEN data + 1 ELSE pair + 3
        <3>6. CASE ~IsAt(s, data, CRLF) /\ pair = 0
            <4>1. TrailerEnds(s)[data] = {} /\ Decoding(s)[c].verdict = "need_more"
                BY <3>2, <3>3, <3>6 DEF Trailer, Decided
            <4>2. BodiesAt(s)[c.at] = {}
                BY <3>1, <4>1
            <4> QED
                BY <4>1, <4>2 DEF Agrees
        <3>7. CASE IsAt(s, data, CRLF) \/ pair # 0
            <4>1. TrailerEnds(s)[data] = {end}
                BY <3>3, <3>7
            <4>2. Decoding(s)[c] = Complete(end, c.out)
                <5>1. CASE IsAt(s, data, CRLF)
                    BY <2>1, <3>2, <5>1 DEF Trailer
                <5>2. CASE ~IsAt(s, data, CRLF)
                    <6>1. pair # 0 /\ pair \in Nat
                        BY <3>4, <3>7, <5>2
                    <6>2. Decoding(s)[c] = IF pair + 2 = 0 THEN Decided("need_more")
                                           ELSE Complete((pair + 2) + 1, c.out)
                        BY <3>2, <5>2, <6>1 DEF Trailer
                    <6> HIDE DEF pair
                    <6>3. pair + 2 # 0 /\ (pair + 2) + 1 = pair + 3
                        BY <6>1
                    <6> QED
                        BY <5>2, <6>2, <6>3
                <5> QED
                    BY <5>1, <5>2
            <4> HIDE DEF pair, end
            <4>3. [len |-> end, body |-> <<>>] \in BodiesAt(s)[c.at]
                BY <3>1, <4>1
            <4>4. Decoding(s)[c].verdict = "ok" /\ Decoding(s)[c].len = end /\ Decoding(s)[c].body = c.out
                BY <4>2 DEF Complete
            <4>5. \E r \in BodiesAt(s)[c.at] : r.len = end /\ c.out \o r.body = c.out
                BY <3>5, <4>3
            <4> QED
                BY <4>4, <4>5 DEF Agrees, Within
        <3> QED
            BY <3>6, <3>7
    <2>5. CASE n \in 1 .. MaxSize
        <3> DEFINE sum == data - 1 + n + 2
                   v == VerdictAt(s, c)
        <3>1. n # 0 /\ n \in Nat /\ sum \in Nat /\ Len(c.out) + n \in Nat
            <4> HIDE DEF data, n
            <4>1. n # 0 /\ n \in Nat
                BY <1>1, <2>5
            <4> QED
                BY <1>1, <2>1, <4>1
        <3>2. Decoding(s)[c] = Decided(v) /\ v # "ok"
            BY <1>1, <1>2, <1>4, <2>5 DEF Outcome, Goes
        <3>3. v = IF OverflowChecks /\ sum > MaxSize THEN "panic"
                  ELSE IF Len(s) < Wrap(sum) THEN "need_more"
                  ELSE IF Wrap(Len(c.out) + n) > MaxBody THEN "too_large"
                  ELSE IF data - 1 + n > Len(s) THEN "panic"
                  ELSE IF IsAt(s, data + n, CRLF) THEN "ok" ELSE "bad"
            BY DEF VerdictAt, ChunkVerdict
        <3>4. ~IsAt(s, data + n, CRLF) => BodiesAt(s)[c.at] = {}
            BY <1>4, <3>1, BodiesFollow
        <3>5. ASSUME IsAt(s, data + n, CRLF)
              PROVE  /\ sum <= MaxSize /\ Wrap(sum) = sum /\ ~(Len(s) < sum)
                     /\ Wrap(Len(c.out) + n) = Len(c.out) + n
            <4> HIDE DEF data, n
            <4>1. sum <= MaxSize /\ ~(Len(s) < sum) /\ Len(c.out) + n <= MaxSize
                BY <1>1, <2>1, <2>2, <3>1, <3>5 DEF Within
            <4> HIDE DEF sum
            <4> QED
                BY <3>1, <4>1, WrapTyped
        <3>6. CASE ~IsAt(s, data + n, CRLF)
            <4>1. Decoding(s)[c].verdict # "ok" /\ BodiesAt(s)[c.at] = {}
                BY <3>2, <3>4, <3>6 DEF Decided
            <4> QED
                BY <4>1 DEF Agrees
        <3>7. CASE IsAt(s, data + n, CRLF)
            <4>1. v = "too_large" /\ Len(c.out) + n > MaxBody
                <5> HIDE DEF sum, v
                <5>1. ~(Len(s) < Wrap(sum)) /\ ~(sum > MaxSize)
                    BY <1>1, <3>1, <3>5, <3>7
                <5>2. ~(data - 1 + n > Len(s))
                    BY <1>1, <2>1, <2>2, <3>1, <3>7
                <5>3. v = IF Wrap(Len(c.out) + n) > MaxBody THEN "too_large" ELSE "ok"
                    BY <3>3, <3>7, <5>1, <5>2
                <5>4. v = "too_large" /\ Wrap(Len(c.out) + n) > MaxBody
                    BY <3>2, <5>3
                <5> QED
                    BY <3>5, <3>7, <5>4
            <4> DEFINE part == SubSeq(s, data, data + n - 1)
            <4>2. part \in Bytes /\ Len(part) = n
                <5> HIDE DEF data, n
                <5>1. data + n - 1 \in Int /\ data + n - 1 <= Len(s) /\ data <= data + n - 1
                    BY <1>1, <2>1, <2>2, <3>1, <3>7
                <5>2. part \in Bytes /\ Len(part) = data + n - 1 - data + 1
                    BY <2>1, <5>1, Part
                <5> QED
                    BY <2>1, <3>1, <5>2
            <4>3. BodiesAt(s)[c.at] = {[len |-> r.len, body |-> part \o r.body] :
                                          r \in BodiesAt(s)[data + n + 2]}
                BY <1>4, <3>1, <3>7, BodiesFollow
            <4>4. BodiesAt(s)[data + n + 2] \in SUBSET BodyRecord
                <5>1. data + n + 2 \in Places
                    BY <2>1, <3>1 DEF Places
                <5> QED
                    BY <5>1, BodiesFound
            <4> HIDE DEF data, n, part
            <4>5. ASSUME NEW r \in BodiesAt(s)[c.at] PROVE Len(c.out) + Len(r.body) > MaxBody
                <5>1. PICK q \in BodiesAt(s)[data + n + 2] : r = [len |-> q.len, body |-> part \o q.body]
                    BY <4>3
                <5>2. q \in BodyRecord /\ r.body = part \o q.body
                    BY <4>4, <5>1
                <5>3. q.body \in Seq(Element) /\ Len(q.body) \in Nat
                    BY <5>2, LenProperties DEF BodyRecord
                <5>4. Len(r.body) = n + Len(q.body)
                    BY <4>2, <5>2, <5>3, ConcatProperties DEF Bytes
                <5>5. Len(r.body) >= n
                    BY <3>1, <5>3, <5>4
                <5>6. Len(r.body) \in Nat
                    BY <3>1, <5>3, <5>4
                <5>7. PICK x \in Nat, y \in Nat : x = Len(c.out) /\ y = Len(r.body)
                    BY <1>1, <5>6
                <5>8. x + n > MaxBody /\ y >= n /\ n \in Nat /\ MaxBody \in Nat
                    BY <1>1, <3>1, <4>1, <5>5, <5>7
                <5>9. x + y > MaxBody
                    BY <5>8
                <5> QED
                    BY <5>7, <5>9
            <4>6. Decoding(s)[c].verdict = "too_large"
                BY <3>2, <4>1 DEF Decided
            <4> QED
                BY <4>5, <4>6 DEF Agrees
        <3> QED
            BY <3>6, <3>7
    <2> QED
        BY <1>1, <2>1, <2>3, <2>4, <2>5
<1> QED
    BY <1>3, <1>4

(* Hence the loop, from any turn within the limit.                         *)
LEMMA DecodingAgrees ==
    ASSUME NEW s \in Bytes, Len(s) + 2 <= MaxSize, NEW c \in Loop, Within(c)
    PROVE  Agrees(s, c)
<1>1. Len(s) \in Nat /\ MaxSize \in Nat /\ MaxBody \in Nat /\ MaxBody <= MaxSize
    BY LenProperties, FramingAssumption DEF Bytes
<1> DEFINE S == {d \in Loop : Within(d) => Agrees(s, d)}
<1>2. ASSUME NEW d \in Loop, Within(d), Goes(s, d), NextTurn(s, d) \in S PROVE Agrees(s, d)
    <2> DEFINE data == DataAt(s, d)
               n == SizeAt(s, d)
               part == SubSeq(s, data, data + n - 1)
               next == NextTurn(s, d)
    <2>1. d.at \in Nat \ {0} /\ d.out \in Bytes /\ Len(d.out) \in Nat
        BY LenProperties DEF Loop, Bytes
    <2>2. /\ next \in Loop /\ next.at = data + n + 2 /\ next.out = d.out \o part
          /\ n \in 1 .. MaxSize /\ SizeEnd(s, d) # 0 /\ IsAt(s, data + n, CRLF)
        <3>1. next.at = data + n + 2 /\ next.out = d.out \o part
            BY DEF NextTurn
        <3> QED
            BY <1>2, <3>1, TurnTyped
    <2>3. data \in Nat \ {0} /\ data > d.at
        <3>1. SizeEnd(s, d) \in d.at .. Len(s) - 1
            BY <2>2, SizeEnds
        <3> QED
            BY <1>1, <2>1, <3>1 DEF DataAt
    <2>4. ~(Wrap(Len(d.out) + n) > MaxBody)
        BY <1>2 DEF Goes, VerdictAt, ChunkVerdict
    <2>5. n \in Nat /\ n # 0 /\ data + n \in Nat \ {0}
        <3> HIDE DEF data, n
        <3>1. n \in Nat /\ n # 0
            BY <1>1, <2>2
        <3> QED
            BY <2>3, <3>1
    <2>6. data + n + 1 <= Len(s)
        BY <2>2, <2>5, LineEnds
    <2> HIDE DEF data, n
    <2>7. part \in Bytes /\ Len(part) = n
        <3>1. data + n - 1 \in Int /\ data + n - 1 <= Len(s) /\ data <= data + n - 1
            BY <1>1, <2>3, <2>5, <2>6
        <3>2. PICK b \in Int : b = data + n - 1
            BY <3>1
        <3>3. SubSeq(s, data, b) \in Bytes /\ Len(SubSeq(s, data, b)) = b - data + 1
            BY <2>3, <3>1, <3>2, Part
        <3> QED
            BY <2>3, <2>5, <3>2, <3>3
    <2>8. Len(d.out) + n <= MaxBody
        <3>1. Len(d.out) + n \in Nat /\ Len(d.out) + n <= MaxSize
            BY <1>1, <1>2, <2>1, <2>3, <2>5, <2>6 DEF Within
        <3>2. Wrap(Len(d.out) + n) = Len(d.out) + n
            BY <3>1, WrapTyped
        <3> QED
            BY <1>1, <2>4, <3>1, <3>2
    <2>9. Len(d.out \o part) = Len(d.out) + n
        BY <2>1, <2>7, ConcatProperties DEF Bytes
    <2>10. Within(next)
        <3>1. Len(next.out) = Len(d.out) + n
            BY <2>2, <2>9
        <3> HIDE DEF next
        <3>2. Len(d.out) + n < data + n + 2
            BY <1>2, <2>1, <2>3, <2>5 DEF Within
        <3> QED
            BY <2>2, <2>8, <3>1, <3>2 DEF Within
    <2>11. Agrees(s, next)
        BY <1>2, <2>10
    <2>12. Decoding(s)[d] = Decoding(s)[next]
        BY <1>2, DecodingTurns
    <2>13. BodiesAt(s)[d.at] = {[len |-> r.len, body |-> part \o r.body] :
                                   r \in BodiesAt(s)[next.at]}
        BY <2>2, <2>5, BodiesFollow DEF data, n
    <2>14. BodiesAt(s)[next.at] \in SUBSET BodyRecord
        BY <2>2, BodiesFollow
    <2> HIDE DEF next, part
    <2> DEFINE v == Decoding(s)[d]
    <2>15. /\ v.verdict \in {"need_more", "bad"} => BodiesAt(s)[next.at] = {}
           /\ v.verdict = "too_large" =>
                 \A r \in BodiesAt(s)[next.at] : Len(next.out) + Len(r.body) > MaxBody
           /\ v.verdict = "ok" =>
                 /\ Len(v.body) <= MaxBody
                 /\ \E r \in BodiesAt(s)[next.at] : r.len = v.len /\ next.out \o r.body = v.body
        BY <2>11, <2>12 DEF Agrees
    <2> HIDE DEF v
    <2>16. ASSUME v.verdict \in {"need_more", "bad"} PROVE BodiesAt(s)[d.at] = {}
        BY <2>13, <2>15, <2>16
    <2>17. ASSUME v.verdict = "too_large", NEW r \in BodiesAt(s)[d.at]
           PROVE  Len(d.out) + Len(r.body) > MaxBody
        <3>1. PICK q \in BodiesAt(s)[next.at] : r = [len |-> q.len, body |-> part \o q.body]
            BY <2>13
        <3>2. q \in BodyRecord /\ r.body = part \o q.body
            BY <2>14, <3>1
        <3>3. q.body \in Seq(Element) /\ Len(q.body) \in Nat
            BY <3>2, LenProperties DEF BodyRecord
        <3>4. Len(r.body) = n + Len(q.body)
            BY <2>7, <3>2, <3>3, ConcatProperties DEF Bytes
        <3>5. Len(d.out) + n + Len(q.body) > MaxBody
            BY <2>2, <2>9, <2>15, <2>17
        <3>6. PICK x \in Nat, y \in Nat : x = Len(d.out) /\ y = Len(q.body)
            BY <2>1, <3>3
        <3>7. x + (n + y) > MaxBody
            <4>1. x + n + y > MaxBody
                BY <3>5, <3>6
            <4> QED
                BY <1>1, <2>5, <4>1
        <3> QED
            BY <3>4, <3>6, <3>7
    <2>18. ASSUME v.verdict = "ok"
           PROVE  \E r \in BodiesAt(s)[d.at] : r.len = v.len /\ d.out \o r.body = v.body
        <3>1. PICK q \in BodiesAt(s)[next.at] : q.len = v.len /\ next.out \o q.body = v.body
            BY <2>15, <2>18
        <3>2. q.body \in Seq(Element)
            BY <2>14, <3>1 DEF BodyRecord
        <3>3. d.out \o (part \o q.body) = (d.out \o part) \o q.body
            <4>1. d.out \in Seq(Element) /\ part \in Seq(Element)
                BY <2>1, <2>7 DEF Bytes
            <4>2. PICK a \in Seq(Element), b \in Seq(Element), u \in Seq(Element) :
                     a = d.out /\ b = part /\ u = q.body
                BY <3>2, <4>1
            <4>3. (a \o b) \o u = a \o (b \o u)
                BY ConcatAssociative
            <4> QED
                BY <4>2, <4>3
        <3> DEFINE r == [len |-> q.len, body |-> part \o q.body]
        <3>4. r \in BodiesAt(s)[d.at]
            BY <2>13
        <3>5. r.len = v.len /\ d.out \o r.body = v.body
            BY <2>2, <3>1, <3>3
        <3> HIDE DEF r
        <3> QED
            BY <3>4, <3>5
    <2> QED
        BY <2>15, <2>16, <2>17, <2>18 DEF Agrees, v
<1>3. Handed(s, S)
    <2> SUFFICES ASSUME NEW d \in Loop, Goes(s, d) => NextTurn(s, d) \in S, Within(d)
                 PROVE  Agrees(s, d)
        BY DEF Handed
    <2> HIDE DEF S
    <2>1. CASE Goes(s, d)
        BY <1>2, <2>1
    <2>2. CASE ~Goes(s, d)
        BY <2>2, OutcomeAgrees
    <2> QED
        BY <2>1, <2>2
<1> HIDE DEF S
<1>4. \A d \in Loop : d \in S
    BY <1>3, TurnInduction
<1> QED
    BY <1>4 DEF S

(* The bodies of either kind at the front of a buffer.                     *)
BodiesOf(rest, mode) ==
    IF mode.mode = "chunked" THEN ChunkedBodies(rest)
    ELSE IF mode.mode = "bad" \/ Len(rest) < mode.n THEN {}
    ELSE {[len |-> mode.n, body |-> SubSeq(rest, 1, mode.n)]}

(* decode_body refuses only what the reference does not know, and finds one*)
(* of the reference's bodies.                                              *)
LEMMA BodyAgrees ==
    ASSUME NEW s \in Bytes, Len(s) + 2 <= MaxSize, NEW mode \in Modes, mode.mode # "bad"
    PROVE  LET d == DecodeBody(s, mode)
           IN  /\ d.verdict \in {"need_more", "bad"} => BodiesOf(s, mode) = {}
               /\ d.verdict = "too_large" => \A r \in BodiesOf(s, mode) : Len(r.body) > MaxBody
               /\ d.verdict = "ok" => /\ Len(d.body) <= MaxBody
                                      /\ [len |-> d.len, body |-> d.body] \in BodiesOf(s, mode)
<1>1. Len(s) \in Nat /\ MaxSize \in Nat /\ MaxBody \in Nat
    BY LenProperties, FramingAssumption DEF Bytes
<1>2. CASE mode.mode = "chunked"
    <2> DEFINE c == [at |-> 1, out |-> <<>>]
               d == DecodeBody(s, mode)
    <2>1. c \in Loop /\ Within(c) /\ c.at = 1 /\ c.out = <<>> /\ Len(c.out) = 0 /\ 1 \in Places
        BY <1>1 DEF Loop, Within, Places
    <2>2. d = Decoding(s)[c] /\ BodiesOf(s, mode) = BodiesAt(s)[1]
        BY <1>2 DEF DecodeBody, DecodeChunked, BodiesOf, ChunkedBodies
    <2> HIDE DEF c, d
    <2>3. Agrees(s, c)
        BY <2>1, DecodingAgrees
    <2>4. BodiesAt(s)[1] \in SUBSET BodyRecord
        BY <2>1, BodiesFound
    <2>5. \A r \in BodiesAt(s)[1] : /\ Len(c.out) + Len(r.body) = Len(r.body)
                                    /\ c.out \o r.body = r.body
                                    /\ r = [len |-> r.len, body |-> r.body]
        <3> SUFFICES ASSUME NEW r \in BodiesAt(s)[1]
                     PROVE  /\ Len(c.out) + Len(r.body) = Len(r.body)
                            /\ c.out \o r.body = r.body
                            /\ r = [len |-> r.len, body |-> r.body]
            OBVIOUS
        <3>1. r \in BodyRecord
            BY <2>4
        <3>2. r.body \in Seq(Element) /\ Len(r.body) \in Nat /\ r = [len |-> r.len, body |-> r.body]
            BY <3>1, LenProperties DEF BodyRecord
        <3>3. c.out \o r.body = r.body
            BY <2>1, <3>2, ConcatEmptySeq
        <3> QED
            BY <2>1, <3>2, <3>3
    <2>6. /\ d.verdict \in {"need_more", "bad"} => BodiesAt(s)[1] = {}
          /\ d.verdict = "too_large" =>
                \A r \in BodiesAt(s)[1] : Len(c.out) + Len(r.body) > MaxBody
          /\ d.verdict = "ok" =>
                /\ Len(d.body) <= MaxBody
                /\ \E r \in BodiesAt(s)[1] : r.len = d.len /\ c.out \o r.body = d.body
        BY <2>1, <2>2, <2>3 DEF Agrees
    <2>7. d.verdict = "too_large" => \A r \in BodiesAt(s)[1] : Len(r.body) > MaxBody
        BY <2>5, <2>6
    <2>8. d.verdict = "ok" => [len |-> d.len, body |-> d.body] \in BodiesAt(s)[1]
        BY <2>5, <2>6
    <2> QED
        BY <2>2, <2>6, <2>7, <2>8 DEF d
<1>3. CASE mode.mode # "chunked"
    <2>1. mode.mode = "length" /\ mode.n \in 0 .. MaxSize
        BY <1>3 DEF Modes
    <2>2. mode.n \in Nat
        BY <1>1, <2>1
    <2>3. mode.n <= Len(s) => Len(SubSeq(s, 1, mode.n)) = mode.n
        BY <2>2, Part
    <2>4. BodiesOf(s, mode) = IF Len(s) < mode.n THEN {}
                              ELSE {[len |-> mode.n, body |-> SubSeq(s, 1, mode.n)]}
        BY <2>1 DEF BodiesOf
    <2>5. DecodeBody(s, mode) = IF mode.n > MaxBody THEN Decided("too_large")
                                ELSE IF Len(s) < mode.n THEN Decided("need_more")
                                ELSE Complete(mode.n, SubSeq(s, 1, mode.n))
        BY <1>3 DEF DecodeBody
    <2> QED
        BY <1>1, <2>2, <2>3, <2>4, <2>5 DEF Decided, Complete
<1> QED
    BY <1>2, <1>3

(* What is decided of a buffer is what its requests are.                   *)
LEMMA DecideAgrees ==
    ASSUME NEW s \in Bytes, Len(s) + 2 <= MaxSize
    PROVE  LET d == Decide(s)
           IN  /\ d.verdict \in {"need_more", "bad"} => Requests(s) = {}
               /\ d.verdict = "too_large" => \A r \in Requests(s) : Len(r.body) > MaxBody
               /\ d.verdict = "ok" => /\ Len(d.body) <= MaxBody
                                      /\ [len |-> d.len, body |-> d.body] \in Requests(s)
<1>1. Len(s) \in Nat /\ MaxSize \in Nat
    BY LenProperties, FramingAssumption DEF Bytes
<1> DEFINE n == ParseHead(s).len
           e == DecodeBody(Rest(s), ModeOf(s))
           bodies == BodiesOf(Rest(s), ModeOf(s))
<1>2. Requests(s) = IF ParseHead(s).verdict # "ok" THEN {}
                    ELSE {[len |-> n + b.len, body |-> b.body] : b \in bodies}
    BY DEF Requests, Rest, ModeOf, BodiesOf
<1>3. CASE ParseHead(s).verdict # "ok"
    <2>1. Decide(s).verdict = ParseHead(s).verdict /\ ParseHead(s).verdict \in {"need_more", "bad"}
        BY <1>3, DecideParts, HeadTyped DEF Decided
    <2> QED
        BY <1>2, <1>3, <2>1
<1>4. CASE ParseHead(s).verdict = "ok" /\ ModeOf(s).mode = "bad"
    <2>1. Decide(s).verdict = "bad" /\ bodies = {}
        BY <1>4, DecideParts DEF Decided, BodiesOf
    <2> HIDE DEF bodies
    <2> QED
        BY <1>2, <2>1
<1>5. CASE ParseHead(s).verdict = "ok" /\ ModeOf(s).mode # "bad"
    <2>1. /\ n \in 4 .. Len(s) /\ Rest(s) \in Bytes /\ Len(Rest(s)) = Len(s) - n
          /\ ModeOf(s) \in Modes
          /\ Decide(s) = IF e.verdict # "ok" THEN e ELSE Complete(n + e.len, e.body)
        BY <1>5, DecideParts
    <2>2. Len(Rest(s)) + 2 <= MaxSize
        BY <1>1, <2>1
    <2>3. /\ e.verdict \in {"need_more", "bad"} => bodies = {}
          /\ e.verdict = "too_large" => \A r \in bodies : Len(r.body) > MaxBody
          /\ e.verdict = "ok" => /\ Len(e.body) <= MaxBody
                                 /\ [len |-> e.len, body |-> e.body] \in bodies
        BY <1>5, <2>1, <2>2, BodyAgrees
    <2> HIDE DEF n, e, bodies
    <2>4. CASE e.verdict = "ok"
        <3>1. /\ Decide(s).verdict = "ok" /\ Decide(s).len = n + e.len /\ Decide(s).body = e.body
            BY <2>1, <2>4 DEF Complete
        <3>2. [len |-> n + e.len, body |-> e.body] \in Requests(s)
            BY <1>2, <1>5, <2>3, <2>4
        <3> QED
            BY <2>3, <2>4, <3>1, <3>2
    <2>5. CASE e.verdict # "ok"
        <3>1. Decide(s) = e
            BY <2>1, <2>5
        <3>2. e.verdict \in {"need_more", "bad"} => Requests(s) = {}
            BY <1>2, <2>3
        <3>3. e.verdict = "too_large" => \A r \in Requests(s) : Len(r.body) > MaxBody
            BY <1>2, <2>3
        <3> QED
            BY <2>5, <3>1, <3>2, <3>3
    <2> QED
        BY <2>4, <2>5
<1> QED
    BY <1>3, <1>4, <1>5

(* A request that is wholly buffered is decided.                           *)
THEOREM NoRequestWithheld == Spec => []NothingWithheld
<1>1. FInv => NothingWithheld
    <2> SUFFICES ASSUME FInv, decision.verdict = "need_more" PROVE Requests(Inbuf) = {}
        BY DEF NothingWithheld
    <2>1. /\ stream \in Streams /\ lo \in Nat /\ hi \in Nat /\ lo <= hi /\ hi <= Len(stream)
          /\ decision = Decide(Inbuf)
        BY DEF FInv, Current
    <2>2. Inbuf \in Bytes /\ Len(Inbuf) = hi - lo /\ Len(stream) + 2 <= MaxSize /\ Len(stream) \in Nat
        BY <2>1, StreamTyped DEF Inbuf
    <2>3. Len(Inbuf) + 2 <= MaxSize
        BY <2>1, <2>2, FramingAssumption
    <2> QED
        BY <2>1, <2>2, <2>3, DecideAgrees
<1> QED
    BY <1>1, FramingInvariant, PTL

(* A request that is refused is beyond a limit.                            *)
THEOREM RefusalsForCause == Spec => []RefusedForCause
<1>1. FInv => RefusedForCause
    <2> SUFFICES ASSUME FInv, decision.verdict \in {"bad", "too_large"},
                        NEW r \in Requests(FromHere(lo))
                 PROVE  \/ Len(r.body) > MaxBody
                        \/ FindFrom(FromHere(lo), 1, CRLF \o CRLF) > MaxHead - 3
        BY DEF RefusedForCause
    <2>1. /\ stream \in Streams /\ lo \in Nat /\ hi \in Nat /\ lo <= hi /\ hi <= Len(stream)
          /\ decision = Decide(SubSeq(stream, lo + 1, hi))
        BY DEF FInv, Current, Inbuf
    <2>2. \/ Decide(FromHere(lo)) = decision
          \/ HeadEnd(FromHere(lo)) > MaxHead - 3
        BY <2>1, DecidedOfStream DEF FromHere
    <2>3. FromHere(lo) \in Bytes /\ Len(FromHere(lo)) + 2 <= MaxSize
        <3>1. Len(stream) \in Nat /\ Len(stream) + 2 <= MaxSize /\ lo <= Len(stream)
            BY <2>1, StreamTyped
        <3>2. FromHere(lo) \in Bytes /\ Len(FromHere(lo)) = Len(stream) - lo
            BY <2>1, <3>1, StreamTyped DEF FromHere
        <3> QED
            BY <2>1, <3>1, <3>2, FramingAssumption
    <2>4. CASE Decide(FromHere(lo)) = decision
        BY <2>3, <2>4, DecideAgrees
    <2>5. CASE HeadEnd(FromHere(lo)) > MaxHead - 3
        BY <2>5 DEF HeadEnd
    <2> QED
        BY <2>2, <2>4, <2>5
<1> QED
    BY <1>1, FramingInvariant, PTL

(* Every request handled is one of the stream, where the one before ended. *)
THEOREM RequestsAreExact == Spec => []RequestsExact
<1>1. FInv => RequestsExact
    <2> SUFFICES ASSUME FInv, NEW i \in DOMAIN framed
                 PROVE  LET f == framed[i]
                        IN  /\ [len |-> f.len, body |-> f.body] \in Requests(FromHere(f.at))
                            /\ Len(f.body) <= MaxBody
                            /\ f.at = IF i = 1 THEN 0 ELSE framed[i - 1].at + framed[i - 1].len
        BY DEF RequestsExact
    <2> DEFINE f == framed[i]
               rest == FromHere(f.at)
    <2>1. /\ stream \in Streams /\ f \in Handled
          /\ f.at = IF i = 1 THEN 0 ELSE framed[i - 1].at + framed[i - 1].len
          /\ Decide(rest) = Complete(f.len, f.body)
        BY DEF FInv, Current, Consecutive
    <2>2. f.at \in Nat
        BY <2>1 DEF Handled
    <2>3. rest \in Bytes /\ Len(rest) + 2 <= MaxSize
        <3> DEFINE at == f.at
                   j == at + 1
        <3>1. stream \in Bytes /\ Len(stream) \in Nat /\ Len(stream) + 2 <= MaxSize
            BY <2>1, StreamTyped
        <3>2. j \in Nat \ {0}
            BY <2>2
        <3>3. rest = SubSeq(stream, j, Len(stream))
            BY DEF FromHere
        <3> HIDE DEF j, rest
        <3>4. rest \in Bytes /\ Len(rest) = IF j <= Len(stream) THEN Len(stream) - j + 1 ELSE 0
            BY <3>1, <3>2, <3>3, Part
        <3> QED
            BY <3>1, <3>2, <3>4, FramingAssumption
    <2> HIDE DEF rest, f
    <2>4. Decide(rest).verdict = "ok" /\ Decide(rest).len = f.len /\ Decide(rest).body = f.body
        BY <2>1 DEF Complete
    <2>5. Len(f.body) <= MaxBody /\ [len |-> f.len, body |-> f.body] \in Requests(rest)
        BY <2>3, <2>4, DecideAgrees
    <2> QED
        BY <2>1, <2>5 DEF f, rest
<1> QED
    BY <1>1, FramingInvariant, PTL
=============================================================================
