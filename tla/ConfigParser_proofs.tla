------------------------ MODULE ConfigParser_proofs ------------------------
(***************************************************************************)
(* What is proved of ConfigParser, for any files and any words that parse: *)
(* its type invariant, that each iteration of the descent brings the       *)
(* parser closer to its end, that a file is accepted without a complaint   *)
(* exactly if it is in the grammar, and that a well-formed block outside   *)
(* every other yields the server it means, whatever else is broken.        *)
(***************************************************************************)
EXTENDS ConfigParser, SequenceTheorems, Recursion, TLAPS

(* A text, or a word of one.                                               *)
Text == Seq(Character)

-----------------------------------------------------------------------------
(***************************************************************************)
(* Tokens.                                                                 *)
(***************************************************************************)

(* The state of tokenize's loop.                                           *)
Lexed == [out : Seq(Text), word : Text, comment : BOOLEAN]

(* Flushing leaves tokens.                                                 *)
LEMMA FlushTyped ==
    ASSUME NEW lx \in Lexed
    PROVE  Flush(lx) \in Seq(Text)
<1>1. lx.out \in Seq(Text) /\ lx.word \in Text
    BY DEF Lexed
<1>2. Append(lx.out, lx.word) \in Seq(Text)
    BY <1>1, AppendProperties
<1> QED
    BY <1>1, <1>2 DEF Flush

(* So does every character.                                                *)
LEMMA LexTyped ==
    ASSUME NEW lx \in Lexed, NEW c \in Character
    PROVE  Lex(lx, c) \in Lexed
<1>1. lx.word \in Text /\ Flush(lx) \in Seq(Text) /\ <<c>> \in Text /\ <<>> \in Text
    BY FlushTyped DEF Lexed, Text
<1>2. Append(Flush(lx), <<c>>) \in Seq(Text) /\ Append(lx.word, c) \in Text
    BY <1>1, AppendProperties DEF Text
<1>3. [lx EXCEPT !.comment = (c # "nl")] \in Lexed
    BY DEF Lexed
<1>4. [lx EXCEPT !.word = Append(@, c)] \in Lexed
    BY <1>2 DEF Lexed
<1>5. [out |-> Append(Flush(lx), <<c>>), word |-> <<>>, comment |-> FALSE] \in Lexed
    BY <1>1, <1>2 DEF Lexed
<1>6. [out |-> Flush(lx), word |-> <<>>, comment |-> (c = "#")] \in Lexed
    BY <1>1 DEF Lexed
<1> QED
    BY <1>3, <1>4, <1>5, <1>6 DEF Lex

(* Tokens are words of a text: there are finitely many.                    *)
LEMMA TokensTyped ==
    ASSUME NEW text \in Text
    PROVE  Tokenize(text) \in Seq(Text)
<1> DEFINE n == Len(text)
           X == SUBSET (1 .. n)
           base == [out |-> <<>>, word |-> <<>>, comment |-> FALSE]
           Turn(g, s) == IF s = {} THEN base
                         ELSE Lex(g[s \ {Greatest(s)}], text[Greatest(s)])
           iter == CHOOSE g : g = [s \in X |-> Turn(g, s)]
           op == [i \in 1 .. n |-> [v \in Lexed |-> Lex(v, text[i])]]
<1>1. n \in Nat /\ DOMAIN text = 1 .. n /\ \A i \in 1 .. n : text[i] \in Character
    BY LenProperties, ElementOfSeq DEF Text
<1>2. Tokenize(text) = Flush(iter[1 .. n])
    BY <1>1 DEF Tokenize, FoldLeft, MapThenFoldSet, Max, Greatest
<1>3. base \in Lexed
    BY DEF Lexed, Text
<1>4. op \in [1 .. n -> [Lexed -> Lexed]]
    BY <1>1, LexTyped
<1>5. \A s \in X : s # {} => Greatest(s) \in 1 .. n /\ s \ {Greatest(s)} \in X
    BY <1>1, GreatestLowers
<1>6. \E g : g = [s \in X |-> Turn(g, s)]
    <2> HIDE DEF op, base
    <2>1. PICK f \in [X -> Lexed] : Folds(f, n, base, op)
        BY <1>1, <1>3, <1>4, FoldExists
    <2>2. /\ \A s \in X : f[s] = IF s = {} THEN base ELSE op[Greatest(s)][f[s \ {Greatest(s)}]]
          /\ \A i \in 1 .. n, v \in Lexed : op[i][v] = Lex(v, text[i])
        BY <2>1 DEF Folds, op
    <2>3. ASSUME NEW s \in X PROVE f[s] = Turn(f, s)
        <3>1. CASE s = {}
            BY <2>2, <3>1
        <3>2. CASE s # {}
            <4>1. Greatest(s) \in 1 .. n /\ f[s \ {Greatest(s)}] \in Lexed
                BY <1>5, <2>1, <3>2
            <4> QED
                BY <2>2, <3>2, <4>1
        <3> QED
            BY <3>1, <3>2
    <2> QED
        BY <2>1, <2>3
<1>7. iter = [s \in X |-> Turn(iter, s)]
    BY <1>6
<1> HIDE DEF iter, op, base
<1>8. Keeps(iter, n, Lexed)
    <2>1. iter[{}] = base
        BY <1>7
    <2>2. ASSUME NEW s \in X, s # {}, iter[s \ {Greatest(s)}] \in Lexed PROVE iter[s] \in Lexed
        <3>1. iter[s] = Lex(iter[s \ {Greatest(s)}], text[Greatest(s)])
            BY <1>7, <2>2
        <3> QED
            BY <1>1, <1>5, <2>2, <3>1, LexTyped
    <2> QED
        BY <1>3, <2>1, <2>2 DEF Keeps
<1>9. 1 .. n \in X
    OBVIOUS
<1> HIDE DEF X, n
<1>10. \A s \in SUBSET (1 .. n) : iter[s] \in Lexed
    BY <1>1, <1>8, FoldInduction
<1>11. iter[1 .. n] \in Lexed
    BY <1>9, <1>10 DEF X
<1> QED
    BY <1>2, <1>11, FlushTyped

(* Only words on which f is defined have values; the last has one if it is. *)
LEMMA ValuesTyped ==
    ASSUME NEW args \in Seq(Text), NEW f
    PROVE  /\ Values(args, f) \in Seq({f[w] : w \in DOMAIN f})
           /\ args # <<>> /\ args[Len(args)] \in DOMAIN f => Values(args, f) # <<>>
<1> DEFINE n == Len(args)
           X == SUBSET (1 .. n)
           T == Seq({f[w] : w \in DOMAIN f})
           Add(vs, a) == IF a \in DOMAIN f THEN Append(vs, f[a]) ELSE vs
           Turn(g, s) == IF s = {} THEN <<>> ELSE Add(g[s \ {Greatest(s)}], args[Greatest(s)])
           iter == CHOOSE g : g = [s \in X |-> Turn(g, s)]
           op == [i \in 1 .. n |-> [v \in T |-> Add(v, args[i])]]
<1>1. n \in Nat /\ DOMAIN args = 1 .. n
    BY LenProperties
<1>2. Values(args, f) = iter[1 .. n]
    BY <1>1 DEF Values, FoldLeft, MapThenFoldSet, Max, Greatest
<1>3. ASSUME NEW v \in T, NEW a PROVE Add(v, a) \in T
    <2>1. CASE a \in DOMAIN f
        <3>1. f[a] \in {f[w] : w \in DOMAIN f}
            BY <2>1
        <3> QED
            BY <2>1, <3>1, AppendProperties
    <2>2. CASE a \notin DOMAIN f
        BY <2>2
    <2> QED
        BY <2>1, <2>2
<1> HIDE DEF T
<1>4. op \in [1 .. n -> [T -> T]] /\ <<>> \in T
    <2>1. <<>> \in T
        BY DEF T
    <2> HIDE DEF Add
    <2> QED
        BY <1>3, <2>1
<1>5. \A s \in X : s # {} => Greatest(s) \in 1 .. n /\ s \ {Greatest(s)} \in X
    BY <1>1, GreatestLowers
<1>6. \E g : g = [s \in X |-> Turn(g, s)]
    <2> HIDE DEF op, Add
    <2>1. PICK g \in [X -> T] : Folds(g, n, <<>>, op)
        BY <1>1, <1>4, FoldExists
    <2>2. /\ \A s \in X : g[s] = IF s = {} THEN <<>> ELSE op[Greatest(s)][g[s \ {Greatest(s)}]]
          /\ \A i \in 1 .. n, v \in T : op[i][v] = Add(v, args[i])
        BY <2>1 DEF Folds, op
    <2>3. ASSUME NEW s \in X PROVE g[s] = Turn(g, s)
        <3>1. CASE s = {}
            BY <2>2, <3>1
        <3>2. CASE s # {}
            <4>1. Greatest(s) \in 1 .. n /\ g[s \ {Greatest(s)}] \in T
                BY <1>5, <2>1, <3>2
            <4> QED
                BY <2>2, <3>2, <4>1
        <3> QED
            BY <3>1, <3>2
    <2> QED
        BY <2>1, <2>3
<1>7. iter = [s \in X |-> Turn(iter, s)]
    BY <1>6
<1> HIDE DEF iter, op, Add
<1>8. Keeps(iter, n, T)
    <2>1. iter[{}] = <<>>
        BY <1>7
    <2>2. ASSUME NEW s \in X, s # {}, iter[s \ {Greatest(s)}] \in T PROVE iter[s] \in T
        <3>1. iter[s] = Add(iter[s \ {Greatest(s)}], args[Greatest(s)])
            BY <1>7, <2>2
        <3> QED
            BY <1>3, <2>2, <3>1
    <2> QED
        BY <1>4, <2>1, <2>2 DEF Keeps
<1>9. 1 .. n \in X
    OBVIOUS
<1>10. \A s \in X : iter[s] \in T
    <2> HIDE DEF n
    <2> QED
        BY <1>1, <1>8, FoldInduction
<1>11. ASSUME args # <<>>, args[n] \in DOMAIN f PROVE iter[1 .. n] # <<>>
    <2>1. n \in 1 .. n
        BY <1>1, <1>11, EmptySeq
    <2>2. 1 .. n \in X /\ 1 .. n # {} /\ Greatest(1 .. n) = n
        BY <1>1, <2>1, FirstIndices
    <2> DEFINE before == iter[(1 .. n) \ {n}]
    <2>3. iter[1 .. n] = Add(before, args[n])
        BY <1>7, <2>2
    <2>4. Add(before, args[n]) = Append(before, f[args[n]])
        BY <1>11 DEF Add
    <2>5. before \in T
        BY <1>10
    <2> QED
        BY <2>3, <2>4, <2>5, AppendProperties DEF T
<1> QED
    BY <1>2, <1>9, <1>10, <1>11 DEF T

-----------------------------------------------------------------------------
(***************************************************************************)
(* The descent.                                                            *)
(***************************************************************************)

(* What ports are kept.                                                    *)
Ports == {U16[w] : w \in DOMAIN U16}

(* A block whose ports are ports.                                          *)
Shaped(s) == "ports" \in DOMAIN s /\ s.ports \in Seq(Ports)

(* No directive makes a port of a word that does not parse.                *)
LEMMA ApplyServerShaped ==
    ASSUME NEW s, Shaped(s), NEW name, NEW args \in Seq(Text)
    PROVE  Shaped(ApplyServer(s, name, args).block)
<1>1. s.ports \o Values(args, U16) \in Seq(Ports)
    BY ValuesTyped, ConcatProperties DEF Shaped, Ports
<1>2. Shaped([s EXCEPT !.ports = @ \o Values(args, U16)])
    BY <1>1 DEF Shaped
<1>3. ASSUME NEW v
      PROVE  /\ Shaped([s EXCEPT !.host = v]) /\ Shaped([s EXCEPT !.names = v])
             /\ Shaped([s EXCEPT !.pages = v]) /\ Shaped([s EXCEPT !.size = v])
    BY DEF Shaped
<1> HIDE DEF Shaped
<1> QED
    BY <1>2, <1>3 DEF ApplyServer, Good, Bad

(* read_directive consumes a word, and stops behind the file at last.      *)
LEMMA ReadAhead ==
    ASSUME toks \in Seq(Text), pos \in 1 .. Len(toks) + 1, IsWord(pos)
    PROVE  /\ ReadDirective.next \in pos + 1 .. Len(toks) + 1
           /\ ReadDirective.args \in Seq(Text)
<1> DEFINE stops == {i \in pos .. Len(toks) + 1 : ~IsWord(i)}
           end == Min(stops)
<1>1. Len(toks) \in Nat /\ DOMAIN toks = 1 .. Len(toks)
    BY LenProperties
<1>2. stops \in SUBSET Nat /\ Len(toks) + 1 \in stops
    BY <1>1 DEF IsWord
<1>3. \E i \in stops : \A j \in stops : i <= j
    BY <1>2, LeastNatural
<1>4. end \in stops /\ \A j \in stops : end <= j
    BY <1>3 DEF Min
<1>5. end \in pos + 1 .. Len(toks) + 1
    <2>1. end \in pos .. Len(toks) + 1 /\ end # pos
        BY <1>4
    <2> QED
        BY <1>1, <2>1
<1> HIDE DEF end, stops
<1>6. ReadDirective.next = IF IsTok(end, <<";">>) THEN end + 1 ELSE end
    BY DEF ReadDirective, end, stops
<1>7. ReadDirective.next \in pos + 1 .. Len(toks) + 1
    <2>1. IsTok(end, <<";">>) => end <= Len(toks)
        BY DEF IsTok
    <2>2. pos \in Nat /\ end \in Nat /\ pos + 1 <= end
        BY <1>1, <1>5
    <2>3. CASE IsTok(end, <<";">>)
        <3>1. ReadDirective.next = end + 1
            BY <1>6, <2>3
        <3> QED
            <4>1. end <= Len(toks)
                BY <2>1, <2>3
            <4>2. end + 1 \in pos + 1 .. Len(toks) + 1
                BY <1>1, <2>2, <4>1
            <4> QED
                BY <3>1, <4>2
    <2>4. CASE ~IsTok(end, <<";">>)
        <3>1. ReadDirective.next = end
            BY <1>6, <2>4
        <3> QED
            BY <1>5, <3>1
    <2> QED
        BY <2>3, <2>4
<1>8. SubSeq(toks, pos + 1, end - 1) \in Seq(Text)
    <2>1. \A i \in pos + 1 .. end - 1 : toks[i] \in Text
        BY <1>1, <1>5, ElementOfSeq
    <2>2. pos + 1 \in Int /\ end - 1 \in Int
        BY <1>1, <1>5
    <2> QED
        BY <2>1, <2>2, SubSeqProperties
<1>9. ReadDirective.args = SubSeq(toks, pos + 1, end - 1)
    BY DEF ReadDirective, end, stops
<1> QED
    BY <1>7, <1>8, <1>9

(* The blocks read so far are the elements of a sequence.                  *)
ServersOK == \E S : servers \in Seq(S) /\ \A s \in S : s.ports # <<>>

(* The inductive invariant.                                                *)
IInv ==
    /\ toks \in Seq(Text)
    /\ pos \in 1 .. Len(toks) + 1
    /\ ctx \in {"top", "server", "route", "done"}
    /\ Shaped(server)
    /\ ServersOK
    /\ errors \subseteq 1 .. Len(toks) + 1

(* What is left for the parser to do: tokens to consume, loops to leave.   *)
(* Opening a block consumes more than it adds.                             *)
Rank == CASE ctx = "route" -> 3 [] ctx = "server" -> 2 [] ctx = "top" -> 1 [] OTHER -> 0

(* It falls with every iteration.                                          *)
Variant == 2 * (Len(toks) + 1 - pos) + Rank

(* An iteration that consumes a token may open a block, and one that does  *)
(* not leaves one; the position stays within the file.                     *)
Turn ==
    /\ toks' = toks
    /\ pos' \in pos .. Len(toks) + 1
    /\ \/ pos' > pos /\ Rank' <= Rank + 1
       \/ pos' = pos /\ Rank' < Rank

(* The levels of the descent.                                              *)
LEMMA Ranks == Rank \in 0 .. 3
BY DEF Rank

(* A block with ports joins the blocks read so far.                        *)
LEMMA ServersAppend ==
    ASSUME ServersOK, server.ports # <<>>, servers' = Append(servers, server)
    PROVE  ServersOK'
<1>1. PICK S : servers \in Seq(S) /\ \A s \in S : s.ports # <<>>
    BY DEF ServersOK
<1> DEFINE T == S \cup {server}
<1>2. servers \in Seq(T) /\ server \in T /\ \A s \in T : s.ports # <<>>
    BY <1>1
<1> HIDE DEF T
<1>3. servers' \in Seq(T)
    BY <1>2, AppendProperties
<1> QED
    BY <1>2, <1>3 DEF ServersOK

(* The error list only ever gets positions of the file.                    *)
LEMMA Reported ==
    ASSUME IInv, NEW bad, Report(bad), toks' = toks
    PROVE  errors' \subseteq 1 .. Len(toks) + 1
BY DEF IInv, Report

(* Each iteration of the descent keeps the invariant and comes closer to   *)
(* its end: no arm of the recovery reports an error and stays.             *)
LEMMA TurnOK ==
    ASSUME IInv, Next
    PROVE  IInv' /\ Turn
<1>1. /\ toks \in Seq(Text) /\ Len(toks) \in Nat
      /\ pos \in 1 .. Len(toks) + 1 /\ pos \in Nat
      /\ Shaped(server) /\ ServersOK /\ errors \subseteq 1 .. Len(toks) + 1
    BY LenProperties DEF IInv
<1>2. ASSUME toks' = toks, pos' \in 1 .. Len(toks) + 1,
             ctx' \in {"top", "server", "route", "done"},
             Shaped(server)', ServersOK', errors' \subseteq 1 .. Len(toks) + 1
      PROVE  IInv'
    BY <1>1, <1>2 DEF IInv
<1>3. servers' = servers => ServersOK'
    BY <1>1 DEF ServersOK
<1>4. server' = server => Shaped(server)'
    BY <1>1
<1>5. CASE OpenServer
    <2>1. /\ toks' = toks /\ servers' = servers
          /\ pos <= Len(toks) /\ Rank = 1
          /\ \/ pos' = pos + 2 /\ pos + 1 <= Len(toks) /\ ctx' = "server" /\ server' = NewServer
                /\ Report(FALSE)
             \/ pos' = pos + 1 /\ ctx' = "top" /\ server' = server /\ Report(TRUE)
        BY <1>5 DEF OpenServer, IsTok, Rank
    <2>2. Rank' \in {1, 2}
        BY <2>1 DEF Rank
    <2>3. Shaped(NewServer)
        BY DEF Shaped, NewServer
    <2>4. Shaped(server)'
        BY <1>4, <2>1, <2>3
    <2>5. errors' \subseteq 1 .. Len(toks) + 1
        BY <2>1, Reported
    <2>6. pos' \in pos + 1 .. Len(toks) + 1
        <3>1. pos <= Len(toks) /\ (pos' = pos + 1 \/ (pos' = pos + 2 /\ pos + 1 <= Len(toks)))
            BY <2>1
        <3> QED
            BY <1>1, <3>1
    <2>7. IInv'
        <3>1. toks' = toks /\ ctx' \in {"top", "server"} /\ servers' = servers
            BY <2>1
        <3>2. pos' \in 1 .. Len(toks) + 1
            BY <1>1, <2>6
        <3> QED
            BY <1>2, <1>3, <2>4, <2>5, <3>1, <3>2
    <2>8. Turn
        BY <1>1, <2>1, <2>2, <2>6 DEF Turn
    <2> QED
        BY <2>7, <2>8
<1>6. CASE ExpectServer
    <2>1. /\ toks' = toks /\ servers' = servers /\ server' = server
          /\ pos <= Len(toks) /\ Rank = 1 /\ Rank' = 1
          /\ pos' = pos + 1 /\ ctx' = "top" /\ Report(TRUE)
        BY <1>6 DEF ExpectServer, Rank
    <2>2. errors' \subseteq 1 .. Len(toks) + 1
        BY <2>1, Reported
    <2>3. pos' \in pos + 1 .. Len(toks) + 1
        BY <1>1, <2>1
    <2>4. IInv'
        BY <1>1, <1>2, <1>3, <1>4, <2>1, <2>2, <2>3
    <2>5. Turn
        BY <1>1, <2>1, <2>3 DEF Turn
    <2> QED
        BY <2>4, <2>5
<1>7. CASE Finish
    <2>1. /\ toks' = toks /\ servers' = servers /\ server' = server /\ errors' = errors
          /\ pos' = pos /\ ctx' = "done" /\ Rank = 1 /\ Rank' = 0
        BY <1>7 DEF Finish, Rank
    <2>2. IInv'
        BY <1>1, <1>2, <1>3, <1>4, <2>1
    <2>3. Turn
        BY <1>1, <2>1 DEF Turn
    <2> QED
        BY <2>2, <2>3
<1>8. CASE CloseServer
    <2>1. /\ toks' = toks /\ server' = server
          /\ servers' = IF server.ports = <<>> THEN servers ELSE Append(servers, server)
          /\ pos' = IF pos > Len(toks) THEN pos ELSE pos + 1
          /\ ctx' = "top" /\ Rank = 2 /\ Rank' = 1
        BY <1>8 DEF CloseServer, Rank
    <2>2. errors' \subseteq 1 .. Len(toks) + 1
        BY <1>8, <2>1, Reported DEF CloseServer
    <2>3. ServersOK'
        BY <1>1, <1>3, <2>1, ServersAppend
    <2>4. pos' \in 1 .. Len(toks) + 1 /\ (pos' = pos \/ pos' > pos) /\ pos' \in pos .. Len(toks) + 1
        BY <1>1, <2>1
    <2>5. IInv'
        BY <1>1, <1>2, <1>4, <2>1, <2>2, <2>3, <2>4
    <2>6. Turn
        BY <1>1, <2>1, <2>4 DEF Turn
    <2> QED
        BY <2>5, <2>6
<1>9. CASE OpenRoute
    <2>1. /\ toks' = toks /\ servers' = servers /\ server' = server
          /\ pos <= Len(toks) /\ Rank = 2
          /\ \/ pos' = pos + 3 /\ pos + 2 <= Len(toks) /\ ctx' = "route" /\ Report(FALSE)
             \/ pos' = TwoAhead /\ ctx' = "server" /\ Report(TRUE)
        BY <1>9 DEF OpenRoute, IsTok, Rank
    <2>2. Rank' \in {2, 3}
        BY <2>1 DEF Rank
    <2>3. errors' \subseteq 1 .. Len(toks) + 1
        BY <2>1, Reported
    <2>4. TwoAhead \in pos + 1 .. Len(toks) + 1
        <3> DEFINE two == {pos + 2, Len(toks) + 1}
        <3>1. two \in SUBSET Nat /\ two # {}
            BY <1>1
        <3>2. \E i \in two : \A j \in two : i <= j
            BY <3>1, LeastNatural
        <3>3. TwoAhead \in two /\ \A j \in two : TwoAhead <= j
            BY <3>2 DEF TwoAhead, Min
        <3> QED
            BY <1>1, <2>1, <3>3
    <2>5. pos' \in pos + 1 .. Len(toks) + 1
        <3>1. pos' = TwoAhead \/ (pos' = pos + 3 /\ pos + 2 <= Len(toks))
            BY <2>1
        <3> QED
            BY <1>1, <2>4, <3>1
    <2>6. IInv'
        <3>1. toks' = toks /\ ctx' \in {"server", "route"} /\ servers' = servers /\ server' = server
            BY <2>1
        <3>2. pos' \in 1 .. Len(toks) + 1
            BY <1>1, <2>5
        <3> QED
            BY <1>2, <1>3, <1>4, <2>3, <3>1, <3>2
    <2>7. Turn
        BY <1>1, <2>1, <2>2, <2>5 DEF Turn
    <2> QED
        BY <2>6, <2>7
<1>10. CASE ServerDirective
    <2>1. /\ toks' = toks /\ servers' = servers /\ ctx' = "server" /\ Rank = 2 /\ Rank' = 2
          /\ IsWord(pos) /\ pos' = ReadDirective.next
          /\ server' = ApplyServer(server, ReadDirective.name, ReadDirective.args).block
        BY <1>10 DEF ServerDirective, Rank
    <2>2. pos' \in pos + 1 .. Len(toks) + 1 /\ ReadDirective.args \in Seq(Text)
        BY <1>1, <2>1, ReadAhead
    <2>3. Shaped(server')
        BY <1>1, <2>1, <2>2, ApplyServerShaped
    <2>4. Shaped(server)'
        BY <2>3 DEF Shaped, Ports
    <2>5. errors' \subseteq 1 .. Len(toks) + 1
        BY <1>10, <2>1, Reported DEF ServerDirective
    <2>6. IInv'
        BY <1>1, <1>2, <1>3, <2>1, <2>2, <2>4, <2>5
    <2>7. Turn
        BY <1>1, <2>1, <2>2 DEF Turn
    <2> QED
        BY <2>6, <2>7
<1>11. CASE CloseRoute
    <2>1. /\ toks' = toks /\ servers' = servers
          /\ server' = [server EXCEPT !.routes = Append(@, route)]
          /\ pos' = IF pos > Len(toks) THEN pos ELSE pos + 1
          /\ ctx' = "server" /\ Rank = 3 /\ Rank' = 2
        BY <1>11 DEF CloseRoute, Rank
    <2>2. errors' \subseteq 1 .. Len(toks) + 1
        BY <1>11, <2>1, Reported DEF CloseRoute
    <2>3. Shaped(server)'
        BY <1>1, <2>1 DEF Shaped, Ports
    <2>4. pos' \in 1 .. Len(toks) + 1 /\ (pos' = pos \/ pos' > pos) /\ pos' \in pos .. Len(toks) + 1
        BY <1>1, <2>1
    <2>5. IInv'
        BY <1>1, <1>2, <1>3, <2>1, <2>2, <2>3, <2>4
    <2>6. Turn
        BY <1>1, <2>1, <2>4 DEF Turn
    <2> QED
        BY <2>5, <2>6
<1>12. CASE RouteDirective
    <2>1. /\ toks' = toks /\ servers' = servers /\ server' = server /\ ctx' = "route"
          /\ Rank = 3 /\ Rank' = 3 /\ IsWord(pos) /\ pos' = ReadDirective.next
        BY <1>12 DEF RouteDirective, Rank
    <2>2. pos' \in pos + 1 .. Len(toks) + 1
        BY <1>1, <2>1, ReadAhead
    <2>3. errors' \subseteq 1 .. Len(toks) + 1
        BY <1>12, <2>1, Reported DEF RouteDirective
    <2>4. IInv'
        BY <1>1, <1>2, <1>3, <1>4, <2>1, <2>2, <2>3
    <2>5. Turn
        BY <1>1, <2>1, <2>2 DEF Turn
    <2> QED
        BY <2>4, <2>5
<1>13. CASE Unexpected
    <2>1. /\ toks' = toks /\ servers' = servers /\ server' = server /\ ctx' = ctx
          /\ ctx \in {"server", "route"}
          /\ pos <= Len(toks) /\ Rank' = Rank /\ pos' = pos + 1 /\ Report(TRUE)
        BY <1>13 DEF Unexpected, IsTok, Rank
    <2>2. errors' \subseteq 1 .. Len(toks) + 1
        BY <2>1, Reported
    <2>3. pos' \in pos + 1 .. Len(toks) + 1
        BY <1>1, <2>1
    <2>4. IInv'
        BY <1>1, <1>2, <1>3, <1>4, <2>1, <2>2, <2>3
    <2>5. Turn
        BY <1>1, <2>1, <2>3, Ranks DEF Turn
    <2> QED
        BY <2>4, <2>5
<1> QED
    BY <1>5, <1>6, <1>7, <1>8, <1>9, <1>10, <1>11, <1>12, <1>13 DEF Next

(* The parser starts on the tokens of a file.                              *)
LEMMA InitOK == Init => IInv
<1> SUFFICES ASSUME Init PROVE IInv
    OBVIOUS
<1>1. PICK text \in Texts : toks = Tokenize(text)
    BY DEF Init
<1>2. toks \in Seq(Text)
    BY <1>1, ParserAssumption, TokensTyped DEF Text
<1>3. Len(toks) \in Nat /\ pos = 1 /\ ctx = "top" /\ errors = {}
    BY <1>2, LenProperties DEF Init
<1>4. Shaped(server)
    BY DEF Init, NewServer, Shaped
<1>5. ServersOK
    <2>1. servers \in Seq({}) /\ \A s \in {} : s.ports # <<>>
        BY DEF Init
    <2> QED
        BY <2>1 DEF ServersOK
<1> QED
    BY <1>2, <1>3, <1>4, <1>5 DEF IInv

(* The tokens, the position and the blocks are what they should be in      *)
(* every state, whatever the file.                                         *)
THEOREM Invariance == Spec => []IInv
<1>1. IInv /\ UNCHANGED vars => IInv'
    BY DEF IInv, vars, Shaped, Ports, ServersOK
<1>2. IInv /\ [Next]_vars => IInv'
    BY <1>1, TurnOK
<1> QED
    BY <1>2, InitOK, PTL DEF Spec

(* Only ports that parse are kept, no block without one is, and the        *)
(* position stays within the file or just behind it.                       *)
THEOREM TypeCorrect == Spec => []TypeOK
<1>1. IInv => TypeOK
    <2> SUFFICES ASSUME IInv PROVE TypeOK
        OBVIOUS
    <2>1. ToSet(server.ports) \subseteq {U16[w] : w \in DOMAIN U16}
        <3>1. server.ports \in Seq(Ports)
            BY DEF IInv, Shaped
        <3>2. \A i \in DOMAIN server.ports : server.ports[i] \in Ports
            BY <3>1, ElementOfSeq, LenProperties
        <3> QED
            BY <3>2 DEF ToSet, Ports
    <2>2. \A i \in DOMAIN servers : servers[i].ports # <<>>
        <3>1. PICK S : servers \in Seq(S) /\ \A s \in S : s.ports # <<>>
            BY DEF IInv, ServersOK
        <3>2. \A i \in DOMAIN servers : servers[i] \in S
            BY <3>1, ElementOfSeq, LenProperties
        <3> QED
            BY <3>1, <3>2
    <2> QED
        BY <2>1, <2>2 DEF IInv, TypeOK
<1> QED
    BY <1>1, Invariance, PTL

(* A turn of any loop of the descent comes closer to the end of the parse. *)
Closer == Variant \in Nat /\ Variant' \in Nat /\ Variant' < Variant

(* Parsing any file ends: every iteration of every loop lowers a natural   *)
(* number, which starts at twice the number of tokens and one.             *)
THEOREM EveryTurnCloser == Spec => [][Closer]_vars
<1>1. IInv /\ Next => Closer
    <2> SUFFICES ASSUME IInv, Next PROVE Closer
        OBVIOUS
    <2>1. Turn /\ Len(toks) \in Nat /\ pos \in 1 .. Len(toks) + 1
        BY TurnOK, LenProperties DEF IInv
    <2>2. Rank \in 0 .. 3 /\ Rank' \in 0 .. 3
        BY Ranks DEF Rank
    <2>3. Variant = 2 * (Len(toks) + 1 - pos) + Rank
        BY DEF Variant
    <2>4. Variant' = 2 * (Len(toks) + 1 - pos') + Rank'
        BY <2>1 DEF Variant, Turn
    <2> QED
        BY <2>1, <2>2, <2>3, <2>4, SMTT(30) DEF Turn, Closer
<1>2. IInv /\ [Next]_vars => [Closer]_vars
    BY <1>1
<1> QED
    BY <1>2, Invariance, PTL DEF Spec

-----------------------------------------------------------------------------
(***************************************************************************)
(* Cutting tokens into items.                                              *)
(***************************************************************************)

(* Cutting the tokens from i on: an item that begins there, then the rest. *)
LEMMA SequenceFrom ==
    ASSUME NEW j \in Nat, NEW items
    PROVE  /\ Sequence(j + 1, j, items)
           /\ \A i \in 1 .. j :
                 Sequence(i, j, items)
                    <=> \E b \in i .. j : <<i, b>> \in items /\ Sequence(b + 1, j, items)
<1> DEFINE X == 1 .. j + 1
           Value(g, a) == a > j \/ \E b \in a .. j : <<a, b>> \in items /\ g[b + 1]
           from == CHOOSE g : g = [a \in X |-> Value(g, a)]
           m == [a \in X |-> j + 1 - a]
           G == [g \in [X -> BOOLEAN] |-> [a \in X |-> Value(g, a)]]
<1>1. \A i : Sequence(i, j, items) = from[i]
    BY DEF Sequence
<1>2. \E g : g = [a \in X |-> Value(g, a)]
    <2>1. Measures(m, j + 2, X)
        <3>1. m \in [X -> Nat] /\ \A a \in X : m[a] < j + 2
            OBVIOUS
        <3> QED
            BY <3>1 DEF Measures
    <2>2. \A g \in [X -> BOOLEAN], a \in X : G[g][a] = Value(g, a)
        OBVIOUS
    <2>3. G \in [[X -> BOOLEAN] -> [X -> BOOLEAN]]
        OBVIOUS
    <2>4. ASSUME NEW a \in X, NEW g \in [X -> BOOLEAN], NEW h \in [X -> BOOLEAN],
                 \A y \in X : m[y] < m[a] => g[y] = h[y]
          PROVE  G[g][a] = G[h][a]
        <3>1. ASSUME NEW b \in a .. j PROVE g[b + 1] = h[b + 1]
            <4>1. b + 1 \in X /\ m[b + 1] < m[a]
                OBVIOUS
            <4> HIDE DEF m, X
            <4> QED
                BY <2>4, <4>1
        <3>2. Value(g, a) = Value(h, a)
            BY <3>1
        <3> HIDE DEF G, Value
        <3> QED
            BY <2>2, <3>2
    <2>5. j + 2 \in Nat /\ TRUE \in BOOLEAN
        OBVIOUS
    <2> HIDE DEF m, X, G, Value
    <2>6. Lowers(G, m, X, BOOLEAN)
        BY <2>3, <2>4 DEF Lowers
    <2>7. PICK g \in [X -> BOOLEAN] : Solves(g, G, X)
        BY <2>1, <2>5, <2>6, RecursiveFunction
    <2>8. \A a \in X : g[a] = Value(g, a)
        BY <2>2, <2>7 DEF Solves
    <2>9. g = [a \in X |-> Value(g, a)]
        BY <2>8
    <2> QED
        BY <2>9
<1>3. from = [a \in X |-> Value(from, a)]
    BY <1>2
<1> HIDE DEF from
<1>4. \A a \in X : from[a] = Value(from, a)
    <2> HIDE DEF X, Value
    <2> QED
        BY <1>3
<1>5. j + 1 \in X /\ j + 1 > j /\ \A i \in 1 .. j : i \in X /\ ~(i > j)
    OBVIOUS
<1>6. from[j + 1]
    BY <1>4, <1>5
<1>7. \A i \in 1 .. j : from[i] = \E b \in i .. j : <<i, b>> \in items /\ from[b + 1]
    BY <1>4, <1>5
<1> HIDE DEF X
<1> QED
    BY <1>1, <1>6, <1>7

(* Tokens that are cut stay cut when another item follows them.            *)
LEMMA SequenceMore ==
    ASSUME NEW k \in Nat, NEW b \in Nat, NEW items, <<k + 1, b>> \in items, k < b,
           NEW i \in 1 .. k + 1, Sequence(i, k, items)
    PROVE  Sequence(i, b, items)
<1> DEFINE X == 1 .. k + 1
           m == [a \in X |-> k + 1 - a]
           S == {a \in X : Sequence(a, k, items) => Sequence(a, b, items)}
<1>1. m \in [X -> Nat] /\ \A a \in X : m[a] = k + 1 - a
    OBVIOUS
<1> HIDE DEF m
<1>2. ASSUME NEW a \in X, \A c \in X : m[c] < m[a] => c \in S, Sequence(a, k, items)
      PROVE  Sequence(a, b, items)
    <2>0. Sequence(a, b, items) <=> \E d \in a .. b : <<a, d>> \in items /\ Sequence(d + 1, b, items)
        <3>1. a \in 1 .. b
            OBVIOUS
        <3> QED
            BY <3>1, SequenceFrom
    <2>1. CASE a = k + 1
        <3>1. b \in a .. b /\ <<a, b>> \in items
            BY <2>1
        <3>2. Sequence(b + 1, b, items)
            BY SequenceFrom
        <3> QED
            BY <2>0, <3>1, <3>2
    <2>2. CASE a # k + 1
        <3>1. a \in 1 .. k
            BY <2>2
        <3>2. PICK d \in a .. k : <<a, d>> \in items /\ Sequence(d + 1, k, items)
            BY <1>2, <3>1, SequenceFrom
        <3>3. d + 1 \in X /\ m[d + 1] < m[a] /\ d \in a .. b
            BY <1>1, <3>1
        <3>4. Sequence(d + 1, b, items)
            BY <1>2, <3>2, <3>3
        <3> QED
            BY <2>0, <3>2, <3>3, <3>4
    <2> QED
        BY <2>1, <2>2
<1>3. Inherits(S, m, X)
    BY <1>2 DEF Inherits
<1> HIDE DEF X
<1>4. \A a \in X : a \in S
    <2> HIDE DEF S
    <2> QED
        BY <1>1, <1>3, MeasureInduction
<1> QED
    BY <1>4 DEF X

-----------------------------------------------------------------------------
(***************************************************************************)
(* Directives.                                                             *)
(***************************************************************************)

(* Whether a directive is right does not depend on the block it is in.     *)
LEMMA BadAlike ==
    ASSUME NEW s, NEW r, NEW name, NEW args
    PROVE  /\ ApplyServer(s, name, args).bad = ApplyServer(r, name, args).bad
           /\ ApplyRoute(s, name, args).bad = ApplyRoute(r, name, args).bad
<1>1. ApplyServer(s, name, args).bad = ApplyServer(r, name, args).bad
    BY DEF ApplyServer, Good, Bad
<1>2. ApplyRoute(s, name, args).bad = ApplyRoute(r, name, args).bad
    BY DEF ApplyRoute, Good, Bad
<1> QED
    BY <1>1, <1>2

(* The directives that give ports.                                         *)
PortNames == {<<"port">>, <<"listen">>}

(* A block has ports if it had some, or if a directive gives it some.      *)
LEMMA PortsGiven ==
    ASSUME NEW s, Shaped(s), NEW name, NEW args \in Seq(Text),
           NEW t, t = ApplyServer(s, name, args)
    PROVE  /\ s.ports # <<>> => t.block.ports # <<>>
           /\ name \notin PortNames => t.block.ports = s.ports
           /\ name \in PortNames /\ ~t.bad => t.block.ports # <<>>
<1>1. CASE name \in PortNames
    <2> DEFINE vs == Values(args, U16)
    <2>1. t = [block |-> [s EXCEPT !.ports = @ \o vs],
               bad |-> args = <<>> \/ ~(ToSet(args) \subseteq DOMAIN U16)]
        BY <1>1 DEF ApplyServer, PortNames
    <2>2. vs \in Seq(Ports) /\ s.ports \in Seq(Ports) /\ "ports" \in DOMAIN s
        BY ValuesTyped DEF Ports, Shaped
    <2> HIDE DEF vs
    <2>3. t.block.ports = s.ports \o vs
        <3>1. t.block = [s EXCEPT !.ports = @ \o vs]
            BY <2>1
        <3> QED
            BY <2>2, <3>1
    <2> DEFINE wrong == args = <<>> \/ ~(ToSet(args) \subseteq DOMAIN U16)
    <2>6. t.bad = wrong
        <3> HIDE DEF wrong
        <3> QED
            BY <2>1 DEF wrong
    <2>4. s.ports # <<>> \/ vs # <<>> => s.ports \o vs # <<>>
        BY <2>2, ConcatEmptySeq
    <2>5. ASSUME ~t.bad PROVE vs # <<>>
        <3>1. args # <<>> /\ ToSet(args) \subseteq DOMAIN U16
            BY <2>5, <2>6
        <3>2. Len(args) \in 1 .. Len(args) /\ DOMAIN args = 1 .. Len(args)
            BY <3>1, EmptySeq, LenProperties
        <3>3. args[Len(args)] \in DOMAIN U16
            BY <3>1, <3>2 DEF ToSet
        <3> QED
            BY <3>1, <3>3, ValuesTyped DEF vs
    <2> QED
        BY <1>1, <2>3, <2>4, <2>5
<1>2. CASE name \notin PortNames
    <2>1. \A v : /\ [s EXCEPT !.host = v].ports = s.ports /\ [s EXCEPT !.names = v].ports = s.ports
                 /\ [s EXCEPT !.pages = v].ports = s.ports /\ [s EXCEPT !.size = v].ports = s.ports
        BY DEF Shaped
    <2>2. t.block.ports = s.ports
        BY <1>2, <2>1 DEF ApplyServer, Good, Bad, PortNames
    <2> QED
        BY <1>2, <2>2
<1> QED
    BY <1>1, <1>2

(* read_directive reads without an error exactly what is a directive.      *)
LEMMA DirectiveRead ==
    ASSUME toks \in Seq(Text), pos \in 1 .. Len(toks) + 1, IsWord(pos)
    PROVE  /\ ReadDirective.name = toks[pos]
           /\ ~ReadDirective.bad =>
                 \E d \in pos + 1 .. Len(toks) :
                    /\ IsDirective(toks, pos, d)
                    /\ ReadDirective.args = Arguments(toks, pos, d) /\ ReadDirective.next = d + 1
           /\ \A d \in pos .. Len(toks) : IsDirective(toks, pos, d) =>
                    /\ ~ReadDirective.bad
                    /\ ReadDirective.args = Arguments(toks, pos, d) /\ ReadDirective.next = d + 1
           /\ \A k \in pos .. ReadDirective.next - 1 : toks[k] \notin {<<"{">>, <<"}">>}
<1> DEFINE stops == {i \in pos .. Len(toks) + 1 : ~IsWord(i)}
           end == Min(stops)
<1>1. Len(toks) \in Nat /\ DOMAIN toks = 1 .. Len(toks)
    BY LenProperties
<1>2. stops \in SUBSET Nat /\ Len(toks) + 1 \in stops
    BY <1>1 DEF IsWord
<1>3. \E i \in stops : \A j \in stops : i <= j
    BY <1>2, LeastNatural
<1>4. end \in stops /\ \A j \in stops : end <= j
    BY <1>3 DEF Min
<1>5. /\ end \in pos + 1 .. Len(toks) + 1 /\ ~IsWord(end)
      /\ \A k \in pos .. end - 1 : IsWord(k)
    <2>1. end \in pos .. Len(toks) + 1 /\ end # pos
        BY <1>4
    <2>2. ASSUME NEW k \in pos .. end - 1 PROVE IsWord(k)
        <3>1. k \in pos .. Len(toks) + 1 /\ ~(end <= k)
            BY <1>1, <2>1
        <3> QED
            BY <1>4, <3>1
    <2> QED
        BY <1>1, <1>4, <2>1, <2>2
<1>9. pos \in Nat /\ end \in Nat /\ pos + 1 <= end
    BY <1>1, <1>5
<1>6. /\ ReadDirective.name = toks[pos]
      /\ ReadDirective.args = SubSeq(toks, pos + 1, end - 1)
      /\ ReadDirective.next = IF IsTok(end, <<";">>) THEN end + 1 ELSE end
      /\ ReadDirective.bad <=> ~IsTok(end, <<";">>)
    <2> HIDE DEF end
    <2>1. ReadDirective = [name |-> toks[pos], args |-> SubSeq(toks, pos + 1, end - 1),
                           next |-> IF IsTok(end, <<";">>) THEN end + 1 ELSE end,
                           bad |-> ~IsTok(end, <<";">>)]
        BY DEF ReadDirective, end
    <2> QED
        BY <2>1
<1> HIDE DEF end, stops
<1>7. ASSUME ~ReadDirective.bad
      PROVE  /\ end \in pos + 1 .. Len(toks) /\ IsDirective(toks, pos, end)
             /\ ReadDirective.args = Arguments(toks, pos, end) /\ ReadDirective.next = end + 1
    <2>1. IsTok(end, <<";">>)
        BY <1>6, <1>7
    <2>2. end <= Len(toks) /\ toks[end] = <<";">>
        BY <2>1 DEF IsTok
    <2>4. Len(toks) \in Nat /\ end <= Len(toks)
        BY <1>1, <2>2
    <2>3. end \in pos + 1 .. Len(toks) /\ end > pos
        BY <1>9, <2>4
    <2>5. \A k \in pos .. end - 1 : toks[k] \notin Marks
        BY <1>5 DEF IsWord
    <2> QED
        BY <1>6, <2>1, <2>2, <2>3, <2>5 DEF IsDirective, Arguments
<1>8. ASSUME NEW d \in pos .. Len(toks), IsDirective(toks, pos, d)
      PROVE  d = end /\ IsTok(end, <<";">>)
    <2>0. d \in Nat /\ pos <= d /\ d <= Len(toks)
        BY <1>1, <1>9
    <2>6. d > pos /\ toks[d] = <<";">> /\ \A k \in pos .. d - 1 : toks[k] \notin Marks
        BY <1>8 DEF IsDirective
    <2>7. \A k \in pos .. d - 1 : k <= Len(toks)
        BY <1>1, <1>9, <2>0
    <2>1. toks[d] = <<";">> /\ \A k \in pos .. d - 1 : IsWord(k)
        BY <2>6, <2>7 DEF IsWord
    <2>2. ~IsWord(d)
        BY <2>1 DEF IsWord, Marks, Punctuation
    <2>3. ~(end < d)
        <3> SUFFICES ASSUME end < d PROVE FALSE
            OBVIOUS
        <3>1. end \in pos .. d - 1
            BY <1>9, <2>0
        <3> QED
            BY <1>5, <2>1, <3>1
    <2>4. ~(d < end)
        <3> SUFFICES ASSUME d < end PROVE FALSE
            OBVIOUS
        <3>1. d \in pos .. end - 1
            BY <1>9, <2>0
        <3> QED
            BY <1>5, <2>2, <3>1
    <2>5. d = end
        BY <1>9, <2>0, <2>3, <2>4
    <2> QED
        BY <2>0, <2>1, <2>5 DEF IsTok
<1>10. ASSUME NEW k \in pos .. ReadDirective.next - 1
       PROVE  toks[k] \notin {<<"{">>, <<"}">>}
    <2> DEFINE braces == {<<"{">>, <<"}">>}
    <2>1. braces \subseteq Marks /\ <<";">> \notin braces
        BY DEF Marks, Punctuation
    <2> SUFFICES toks[k] \notin braces
        OBVIOUS
    <2> HIDE DEF braces
    <2>2. CASE k \in pos .. end - 1
        BY <1>5, <2>1, <2>2 DEF IsWord
    <2>3. CASE k \notin pos .. end - 1
        <3>1. IsTok(end, <<";">>)
            <4> SUFFICES ASSUME ~IsTok(end, <<";">>) PROVE FALSE
                OBVIOUS
            <4>1. ReadDirective.next = end
                BY <1>6
            <4> QED
                BY <2>3, <4>1
        <3>2. ReadDirective.next = end + 1
            BY <1>6, <3>1
        <3>3. k = end
            BY <1>9, <2>3, <3>2
        <3>4. toks[k] = <<";">>
            BY <3>1, <3>3 DEF IsTok
        <3> QED
            BY <2>1, <3>4
    <2> QED
        BY <2>2, <2>3
<1> QED
    BY <1>6, <1>7, <1>8, <1>10 DEF Arguments

-----------------------------------------------------------------------------
(***************************************************************************)
(* The grammar.                                                            *)
(***************************************************************************)

(* Keywords are words, and braces and semicolons are apart from them.      *)
LEMMA Apart ==
    /\ <<"{">> \in Marks /\ <<"}">> \in Marks /\ <<";">> \in Marks
    /\ <<"server">> \notin Marks /\ <<"route">> \notin Marks /\ <<"route">> \notin PortNames
    /\ <<"{">> # <<"}">> /\ <<";">> # <<"}">> /\ <<"{">> # <<";">>
    /\ \A n \in PortNames : n \notin Marks
    /\ \A i : IsWord(i) => toks[i] \notin Marks
<1>1. Marks = {<<"{">>, <<"}">>, <<";">>}
    BY DEF Marks, Punctuation
<1>2. \A i : IsWord(i) => toks[i] \notin Marks
    BY DEF IsWord, Marks
<1>3. \A s, t \in {"{", "}", ";", "server", "route", "port", "listen"} : <<s>> = <<t>> => s = t
    OBVIOUS
<1> QED
    BY <1>1, <1>2, <1>3 DEF PortNames

(* What is at both ends of an item of each kind.                           *)
LEMMA Items ==
    ASSUME Len(toks) \in Nat, NEW a \in Nat, NEW b \in Nat
    PROVE  /\ <<a, b>> \in RouteItems(toks) <=>
                 a \in 1 .. Len(toks) /\ b \in a .. Len(toks) /\ IsRouteDirective(toks, a, b)
           /\ <<a, b>> \in ServerItems(toks) <=>
                 /\ a \in 1 .. Len(toks) /\ b \in a .. Len(toks)
                 /\ IsServerDirective(toks, a, b) \/ IsRoute(toks, a, b)
           /\ <<a, b>> \in Servers(toks) <=>
                 a \in 1 .. Len(toks) /\ b \in a .. Len(toks) /\ IsServer(toks, a, b)
<1> DEFINE s == <<a, b>>
<1>1. s[1] = a /\ s[2] = b
    OBVIOUS
<1>2. s \in Spans(toks) <=> a \in 1 .. Len(toks) /\ b \in a .. Len(toks)
    BY DEF Spans
<1> HIDE DEF s
<1>3. /\ s \in RouteItems(toks) <=> s \in Spans(toks) /\ IsRouteDirective(toks, a, b)
      /\ s \in ServerItems(toks) <=> s \in Spans(toks) /\ (IsServerDirective(toks, a, b) \/ IsRoute(toks, a, b))
      /\ s \in Servers(toks) <=> s \in Spans(toks) /\ IsServer(toks, a, b)
    BY <1>1 DEF RouteItems, ServerItems, Servers
<1> QED
    BY <1>2, <1>3 DEF s

(* In a directive punctuation comes last.                                  *)
LEMMA DirectiveWords ==
    ASSUME NEW a \in Nat, NEW b \in Nat, IsDirective(toks, a, b)
    PROVE  /\ b > a /\ toks[b] = <<";">> /\ toks[a] \notin Marks
           /\ \A c \in a + 1 .. b : toks[c - 1] \notin Marks
<1>1. b > a /\ toks[b] = <<";">>
    BY DEF IsDirective
<1>2. \A k \in a .. b - 1 : toks[k] \notin Marks
    BY DEF IsDirective
<1>3. a \in a .. b - 1
    <2>1. b > a
        BY <1>1
    <2> QED
        BY <2>1
<1>4. ASSUME NEW c \in a + 1 .. b PROVE toks[c - 1] \notin Marks
    <2>1. c - 1 \in a .. b - 1
        OBVIOUS
    <2> QED
        BY <1>2, <2>1
<1> QED
    BY <1>1, <1>2, <1>3, <1>4

(* Behind punctuation in a route a directive begins.                       *)
LEMMA Aligned ==
    ASSUME Len(toks) \in Nat, NEW h \in Nat, NEW l \in Nat \ {0}, NEW c \in l .. h,
           c = l \/ toks[c - 1] \in Marks, Sequence(l, h, RouteItems(toks))
    PROVE  \E d \in Nat : <<c, d>> \in RouteItems(toks)
<1> DEFINE X == 1 .. c
           m == [a \in X |-> c - a]
           Begun == \E d \in Nat : <<c, d>> \in RouteItems(toks)
           S == {a \in X : (c = a \/ toks[c - 1] \in Marks) /\ Sequence(a, h, RouteItems(toks)) => Begun}
<1>1. m \in [X -> Nat] /\ \A a \in X : m[a] = c - a
    OBVIOUS
<1> HIDE DEF m, Begun
<1>2. ASSUME NEW a \in X, \A y \in X : m[y] < m[a] => y \in S,
             c = a \/ toks[c - 1] \in Marks, Sequence(a, h, RouteItems(toks))
      PROVE  Begun
    <2>1. PICK b \in a .. h : <<a, b>> \in RouteItems(toks) /\ Sequence(b + 1, h, RouteItems(toks))
        <3>1. a \in 1 .. h
            OBVIOUS
        <3> QED
            BY <1>2, <3>1, SequenceFrom
    <2>2. CASE c = a
        BY <2>1, <2>2 DEF Begun
    <2>3. CASE c # a
        <3>1. IsDirective(toks, a, b)
            BY <2>1, Items DEF IsRouteDirective
        <3>2. ~(c \in a + 1 .. b)
            <4>1. b \in Nat /\ a \in Nat /\ toks[c - 1] \in Marks
                BY <1>2, <2>3
            <4> QED
                BY <3>1, <4>1, DirectiveWords
        <3>3. b + 1 \in X
            BY <2>3, <3>2
        <3>4. m[b + 1] < m[a]
            BY <1>1, <3>3
        <3> QED
            BY <1>2, <2>1, <2>3, <3>3, <3>4
    <2> QED
        BY <2>2, <2>3
<1>3. Inherits(S, m, X)
    BY <1>2 DEF Inherits
<1>4. l \in X
    OBVIOUS
<1> HIDE DEF X
<1>5. \A a \in X : a \in S
    <2> HIDE DEF S
    <2> QED
        BY <1>1, <1>3, MeasureInduction
<1> QED
    BY <1>4, <1>5 DEF Begun

-----------------------------------------------------------------------------
(***************************************************************************)
(* What items mean.                                                        *)
(***************************************************************************)

(* A route block means a bare route, and what its directives make of it.   *)
LEMMA RoutesMadeLaws ==
    ASSUME NEW ts, Len(ts) \in Nat, NEW r \in Nat
    PROVE  /\ r + 3 \in 1 .. Len(ts) + 1 => NewRoute(ts[r + 1]) \in RoutesMade(ts, r, r + 3)
           /\ \A c \in r + 3 .. Len(ts) : \A d \in c .. Len(ts) :
                 \A x \in RoutesMade(ts, r, c) :
                    IsRouteDirective(ts, c, d) =>
                       ApplyRoute(x, ts[c], Arguments(ts, c, d)).block \in RoutesMade(ts, r, d + 1)
<1> DEFINE X == 1 .. Len(ts) + 1
           Part(v, c, k) == {ApplyRoute(x, ts[c], Arguments(ts, c, k - 1)).block : x \in v}
           Starts(k) == {c \in r + 3 .. k - 1 : IsRouteDirective(ts, c, k - 1)}
           Bare == {NewRoute(ts[r + 1])}
           Value(g, k) == IF k = r + 3 THEN Bare ELSE UNION {Part(g[c], c, k) : c \in Starts(k)}
           made == CHOOSE g : g = [k \in X |-> Value(g, k)]
           Upto(n) == \E g : g = [k \in X |-> g[k]] /\ \A k \in X : k <= n => g[k] = Value(g, k)
           S == {n \in Nat : Upto(n)}
<1>1. \A i : RoutesMade(ts, r, i) = made[i]
    BY DEF RoutesMade
<1>2. \A k \in X : \A c \in Starts(k) : c \in X /\ c < k
    OBVIOUS
<1> HIDE DEF Part, Starts, Bare
<1>3. ASSUME NEW k \in X, NEW g, NEW h, \A c \in X : c < k => g[c] = h[c]
      PROVE  Value(g, k) = Value(h, k)
    <2>1. \A c \in Starts(k) : Part(g[c], c, k) = Part(h[c], c, k)
        BY <1>2, <1>3
    <2> QED
        BY <2>1
<1> HIDE DEF Value
<1>4. 0 \in S
    <2> DEFINE g == [k \in X |-> 0]
    <2>1. g = [k \in X |-> g[k]] /\ \A k \in X : ~(k <= 0)
        OBVIOUS
    <2> QED
        BY <2>1
<1>5. ASSUME NEW n \in Nat, n \in S PROVE n + 1 \in S
    <2>1. PICK g : g = [k \in X |-> g[k]] /\ \A k \in X : k <= n => g[k] = Value(g, k)
        BY <1>5
    <2> DEFINE h == [k \in X |-> IF k = n + 1 THEN Value(g, n + 1) ELSE g[k]]
    <2>2. h = [k \in X |-> h[k]]
        OBVIOUS
    <2>3. \A k \in X : h[k] = IF k = n + 1 THEN Value(g, n + 1) ELSE g[k]
        OBVIOUS
    <2> HIDE DEF h
    <2>4. ASSUME NEW k \in X, k <= n + 1 PROVE h[k] = Value(h, k)
        <3>1. \A c \in X : c < k => g[c] = h[c]
            BY <2>3, <2>4
        <3>2. Value(g, k) = Value(h, k)
            <4> HIDE DEF X
            <4> QED
                BY <1>3, <3>1
        <3>3. k = n + 1 \/ k <= n
            BY <2>4
        <3> QED
            BY <2>1, <2>3, <3>2, <3>3
    <2> QED
        BY <2>2, <2>4
<1>6. \A n \in 0 .. Len(ts) + 1 : n \in S
    <2>1. \A k \in 1 .. Len(ts) + 1 : k - 1 \in S => k \in S
        <3> SUFFICES ASSUME NEW k \in 1 .. Len(ts) + 1, k - 1 \in S PROVE k \in S
            OBVIOUS
        <3>1. k - 1 \in Nat /\ (k - 1) + 1 = k
            OBVIOUS
        <3> HIDE DEF S
        <3> QED
            BY <1>5, <3>1
    <2>2. Len(ts) + 1 \in Nat
        OBVIOUS
    <2> HIDE DEF S
    <2> QED
        BY <1>4, <2>1, <2>2, LoopInduction
<1>7. \E g : g = [k \in X |-> Value(g, k)]
    <2>1. Len(ts) + 1 \in S
        BY <1>6
    <2>2. PICK g : g = [k \in X |-> g[k]] /\ \A k \in X : k <= Len(ts) + 1 => g[k] = Value(g, k)
        BY <2>1
    <2>3. \A k \in X : g[k] = Value(g, k)
        BY <2>2
    <2> HIDE DEF X
    <2>4. [k \in X |-> g[k]] = [k \in X |-> Value(g, k)]
        BY <2>3
    <2> QED
        BY <2>2, <2>4
<1>8. made = [k \in X |-> Value(made, k)]
    BY <1>7
<1> HIDE DEF made
<1>9. \A k \in X : made[k] = Value(made, k)
    <2> HIDE DEF X
    <2> QED
        BY <1>8
<1>10. r + 3 \in X => NewRoute(ts[r + 1]) \in made[r + 3]
    <2> SUFFICES ASSUME r + 3 \in X PROVE NewRoute(ts[r + 1]) \in made[r + 3]
        OBVIOUS
    <2>1. made[r + 3] = Bare
        BY <1>9 DEF Value
    <2> QED
        BY <2>1 DEF Bare
<1>11. ASSUME NEW c \in r + 3 .. Len(ts), NEW d \in c .. Len(ts), NEW x \in made[c],
              IsRouteDirective(ts, c, d)
       PROVE  ApplyRoute(x, ts[c], Arguments(ts, c, d)).block \in made[d + 1]
    <2>1. d + 1 \in X /\ d + 1 # r + 3 /\ (d + 1) - 1 = d /\ c \in r + 3 .. d
        OBVIOUS
    <2>2. c \in Starts(d + 1)
        BY <1>11, <2>1 DEF Starts
    <2>3. made[d + 1] = UNION {Part(made[e], e, d + 1) : e \in Starts(d + 1)}
        BY <1>9, <2>1 DEF Value
    <2>4. ApplyRoute(x, ts[c], Arguments(ts, c, d)).block \in Part(made[c], c, d + 1)
        BY <2>1 DEF Part
    <2> QED
        BY <2>2, <2>3, <2>4
<1> QED
    BY <1>1, <1>10, <1>11 DEF X

(* A server block means a bare server, what its directives make of it, and *)
(* the routes that its route blocks mean.                                  *)
LEMMA ServersMadeLaws ==
    ASSUME NEW ts, Len(ts) \in Nat, NEW a \in Nat
    PROVE  /\ a + 2 \in 1 .. Len(ts) + 1 => NewServer \in ServersMade(ts, a, a + 2)
           /\ \A c \in a + 2 .. Len(ts) : \A d \in c .. Len(ts) :
                 \A s \in ServersMade(ts, a, c) :
                    IsServerDirective(ts, c, d) =>
                       ApplyServer(s, ts[c], Arguments(ts, c, d)).block \in ServersMade(ts, a, d + 1)
           /\ \A c \in a + 2 .. Len(ts) : \A d \in c .. Len(ts) :
                 \A s \in ServersMade(ts, a, c) : \A x \in RoutesMade(ts, c, d) :
                    IsRoute(ts, c, d) =>
                       [s EXCEPT !.routes = Append(@, x)] \in ServersMade(ts, a, d + 1)
<1> DEFINE X == 1 .. Len(ts) + 1
           Part(v, c, k) == {ApplyServer(s, ts[c], Arguments(ts, c, k - 1)).block : s \in v}
           Starts(k) == {c \in a + 2 .. k - 1 : IsServerDirective(ts, c, k - 1)}
           With(s, x) == [s EXCEPT !.routes = Append(@, x)]
           Joined(v, c, k) == {With(s, x) : s \in v, x \in RoutesMade(ts, c, k - 1)}
           Routes(k) == {c \in a + 2 .. k - 1 : IsRoute(ts, c, k - 1)}
           Bare == {NewServer}
           Value(g, k) == IF k = a + 2 THEN Bare
                         ELSE UNION ({Part(g[c], c, k) : c \in Starts(k)}
                                     \cup {Joined(g[c], c, k) : c \in Routes(k)})
           made == CHOOSE g : g = [k \in X |-> Value(g, k)]
           Upto(n) == \E g : g = [k \in X |-> g[k]] /\ \A k \in X : k <= n => g[k] = Value(g, k)
           S == {n \in Nat : Upto(n)}
<1>1. \A i : ServersMade(ts, a, i) = made[i]
    BY DEF ServersMade
<1>2. \A k \in X : \A c \in Starts(k) \cup Routes(k) : c \in X /\ c < k
    OBVIOUS
<1> HIDE DEF Part, Starts, Joined, With, Routes, Bare
<1>3. ASSUME NEW k \in X, NEW g, NEW h, \A c \in X : c < k => g[c] = h[c]
      PROVE  Value(g, k) = Value(h, k)
    <2>1. \A c \in Starts(k) \cup Routes(k) : g[c] = h[c]
        BY <1>2, <1>3
    <2>2. {Part(g[c], c, k) : c \in Starts(k)} = {Part(h[c], c, k) : c \in Starts(k)}
        BY <2>1
    <2>3. {Joined(g[c], c, k) : c \in Routes(k)} = {Joined(h[c], c, k) : c \in Routes(k)}
        BY <2>1
    <2> QED
        BY <2>2, <2>3
<1> HIDE DEF Value
<1>4. 0 \in S
    <2> DEFINE g == [k \in X |-> 0]
    <2>1. g = [k \in X |-> g[k]] /\ \A k \in X : ~(k <= 0)
        OBVIOUS
    <2> QED
        BY <2>1
<1>5. ASSUME NEW n \in Nat, n \in S PROVE n + 1 \in S
    <2>1. PICK g : g = [k \in X |-> g[k]] /\ \A k \in X : k <= n => g[k] = Value(g, k)
        BY <1>5
    <2> DEFINE h == [k \in X |-> IF k = n + 1 THEN Value(g, n + 1) ELSE g[k]]
    <2>2. h = [k \in X |-> h[k]]
        OBVIOUS
    <2>3. \A k \in X : h[k] = IF k = n + 1 THEN Value(g, n + 1) ELSE g[k]
        OBVIOUS
    <2> HIDE DEF h
    <2>4. ASSUME NEW k \in X, k <= n + 1 PROVE h[k] = Value(h, k)
        <3>1. \A c \in X : c < k => g[c] = h[c]
            BY <2>3, <2>4
        <3>2. Value(g, k) = Value(h, k)
            <4> HIDE DEF X
            <4> QED
                BY <1>3, <3>1
        <3>3. k = n + 1 \/ k <= n
            BY <2>4
        <3> QED
            BY <2>1, <2>3, <3>2, <3>3
    <2> QED
        BY <2>2, <2>4
<1>6. \A n \in 0 .. Len(ts) + 1 : n \in S
    <2>1. \A k \in 1 .. Len(ts) + 1 : k - 1 \in S => k \in S
        <3> SUFFICES ASSUME NEW k \in 1 .. Len(ts) + 1, k - 1 \in S PROVE k \in S
            OBVIOUS
        <3>1. k - 1 \in Nat /\ (k - 1) + 1 = k
            OBVIOUS
        <3> HIDE DEF S
        <3> QED
            BY <1>5, <3>1
    <2>2. Len(ts) + 1 \in Nat
        OBVIOUS
    <2> HIDE DEF S
    <2> QED
        BY <1>4, <2>1, <2>2, LoopInduction
<1>7. \E g : g = [k \in X |-> Value(g, k)]
    <2>1. Len(ts) + 1 \in S
        BY <1>6
    <2>2. PICK g : g = [k \in X |-> g[k]] /\ \A k \in X : k <= Len(ts) + 1 => g[k] = Value(g, k)
        BY <2>1
    <2>3. \A k \in X : g[k] = Value(g, k)
        BY <2>2
    <2> HIDE DEF X
    <2>4. [k \in X |-> g[k]] = [k \in X |-> Value(g, k)]
        BY <2>3
    <2> QED
        BY <2>2, <2>4
<1>8. made = [k \in X |-> Value(made, k)]
    BY <1>7
<1> HIDE DEF made
<1>9. \A k \in X : made[k] = Value(made, k)
    <2> HIDE DEF X
    <2> QED
        BY <1>8
<1>10. a + 2 \in X => NewServer \in made[a + 2]
    <2> SUFFICES ASSUME a + 2 \in X PROVE NewServer \in made[a + 2]
        OBVIOUS
    <2>1. made[a + 2] = Bare
        BY <1>9 DEF Value
    <2> QED
        BY <2>1 DEF Bare
<1>11. ASSUME NEW c \in a + 2 .. Len(ts), NEW d \in c .. Len(ts)
       PROVE  /\ d + 1 \in X /\ d + 1 # a + 2 /\ (d + 1) - 1 = d /\ c \in a + 2 .. d
              /\ made[d + 1] = UNION ({Part(made[e], e, d + 1) : e \in Starts(d + 1)}
                                      \cup {Joined(made[e], e, d + 1) : e \in Routes(d + 1)})
    <2>1. d + 1 \in X /\ d + 1 # a + 2 /\ (d + 1) - 1 = d /\ c \in a + 2 .. d
        OBVIOUS
    <2> QED
        BY <1>9, <2>1 DEF Value
<1>12. ASSUME NEW c \in a + 2 .. Len(ts), NEW d \in c .. Len(ts), NEW s \in made[c],
              IsServerDirective(ts, c, d)
       PROVE  ApplyServer(s, ts[c], Arguments(ts, c, d)).block \in made[d + 1]
    <2>1. c \in Starts(d + 1)
        BY <1>11, <1>12 DEF Starts
    <2>2. ApplyServer(s, ts[c], Arguments(ts, c, d)).block \in Part(made[c], c, d + 1)
        BY <1>11 DEF Part
    <2> QED
        BY <1>11, <2>1, <2>2
<1>13. ASSUME NEW c \in a + 2 .. Len(ts), NEW d \in c .. Len(ts), NEW s \in made[c],
              NEW x \in RoutesMade(ts, c, d), IsRoute(ts, c, d)
       PROVE  [s EXCEPT !.routes = Append(@, x)] \in made[d + 1]
    <2>1. c \in Routes(d + 1)
        BY <1>11, <1>13 DEF Routes
    <2>2. [s EXCEPT !.routes = Append(@, x)] \in Joined(made[c], c, d + 1)
        <3>1. With(s, x) \in Joined(made[c], c, d + 1)
            BY <1>11 DEF Joined
        <3> QED
            BY <3>1 DEF With
    <2> QED
        BY <1>11, <2>1, <2>2
<1>14. a + 2 \in 1 .. Len(ts) + 1 => NewServer \in ServersMade(ts, a, a + 2)
    BY <1>1, <1>10 DEF X
<1>15. \A c \in a + 2 .. Len(ts) : \A d \in c .. Len(ts) :
          \A s \in ServersMade(ts, a, c) :
             IsServerDirective(ts, c, d) =>
                ApplyServer(s, ts[c], Arguments(ts, c, d)).block \in ServersMade(ts, a, d + 1)
    BY <1>1, <1>12
<1>16. \A c \in a + 2 .. Len(ts) : \A d \in c .. Len(ts) :
          \A s \in ServersMade(ts, a, c) : \A x \in RoutesMade(ts, c, d) :
             IsRoute(ts, c, d) =>
                [s EXCEPT !.routes = Append(@, x)] \in ServersMade(ts, a, d + 1)
    BY <1>1, <1>13
<1> QED
    BY <1>14, <1>15, <1>16

-----------------------------------------------------------------------------
(***************************************************************************)
(* How many blocks are open.                                               *)
(***************************************************************************)

(* How a token changes the number of open blocks: a brace opens one or     *)
(* closes one, other tokens leave them, and a brace behind `route` does    *)
(* not close the only one.                                                 *)
LEMMA OpenBlocksLaws ==
    ASSUME NEW ts, Len(ts) \in Nat
    PROVE  /\ \A i \in 0 .. Len(ts) : OpenBlocks(ts, i) \in Nat
           /\ \A i \in 1 .. Len(ts) :
                 /\ ts[i] # <<"}">> => OpenBlocks(ts, i) >= OpenBlocks(ts, i - 1)
                 /\ ts[i] = <<"{">> => OpenBlocks(ts, i) = OpenBlocks(ts, i - 1) + 1
                 /\ OpenBlocks(ts, i) >= OpenBlocks(ts, i - 1) - 1
                 /\ i > 1 /\ ts[i - 1] = <<"route">> /\ OpenBlocks(ts, i - 1) >= 1
                       => OpenBlocks(ts, i) >= 1
<1> DEFINE X == 0 .. Len(ts)
           m == [i \in X |-> i]
           Path(i, n) == n = 1 /\ i > 1 /\ ts[i - 1] = <<"route">>
           After(i, n) == CASE ts[i] = <<"{">> -> n + 1
                            [] ts[i] = <<"}">> /\ n > 0 /\ ~Path(i, n) -> n - 1
                            [] OTHER -> n
           val == [i \in X |-> 0]
           next == [i \in X |-> IF i = 0 THEN 0 ELSE i - 1]
           op == [i \in X |-> [n \in Nat |-> After(i, n)]]
           open == CHOOSE g : g = [i \in X |-> IF i = 0 THEN 0 ELSE After(i, g[i - 1])]
<1>1. \A i : OpenBlocks(ts, i) = open[i]
    BY DEF OpenBlocks
<1>2. <<"{">> # <<"}">>
    OBVIOUS
<1> HIDE DEF Path
<1>3. ASSUME NEW i \in X, NEW n \in Nat
      PROVE  /\ After(i, n) \in Nat
             /\ ts[i] # <<"}">> => After(i, n) >= n
             /\ ts[i] = <<"{">> => After(i, n) = n + 1
             /\ After(i, n) >= n - 1
             /\ Path(i, n) => After(i, n) >= n
    <2>1. CASE ts[i] = <<"{">>
        <3>1. After(i, n) = n + 1 /\ ts[i] # <<"}">>
            BY <1>2, <2>1
        <3>2. n + 1 \in Nat /\ n + 1 >= n /\ n + 1 >= n - 1
            OBVIOUS
        <3> HIDE DEF After
        <3> QED
            BY <2>1, <3>1, <3>2
    <2>2. CASE ts[i] # <<"{">> /\ ts[i] = <<"}">> /\ n > 0 /\ ~Path(i, n)
        <3>1. After(i, n) = n - 1
            BY <2>2
        <3>3. n > 0
            BY <2>2
        <3>2. n - 1 \in Nat /\ n - 1 >= n - 1
            BY <3>3
        <3> HIDE DEF After
        <3> QED
            BY <2>2, <3>1, <3>2
    <2>3. CASE ts[i] # <<"{">> /\ ~(ts[i] = <<"}">> /\ n > 0 /\ ~Path(i, n))
        <3>1. After(i, n) = n
            BY <2>3
        <3>2. n >= n /\ n >= n - 1
            OBVIOUS
        <3> HIDE DEF After
        <3> QED
            BY <2>3, <3>1, <3>2
    <2> QED
        BY <2>1, <2>2, <2>3
<1> HIDE DEF After
<1>4. \E g \in [X -> Nat] : g = [i \in X |-> IF i = 0 THEN 0 ELSE After(i, g[i - 1])]
    <2>1. Measures(m, Len(ts) + 1, X)
        <3>1. m \in [X -> Nat] /\ \A i \in X : m[i] < Len(ts) + 1
            OBVIOUS
        <3> QED
            BY <3>1 DEF Measures
    <2>2. val \in [X -> Nat] /\ next \in [X -> X] /\ op \in [X -> [Nat -> Nat]]
        <3>1. val \in [X -> Nat] /\ next \in [X -> X]
            OBVIOUS
        <3>2. \A i \in X, n \in Nat : After(i, n) \in Nat
            BY <1>3
        <3>3. op \in [X -> [Nat -> Nat]]
            BY <3>2
        <3> QED
            BY <3>1, <3>3
    <2>3. \A i \in X : i \notin {0} => m[next[i]] < m[i]
        OBVIOUS
    <2>4. Len(ts) + 1 \in Nat /\ 0 \in Nat
        OBVIOUS
    <2>5. /\ \A i \in X : val[i] = 0 /\ (i # 0 => next[i] = i - 1 /\ i - 1 \in X)
          /\ \A i \in X, n \in Nat : op[i][n] = After(i, n)
        OBVIOUS
    <2> HIDE DEF m, X, val, next, op
    <2>6. PICK g \in [X -> Nat] : Follows(g, X, {0}, val, op, next)
        BY <2>1, <2>2, <2>3, <2>4, ChainRecursion
    <2>7. ASSUME NEW i \in X PROVE g[i] = IF i = 0 THEN 0 ELSE After(i, g[i - 1])
        <3>1. g[i] = IF i \in {0} THEN val[i] ELSE op[i][g[next[i]]]
            BY <2>6 DEF Follows
        <3>2. i # 0 => g[i - 1] \in Nat
            BY <2>5
        <3> QED
            BY <2>5, <3>1, <3>2
    <2> QED
        BY <2>7
<1>5. open = [i \in X |-> IF i = 0 THEN 0 ELSE After(i, open[i - 1])]
    BY <1>4
<1> HIDE DEF open
<1>6. open[0] = 0 /\ \A i \in 1 .. Len(ts) : open[i] = After(i, open[i - 1])
    BY <1>5
<1>7. \A i \in 0 .. Len(ts) : open[i] \in Nat
    <2> DEFINE S == {i \in X : open[i] \in Nat}
    <2>1. 0 \in S
        BY <1>6
    <2>2. ASSUME NEW i \in 1 .. Len(ts), i - 1 \in S PROVE i \in S
        <3>1. i \in X /\ open[i - 1] \in Nat /\ open[i] = After(i, open[i - 1])
            BY <1>6, <2>2
        <3>2. open[i] \in Nat
            BY <1>3, <3>1
        <3> QED
            BY <3>1, <3>2
    <2> HIDE DEF S
    <2>3. \A i \in 0 .. Len(ts) : i \in S
        BY <2>1, <2>2, LoopInduction
    <2> QED
        BY <2>3 DEF S
<1>8. ASSUME NEW i \in 1 .. Len(ts)
      PROVE  /\ ts[i] # <<"}">> => open[i] >= open[i - 1]
             /\ ts[i] = <<"{">> => open[i] = open[i - 1] + 1
             /\ open[i] >= open[i - 1] - 1
             /\ i > 1 /\ ts[i - 1] = <<"route">> /\ open[i - 1] >= 1 => open[i] >= 1
    <2>1. i \in X /\ open[i - 1] \in Nat /\ open[i] \in Nat /\ open[i] = After(i, open[i - 1])
        BY <1>6, <1>7
    <2>2. /\ ts[i] # <<"}">> => open[i] >= open[i - 1]
          /\ ts[i] = <<"{">> => open[i] = open[i - 1] + 1
          /\ open[i] >= open[i - 1] - 1
          /\ Path(i, open[i - 1]) => open[i] >= open[i - 1]
        BY <1>3, <2>1
    <2>3. ASSUME i > 1, ts[i - 1] = <<"route">>, open[i - 1] >= 1 PROVE open[i] >= 1
        <3>1. CASE open[i - 1] = 1
            <4>1. Path(i, open[i - 1])
                BY <2>3, <3>1 DEF Path
            <4> QED
                BY <2>2, <3>1, <4>1
        <3>2. CASE open[i - 1] # 1
            <4>1. open[i - 1] \in Nat /\ open[i] \in Nat
                BY <2>1
            <4>2. open[i] >= open[i - 1] - 1 /\ open[i - 1] >= 1
                BY <2>2, <2>3
            <4> QED
                BY <3>2, <4>1, <4>2
        <3> QED
            BY <3>1, <3>2
    <2> QED
        BY <2>2, <2>3
<1> QED
    BY <1>1, <1>7, <1>8

(* No brace closes anything behind i and up to j.                          *)
NoneCloses(ts, i, j) == \A k \in i + 1 .. j : ts[k] # <<"}">>

(* Then every block stays open.                                            *)
LEMMA StaysOpen ==
    ASSUME NEW ts, Len(ts) \in Nat, NEW i \in 0 .. Len(ts), NEW j \in i .. Len(ts),
           NoneCloses(ts, i, j)
    PROVE  OpenBlocks(ts, j) >= OpenBlocks(ts, i)
<1> DEFINE n == j - i
           S == {k \in 0 .. n : OpenBlocks(ts, i + k) >= OpenBlocks(ts, i)}
<1>0. i \in Nat /\ j \in Nat /\ i <= j /\ j <= Len(ts) /\ i + (j - i) = j
    OBVIOUS
<1>1. n \in Nat /\ \A k \in 0 .. n : i + k \in 0 .. Len(ts)
    BY <1>0
<1>2. \A k \in 0 .. n : OpenBlocks(ts, i + k) \in Nat
    BY <1>1, OpenBlocksLaws
<1>3. 0 \in S
    <2>1. i + 0 = i /\ 0 \in 0 .. n
        BY <1>0, <1>1
    <2>2. OpenBlocks(ts, i) \in Nat
        BY OpenBlocksLaws
    <2> HIDE DEF n
    <2> QED
        BY <2>1, <2>2
<1>4. ASSUME NEW k \in 1 .. n, k - 1 \in S PROVE k \in S
    <2>1. i + k \in i + 1 .. j /\ i + k \in 1 .. Len(ts) /\ (i + k) - 1 = i + (k - 1)
        OBVIOUS
    <2>2. OpenBlocks(ts, i + k) >= OpenBlocks(ts, i + (k - 1))
        BY <2>1, OpenBlocksLaws DEF NoneCloses
    <2>3. OpenBlocks(ts, i + (k - 1)) >= OpenBlocks(ts, i)
        BY <1>4
    <2>4. k \in 0 .. n /\ k - 1 \in 0 .. n
        BY <1>1
    <2>5. OpenBlocks(ts, i + k) \in Nat /\ OpenBlocks(ts, i + (k - 1)) \in Nat
        BY <1>2, <2>4
    <2>6. OpenBlocks(ts, i) \in Nat
        BY OpenBlocksLaws
    <2>7. OpenBlocks(ts, i + k) >= OpenBlocks(ts, i)
        BY <2>2, <2>3, <2>5, <2>6
    <2> QED
        BY <2>4, <2>7
<1>5. n \in S
    <2> HIDE DEF S, n
    <2>1. \A k \in 0 .. n : k \in S
        BY <1>1, <1>3, <1>4, LoopInduction
    <2> QED
        BY <1>1, <2>1
<1> QED
    <2>1. i + n = j
        BY <1>0
    <2> QED
        BY <1>5, <2>1

-----------------------------------------------------------------------------
(***************************************************************************)
(* What is read, and what is left.                                         *)
(***************************************************************************)

(* Where a token is.                                                       *)
Places == 1 .. Len(toks)

(* A server block opens, a route opens, either closes.                     *)
ServerOpens(ts, a) == ts[a] = <<"server">> /\ ts[a + 1] = <<"{">>
RouteOpens(ts, r) == ts[r] = <<"route">> /\ ts[r + 1] \notin Marks /\ ts[r + 2] = <<"{">>
Closes(ts, i) == ts[i] = <<"}">>

(* A server block that opened at a is read up to i, and means s so far.    *)
ServerRead(ts, s, a, i) ==
    /\ a + 2 <= i /\ ServerOpens(ts, a)
    /\ Sequence(a + 2, i - 1, ServerItems(ts))
    /\ s.ports # <<>> => PortIn(ts, a + 2, i - 1)
    /\ s \in ServersMade(ts, a, i)

(* A route that opened at r is read up to i, and means x so far.           *)
RouteRead(ts, x, r, i) ==
    /\ r + 3 <= i /\ RouteOpens(ts, r)
    /\ Sequence(r + 3, i - 1, RouteItems(ts))
    /\ x \in RoutesMade(ts, r, i)

(* The parser is in a block that opened at a, and all it read of it is     *)
(* well formed.                                                            *)
BlockRead(a) ==
    \/ ctx = "server" /\ toks[pos - 1] \in Marks /\ ServerRead(toks, server, a, pos)
    \/ /\ ctx = "route"
       /\ \E r \in Places : ServerRead(toks, server, a, r) /\ RouteRead(toks, route, r, pos)

(* From i on the block of server s, which ends at b, is well formed.       *)
ServerLeft(ts, s, i, b) ==
    /\ i <= b /\ Closes(ts, b)
    /\ Sequence(i, b - 1, ServerItems(ts))
    /\ s.ports # <<>> \/ PortIn(ts, i, b - 1)

(* From i on the route is, and ends at e.                                  *)
RouteLeft(ts, i, e) ==
    /\ i <= e /\ Closes(ts, e)
    /\ Sequence(i, e - 1, RouteItems(ts))

(* The parser is in a block that ends at b, and the rest of it is well     *)
(* formed.                                                                 *)
BlockLeft(b) ==
    \/ ctx = "server" /\ ServerLeft(toks, server, pos, b)
    \/ /\ ctx = "route"
       /\ \E e \in Places : RouteLeft(toks, pos, e) /\ ServerLeft(toks, server, e + 1, b)

(* All that is read is well formed.                                        *)
WellRead ==
    /\ ctx \in {"top", "done"} => Sequence(1, pos - 1, Servers(toks))
    /\ ctx \in {"server", "route"} =>
          \E a \in Places : Sequence(1, a - 1, Servers(toks)) /\ BlockRead(a)

(* All that is left is well formed.                                        *)
WellLeft ==
    /\ ctx = "top" => Sequence(pos, Len(toks), Servers(toks))
    /\ ctx \in {"server", "route"} =>
          \E b \in Places : BlockLeft(b) /\ Sequence(b + 1, Len(toks), Servers(toks))

(* As long as nothing is reported, the tokens read so far are cut as the   *)
(* grammar wants it; and if the grammar cuts the whole file, nothing is    *)
(* reported and the cut goes on from the position.                         *)
Descent ==
    /\ errors = {} => WellRead
    /\ Sequence(1, Len(toks), Servers(toks)) => errors = {} /\ WellLeft

(* Errors are behind the position, or at the end of the file, where the    *)
(* parser stops and not before.                                            *)
ErrorsBehind == \A e \in errors : e < pos \/ e > Len(toks)
DoneAtEnd == ctx = "done" => pos = Len(toks) + 1

(* The parser is in no more blocks than are open.                          *)
Level == IF ctx = "route" THEN 2 ELSE IF ctx = "server" THEN 1 ELSE 0
Depth == OpenBlocks(toks, pos - 1) >= Level

(* A well-formed block outside every other is ahead of the parser, or the  *)
(* parser is in it and read it without a complaint, or it yielded a        *)
(* server.                                                                 *)
Stands(a, b) ==
    \/ pos <= a
    \/ BlockRead(a) /\ BlockLeft(b)
    \/ pos > b /\ ToSet(servers) \cap ServersMade(toks, a, b) # {}
Standing ==
    \A a, b \in Places :
        IsServer(toks, a, b) /\ OpenBlocks(toks, a - 1) = 0 => Stands(a, b)

(* What holds of every state of the descent.                               *)
DInv == Descent /\ ErrorsBehind /\ DoneAtEnd /\ Depth /\ Standing

(* No tokens are cut into no items.                                        *)
LEMMA SequenceNone ==
    ASSUME NEW i \in Nat \ {0}, NEW j, j = i - 1, NEW items
    PROVE  Sequence(i, j, items)
<1>1. j \in Nat /\ j + 1 = i
    OBVIOUS
<1> QED
    BY <1>1, SequenceFrom

(* Some tokens are cut into an item and the rest.                          *)
LEMMA SequenceSome ==
    ASSUME NEW i \in Nat \ {0}, NEW j \in Nat, i <= j, NEW items, Sequence(i, j, items)
    PROVE  \E b \in i .. j : <<i, b>> \in items /\ Sequence(b + 1, j, items)
<1>1. i \in 1 .. j
    OBVIOUS
<1> QED
    BY <1>1, SequenceFrom

(* An item joins the tokens before it.                                     *)
LEMMA SequenceJoined ==
    ASSUME NEW a \in Nat \ {0}, NEW i \in 1 .. a, NEW b \in Nat, a <= b, NEW items,
           <<a, b>> \in items, NEW k, k = a - 1, Sequence(i, k, items)
    PROVE  Sequence(i, b, items)
<1>1. k \in Nat /\ k + 1 = a /\ k < b /\ i \in 1 .. k + 1
    OBVIOUS
<1>2. <<k + 1, b>> \in items
    BY <1>1
<1> QED
    BY <1>1, <1>2, SequenceMore

(* A port directive that is in some tokens is in more of them.             *)
LEMMA PortStays ==
    ASSUME NEW a \in Nat, NEW b \in Int, NEW e \in Int, b <= e, PortIn(toks, a, b)
    PROVE  PortIn(toks, a, e)
<1>1. \A c \in a .. b : c \in a .. e
    OBVIOUS
<1> QED
    BY <1>1 DEF PortIn

(* read_directive and the block's directives accept exactly the items of   *)
(* the block.                                                              *)
LEMMA ServerItemRead ==
    ASSUME toks \in Seq(Text), pos \in 1 .. Len(toks), IsWord(pos), toks[pos] # <<"route">>,
           NEW result, result = ApplyServer(server, ReadDirective.name, ReadDirective.args)
    PROVE  /\ ~(ReadDirective.bad \/ result.bad) =>
                 \E d \in pos + 1 .. Len(toks) :
                    /\ <<pos, d>> \in ServerItems(toks) /\ IsServerDirective(toks, pos, d)
                    /\ ReadDirective.args = Arguments(toks, pos, d) /\ ReadDirective.next = d + 1
           /\ \A d \in pos .. Len(toks) : <<pos, d>> \in ServerItems(toks) =>
                    /\ ~(ReadDirective.bad \/ result.bad)
                    /\ IsServerDirective(toks, pos, d) /\ ReadDirective.next = d + 1
<1>1. Len(toks) \in Nat /\ pos \in Nat /\ pos \in 1 .. Len(toks) + 1
    BY LenProperties
<1>2. /\ ReadDirective.name = toks[pos]
      /\ ~ReadDirective.bad =>
            \E d \in pos + 1 .. Len(toks) :
               /\ IsDirective(toks, pos, d)
               /\ ReadDirective.args = Arguments(toks, pos, d) /\ ReadDirective.next = d + 1
      /\ \A d \in pos .. Len(toks) : IsDirective(toks, pos, d) =>
               /\ ~ReadDirective.bad
               /\ ReadDirective.args = Arguments(toks, pos, d) /\ ReadDirective.next = d + 1
    BY <1>1, DirectiveRead
<1>3. \A d : ReadDirective.args = Arguments(toks, pos, d) =>
               result.bad = ApplyServer(NewServer, toks[pos], Arguments(toks, pos, d)).bad
    BY <1>2, BadAlike
<1>4. \A d \in pos .. Len(toks) :
         /\ d \in Nat
         /\ <<pos, d>> \in ServerItems(toks) <=> IsServerDirective(toks, pos, d) \/ IsRoute(toks, pos, d)
    <2> SUFFICES ASSUME NEW d \in pos .. Len(toks)
                 PROVE  /\ d \in Nat
                        /\ <<pos, d>> \in ServerItems(toks) <=> IsServerDirective(toks, pos, d) \/ IsRoute(toks, pos, d)
        OBVIOUS
    <2>1. d \in Nat
        BY <1>1
    <2> QED
        BY <1>1, <2>1, Items
<1>5. \A d : ~IsRoute(toks, pos, d)
    BY DEF IsRoute
<1>6. ASSUME ~(ReadDirective.bad \/ result.bad)
      PROVE  \E d \in pos + 1 .. Len(toks) :
                /\ <<pos, d>> \in ServerItems(toks) /\ IsServerDirective(toks, pos, d)
                /\ ReadDirective.args = Arguments(toks, pos, d) /\ ReadDirective.next = d + 1
    <2>1. PICK d \in pos + 1 .. Len(toks) :
               /\ IsDirective(toks, pos, d)
               /\ ReadDirective.args = Arguments(toks, pos, d) /\ ReadDirective.next = d + 1
        BY <1>2, <1>6
    <2>2. IsServerDirective(toks, pos, d)
        BY <1>3, <1>6, <2>1 DEF IsServerDirective
    <2>3. d \in pos .. Len(toks)
        BY <1>1
    <2> QED
        BY <1>4, <2>1, <2>2, <2>3
<1>7. ASSUME NEW d \in pos .. Len(toks), <<pos, d>> \in ServerItems(toks)
      PROVE  /\ ~(ReadDirective.bad \/ result.bad)
             /\ IsServerDirective(toks, pos, d) /\ ReadDirective.next = d + 1
    <2>1. IsServerDirective(toks, pos, d)
        BY <1>4, <1>5, <1>7
    <2>2. IsDirective(toks, pos, d) /\ ~ApplyServer(NewServer, toks[pos], Arguments(toks, pos, d)).bad
        BY <2>1 DEF IsServerDirective
    <2> QED
        BY <1>2, <1>3, <2>1, <2>2
<1> QED
    BY <1>6, <1>7

(* The same in a route.                                                    *)
LEMMA RouteItemRead ==
    ASSUME toks \in Seq(Text), pos \in 1 .. Len(toks), IsWord(pos),
           NEW result, result = ApplyRoute(route, ReadDirective.name, ReadDirective.args)
    PROVE  /\ ~(ReadDirective.bad \/ result.bad) =>
                 \E d \in pos + 1 .. Len(toks) :
                    /\ <<pos, d>> \in RouteItems(toks) /\ IsRouteDirective(toks, pos, d)
                    /\ ReadDirective.args = Arguments(toks, pos, d) /\ ReadDirective.next = d + 1
           /\ \A d \in pos .. Len(toks) : <<pos, d>> \in RouteItems(toks) =>
                    ~(ReadDirective.bad \/ result.bad) /\ ReadDirective.next = d + 1
<1>1. Len(toks) \in Nat /\ pos \in Nat /\ pos \in 1 .. Len(toks) + 1
    BY LenProperties
<1>2. /\ ReadDirective.name = toks[pos]
      /\ ~ReadDirective.bad =>
            \E d \in pos + 1 .. Len(toks) :
               /\ IsDirective(toks, pos, d)
               /\ ReadDirective.args = Arguments(toks, pos, d) /\ ReadDirective.next = d + 1
      /\ \A d \in pos .. Len(toks) : IsDirective(toks, pos, d) =>
               /\ ~ReadDirective.bad
               /\ ReadDirective.args = Arguments(toks, pos, d) /\ ReadDirective.next = d + 1
    BY <1>1, DirectiveRead
<1>3. \A d : ReadDirective.args = Arguments(toks, pos, d) =>
               result.bad = ApplyRoute(NewRoute(<<>>), toks[pos], Arguments(toks, pos, d)).bad
    BY <1>2, BadAlike
<1>4. \A d \in pos .. Len(toks) :
         d \in Nat /\ (<<pos, d>> \in RouteItems(toks) <=> IsRouteDirective(toks, pos, d))
    <2> SUFFICES ASSUME NEW d \in pos .. Len(toks)
                 PROVE  d \in Nat /\ (<<pos, d>> \in RouteItems(toks) <=> IsRouteDirective(toks, pos, d))
        OBVIOUS
    <2>1. d \in Nat
        BY <1>1
    <2> QED
        BY <1>1, <2>1, Items
<1>6. ASSUME ~(ReadDirective.bad \/ result.bad)
      PROVE  \E d \in pos + 1 .. Len(toks) :
                /\ <<pos, d>> \in RouteItems(toks) /\ IsRouteDirective(toks, pos, d)
                /\ ReadDirective.args = Arguments(toks, pos, d) /\ ReadDirective.next = d + 1
    <2>1. PICK d \in pos + 1 .. Len(toks) :
               /\ IsDirective(toks, pos, d)
               /\ ReadDirective.args = Arguments(toks, pos, d) /\ ReadDirective.next = d + 1
        BY <1>2, <1>6
    <2>2. IsRouteDirective(toks, pos, d)
        BY <1>3, <1>6, <2>1 DEF IsRouteDirective
    <2>3. d \in pos .. Len(toks)
        BY <1>1
    <2> QED
        BY <1>4, <2>1, <2>2, <2>3
<1>7. ASSUME NEW d \in pos .. Len(toks), <<pos, d>> \in RouteItems(toks)
      PROVE  ~(ReadDirective.bad \/ result.bad) /\ ReadDirective.next = d + 1
    <2>1. IsDirective(toks, pos, d) /\ ~ApplyRoute(NewRoute(<<>>), toks[pos], Arguments(toks, pos, d)).bad
        BY <1>4, <1>7 DEF IsRouteDirective
    <2> QED
        BY <1>2, <1>3, <2>1
<1> QED
    BY <1>6, <1>7

(* An item of a block begins with a word.                                  *)
LEMMA ItemBegins ==
    ASSUME Len(toks) \in Nat, NEW a \in Nat, NEW b \in Nat
    PROVE  /\ <<a, b>> \in ServerItems(toks) => toks[a] \notin Marks
           /\ <<a, b>> \in RouteItems(toks) => toks[a] \notin Marks
<1>1. ASSUME <<a, b>> \in ServerItems(toks) PROVE toks[a] \notin Marks
    <2>1. IsServerDirective(toks, a, b) \/ IsRoute(toks, a, b)
        BY <1>1, Items
    <2>2. IsServerDirective(toks, a, b) => toks[a] \notin Marks
        BY DirectiveWords DEF IsServerDirective
    <2>3. IsRoute(toks, a, b) => toks[a] \notin Marks
        BY Apart DEF IsRoute
    <2> QED
        BY <2>1, <2>2, <2>3
<1>2. ASSUME <<a, b>> \in RouteItems(toks) PROVE toks[a] \notin Marks
    <2>1. IsRouteDirective(toks, a, b)
        BY <1>2, Items
    <2> QED
        BY <2>1, DirectiveWords DEF IsRouteDirective
<1> QED
    BY <1>1, <1>2

(* A port directive in a server block is its first item or behind it: no   *)
(* argument, and no directive of a route, is one.                          *)
LEMMA PortAfter ==
    ASSUME Len(toks) \in Nat, NEW a \in Nat \ {0}, NEW e \in Nat, <<a, e>> \in ServerItems(toks),
           NEW h \in Int, PortIn(toks, a, h), toks[a] \notin PortNames
    PROVE  PortIn(toks, e + 1, h)
<1>1. a \in Nat /\ 1 <= a /\ a <= e
    BY Items
<1>2. PICK c \in a .. h, d \in a .. h :
         toks[c - 1] \in Marks /\ toks[c] \in PortNames /\ IsServerDirective(toks, c, d)
    BY DEF PortIn, Marks, PortNames
<1>3. c \in Nat /\ d \in Nat /\ c < d /\ c # a /\ a <= c
    <2>1. IsDirective(toks, c, d)
        BY <1>2 DEF IsServerDirective
    <2>2. d > c
        BY <2>1 DEF IsDirective
    <2>3. c # a
        BY <1>2
    <2>4. c \in a .. h /\ d \in a .. h
        OBVIOUS
    <2> QED
        BY <1>1, <2>2, <2>3, <2>4
<1>4. CASE c > e
    <2>1. c \in e + 1 .. h /\ d \in e + 1 .. h
        BY <1>3, <1>4
    <2> QED
        BY <1>2, <2>1 DEF PortIn, Marks, PortNames
<1>5. CASE c <= e
    <2>1. CASE IsServerDirective(toks, a, e)
        <3>1. c \in a + 1 .. e
            BY <1>1, <1>3, <1>5
        <3>2. IsDirective(toks, a, e)
            BY <2>1 DEF IsServerDirective
        <3> QED
            BY <1>1, <1>2, <3>1, <3>2, DirectiveWords
    <2>2. CASE IsRoute(toks, a, e)
        <3>1. /\ a + 3 <= e /\ toks[a] \notin Marks /\ toks[a + 1] \notin Marks
              /\ toks[e] \in Marks /\ Sequence(a + 3, e - 1, RouteItems(toks))
            BY <2>2, Apart DEF IsRoute
        <3>2. c # e
            BY <1>2, <3>1, Apart
        <3>3. c - 1 # a /\ c - 1 # a + 1
            BY <1>2, <3>1
        <3>4. /\ a + 3 \in Nat \ {0} /\ e - 1 \in Nat /\ c \in a + 3 .. e - 1
            <4>1. a + 3 <= e
                BY <3>1
            <4> QED
                BY <1>1, <1>3, <1>5, <3>2, <3>3, <4>1
        <3>5. PICK x \in Nat : <<c, x>> \in RouteItems(toks)
            BY <1>2, <3>1, <3>4, Aligned
        <3>6. ~ApplyRoute(NewRoute(<<>>), toks[c], Arguments(toks, c, x)).bad
            BY <1>3, <3>5, Items DEF IsRouteDirective
        <3>7. ApplyRoute(NewRoute(<<>>), toks[c], Arguments(toks, c, x)).bad
            BY <1>2 DEF ApplyRoute, Bad, PortNames
        <3> QED
            BY <3>6, <3>7
    <2> QED
        BY <1>1, <2>1, <2>2, Items
<1> QED
    BY <1>1, <1>3, <1>4, <1>5

-----------------------------------------------------------------------------
(***************************************************************************)
(* Reading on in a block.                                                  *)
(***************************************************************************)

(* Behind its brace a server block is bare.                                *)
LEMMA BlockBegins ==
    ASSUME Len(toks) \in Nat, NEW a \in Nat \ {0}, a + 1 <= Len(toks),
           ServerOpens(toks, a)
    PROVE  ServerRead(toks, NewServer, a, a + 2)
<1>1. Sequence(a + 2, (a + 2) - 1, ServerItems(toks))
    <2>1. a + 2 \in Nat \ {0}
        OBVIOUS
    <2> QED
        BY <2>1, SequenceNone
<1>2. NewServer \in ServersMade(toks, a, a + 2)
    <2>1. a + 2 \in 1 .. Len(toks) + 1 /\ a \in Nat
        <3>1. a + 1 <= Len(toks)
            OBVIOUS
        <3> QED
            BY <3>1
    <2> QED
        BY <2>1, ServersMadeLaws
<1>3. NewServer.ports = <<>>
    BY DEF NewServer
<1>4. a + 2 <= a + 2
    OBVIOUS
<1> QED
    BY <1>1, <1>2, <1>3, <1>4 DEF ServerRead

(* Behind its brace a route is bare.                                       *)
LEMMA RouteBegins ==
    ASSUME Len(toks) \in Nat, NEW r \in Nat \ {0}, r + 2 <= Len(toks),
           RouteOpens(toks, r)
    PROVE  RouteRead(toks, NewRoute(toks[r + 1]), r, r + 3)
<1>1. Sequence(r + 3, (r + 3) - 1, RouteItems(toks))
    <2>1. r + 3 \in Nat \ {0}
        OBVIOUS
    <2> QED
        BY <2>1, SequenceNone
<1>2. NewRoute(toks[r + 1]) \in RoutesMade(toks, r, r + 3)
    <2>1. r + 3 \in 1 .. Len(toks) + 1 /\ r \in Nat
        <3>1. r + 2 <= Len(toks)
            OBVIOUS
        <3> QED
            BY <3>1
    <2> QED
        BY <2>1, RoutesMadeLaws
<1>4. r + 3 <= r + 3
    OBVIOUS
<1> QED
    BY <1>1, <1>2, <1>4 DEF RouteRead

(* A directive of a server block is read, and done.                        *)
LEMMA ServerReadOn ==
    ASSUME Len(toks) \in Nat, NEW s, Shaped(s), NEW a \in Nat \ {0}, NEW c \in 1 .. Len(toks),
           NEW d \in c .. Len(toks), IsServerDirective(toks, c, d), toks[c - 1] \in Marks,
           NEW args \in Seq(Text), args = Arguments(toks, c, d), ServerRead(toks, s, a, c),
           NEW t, t = ApplyServer(s, toks[c], args)
    PROVE  ServerRead(toks, t.block, a, d + 1) /\ toks[d] \in Marks
<1>0. /\ a \in Nat \ {0} /\ c \in Nat /\ d \in Nat /\ 1 <= c /\ c <= d /\ d <= Len(toks)
      /\ c \in 1 .. d /\ (d + 1) - 1 = d
    <2>1. c \in 1 .. Len(toks) /\ d \in c .. Len(toks) /\ Len(toks) \in Nat
        OBVIOUS
    <2> QED
        BY <2>1
<1>1. a + 2 <= c
    BY DEF ServerRead
<1>2. ServerOpens(toks, a)
    BY DEF ServerRead
<1>3. Sequence(a + 2, d, ServerItems(toks))
    <2>1. <<c, d>> \in ServerItems(toks)
        <3>1. c \in 1 .. Len(toks) /\ d \in c .. Len(toks) /\ c \in Nat /\ d \in Nat
            BY <1>0
        <3> QED
            BY <3>1, Items
    <2>2. Sequence(a + 2, c - 1, ServerItems(toks))
        BY DEF ServerRead
    <2>3. a + 2 \in 1 .. c /\ c \in Nat \ {0}
        BY <1>0, <1>1
    <2> QED
        BY <1>0, <2>1, <2>2, <2>3, SequenceJoined
<1>4. ASSUME t.block.ports # <<>> PROVE PortIn(toks, a + 2, d)
    <2>1. a + 2 \in Nat /\ c - 1 \in Int /\ c - 1 <= d
        BY <1>0
    <2>2. CASE s.ports # <<>>
        <3>1. PortIn(toks, a + 2, c - 1)
            BY <2>2 DEF ServerRead
        <3> QED
            BY <1>0, <2>1, <3>1, PortStays
    <2>3. CASE s.ports = <<>>
        <3>1. toks[c] \in PortNames
            BY <1>4, <2>3, PortsGiven
        <3>2. c \in a + 2 .. d /\ d \in a + 2 .. d
            BY <1>0, <1>1
        <3> QED
            BY <3>1, <3>2 DEF PortIn, PortNames
    <2> QED
        BY <2>2, <2>3
<1>5. t.block \in ServersMade(toks, a, d + 1)
    <2>1. s \in ServersMade(toks, a, c)
        BY DEF ServerRead
    <2>2. c \in a + 2 .. Len(toks) /\ a \in Nat
        BY <1>0, <1>1
    <2> QED
        BY <2>1, <2>2, ServersMadeLaws
<1>6. toks[d] \in Marks
    <2>1. IsDirective(toks, c, d)
        BY DEF IsServerDirective
    <2> QED
        BY <2>1, Apart DEF IsDirective
<1>7. a + 2 <= d + 1
    BY <1>0, <1>1
<1> QED
    BY <1>0, <1>2, <1>3, <1>4, <1>5, <1>6, <1>7 DEF ServerRead

(* A directive of a route is read, and done.                               *)
LEMMA RouteReadOn ==
    ASSUME Len(toks) \in Nat, NEW x, NEW r \in Nat \ {0}, NEW c \in 1 .. Len(toks),
           NEW d \in c .. Len(toks), IsRouteDirective(toks, c, d), RouteRead(toks, x, r, c)
    PROVE  RouteRead(toks, ApplyRoute(x, toks[c], Arguments(toks, c, d)).block, r, d + 1)
<1>0. /\ r \in Nat \ {0} /\ c \in Nat /\ d \in Nat /\ 1 <= c /\ c <= d /\ d <= Len(toks)
      /\ c \in 1 .. d /\ (d + 1) - 1 = d
    <2>1. c \in 1 .. Len(toks) /\ d \in c .. Len(toks) /\ Len(toks) \in Nat
        OBVIOUS
    <2> QED
        BY <2>1
<1>1. r + 3 <= c
    BY DEF RouteRead
<1>2. RouteOpens(toks, r)
    BY DEF RouteRead
<1>3. Sequence(r + 3, d, RouteItems(toks))
    <2>1. <<c, d>> \in RouteItems(toks)
        <3>1. c \in 1 .. Len(toks) /\ d \in c .. Len(toks) /\ c \in Nat /\ d \in Nat
            BY <1>0
        <3> QED
            BY <3>1, Items
    <2>2. Sequence(r + 3, c - 1, RouteItems(toks))
        BY DEF RouteRead
    <2>3. r + 3 \in 1 .. c /\ c \in Nat \ {0}
        BY <1>0, <1>1
    <2> QED
        BY <1>0, <2>1, <2>2, <2>3, SequenceJoined
<1>4. ApplyRoute(x, toks[c], Arguments(toks, c, d)).block \in RoutesMade(toks, r, d + 1)
    <2>1. x \in RoutesMade(toks, r, c)
        BY DEF RouteRead
    <2>2. c \in r + 3 .. Len(toks) /\ r \in Nat
        BY <1>0, <1>1
    <2> QED
        BY <2>1, <2>2, RoutesMadeLaws
<1>5. r + 3 <= d + 1
    BY <1>0, <1>1
<1> QED
    BY <1>0, <1>2, <1>3, <1>4, <1>5 DEF RouteRead

(* A route that is closed joins the server block.                          *)
LEMMA RouteJoins ==
    ASSUME Len(toks) \in Nat, NEW s, Shaped(s), NEW x, NEW a \in Nat \ {0}, NEW r \in Nat \ {0},
           NEW i \in Nat, i <= Len(toks), ServerRead(toks, s, a, r), RouteRead(toks, x, r, i),
           Closes(toks, i)
    PROVE  ServerRead(toks, [s EXCEPT !.routes = Append(@, x)], a, i + 1)
<1>1. a + 2 <= r /\ r + 3 <= i
    BY DEF ServerRead, RouteRead
<1>n. i <= Len(toks) /\ Len(toks) \in Nat
    OBVIOUS
<1>0. /\ r \in 1 .. Len(toks) /\ i \in r .. Len(toks) /\ r \in 1 .. i /\ (i + 1) - 1 = i
      /\ a + 2 \in 1 .. r /\ r <= i /\ a + 2 <= i + 1
    BY <1>n, <1>1
<1>2. ServerOpens(toks, a)
    BY DEF ServerRead
<1>3. IsRoute(toks, r, i)
    <2>1. i >= r + 3
        BY <1>1
    <2> QED
        BY <2>1 DEF RouteRead, RouteOpens, Closes, IsRoute
<1>4. Sequence(a + 2, i, ServerItems(toks))
    <2>1. <<r, i>> \in ServerItems(toks)
        <3>1. r \in Nat /\ i \in Nat
            OBVIOUS
        <3> QED
            BY <1>0, <1>3, <3>1, Items
    <2>2. Sequence(a + 2, r - 1, ServerItems(toks))
        BY DEF ServerRead
    <2> QED
        BY <1>0, <2>1, <2>2, SequenceJoined
<1> DEFINE t == [s EXCEPT !.routes = Append(@, x)]
<1>5. t.ports = s.ports
    BY DEF Shaped
<1>6. t \in ServersMade(toks, a, i + 1)
    <2>1. s \in ServersMade(toks, a, r) /\ x \in RoutesMade(toks, r, i)
        BY DEF ServerRead, RouteRead
    <2>2. r \in a + 2 .. Len(toks) /\ a \in Nat
        BY <1>0, <1>1
    <2> QED
        BY <1>0, <1>3, <2>1, <2>2, ServersMadeLaws
<1> HIDE DEF t
<1>7. ASSUME t.ports # <<>> PROVE PortIn(toks, a + 2, i)
    <2>1. PortIn(toks, a + 2, r - 1)
        BY <1>5, <1>7 DEF ServerRead
    <2>2. a + 2 \in Nat /\ r - 1 \in Int /\ i \in Int /\ r - 1 <= i
        BY <1>0
    <2> QED
        BY <2>1, <2>2, PortStays
<1>8. ServerRead(toks, t, a, i + 1)
    BY <1>0, <1>2, <1>4, <1>6, <1>7 DEF ServerRead
<1> QED
    BY <1>8 DEF t

(* What is read of a server block with a port, up to its brace, is one.    *)
LEMMA ServerWhole ==
    ASSUME NEW s, NEW a \in Nat, NEW i \in Nat, ServerRead(toks, s, a, i), Closes(toks, i), s.ports # <<>>
    PROVE  IsServer(toks, a, i)
<1>1. i >= a + 2
    <2>1. a + 2 <= i
        BY DEF ServerRead
    <2> QED
        BY <2>1
<1> QED
    BY <1>1 DEF ServerRead, ServerOpens, Closes, IsServer

-----------------------------------------------------------------------------
(***************************************************************************)
(* What is left after that.                                                *)
(***************************************************************************)

(* Unless the block is at its brace, an item comes next.                   *)
LEMMA NextServerItem ==
    ASSUME Len(toks) \in Nat, NEW s, NEW i \in Nat \ {0}, NEW b \in Places,
           ServerLeft(toks, s, i, b), ~Closes(toks, i)
    PROVE  /\ i <= Len(toks)
           /\ \E e \in i .. Len(toks) :
                 /\ <<i, e>> \in ServerItems(toks) /\ e + 1 <= b
                 /\ Sequence(e + 1, b - 1, ServerItems(toks))
<1>1. i <= b /\ Closes(toks, b) /\ Sequence(i, b - 1, ServerItems(toks))
    BY DEF ServerLeft
<1>2. b \in Nat /\ b <= Len(toks) /\ i # b
    BY <1>1 DEF Places
<1>3. i <= b - 1 /\ b - 1 \in Nat
    BY <1>1, <1>2
<1>4. PICK e \in i .. b - 1 : <<i, e>> \in ServerItems(toks) /\ Sequence(e + 1, b - 1, ServerItems(toks))
    BY <1>1, <1>3, SequenceSome
<1>5. e \in i .. Len(toks) /\ e + 1 <= b /\ i <= Len(toks)
    BY <1>2, <1>3
<1> QED
    BY <1>4, <1>5

(* The same in a route.                                                    *)
LEMMA NextRouteItem ==
    ASSUME Len(toks) \in Nat, NEW i \in Nat \ {0}, NEW f \in Places,
           RouteLeft(toks, i, f), ~Closes(toks, i)
    PROVE  /\ i <= Len(toks)
           /\ \E e \in i .. Len(toks) :
                 <<i, e>> \in RouteItems(toks) /\ RouteLeft(toks, e + 1, f)
<1>1. i <= f /\ Closes(toks, f) /\ Sequence(i, f - 1, RouteItems(toks))
    BY DEF RouteLeft
<1>2. f \in Nat /\ f <= Len(toks) /\ i # f
    BY <1>1 DEF Places
<1>3. i <= f - 1 /\ f - 1 \in Nat
    BY <1>1, <1>2
<1>4. PICK e \in i .. f - 1 : <<i, e>> \in RouteItems(toks) /\ Sequence(e + 1, f - 1, RouteItems(toks))
    BY <1>1, <1>3, SequenceSome
<1>5. e \in i .. Len(toks) /\ e + 1 <= f /\ i <= Len(toks)
    BY <1>2, <1>3
<1> QED
    BY <1>1, <1>4, <1>5 DEF RouteLeft

(* At a brace the block ends, and it has a port.                           *)
LEMMA ServerEnds ==
    ASSUME Len(toks) \in Nat, NEW s, NEW i \in Nat \ {0}, NEW b \in Places,
           ServerLeft(toks, s, i, b), Closes(toks, i)
    PROVE  i = b /\ s.ports # <<>>
<1>1. i <= b /\ b \in Nat
    BY DEF ServerLeft, Places
<1>2. i = b
    <2> SUFFICES ASSUME i # b PROVE FALSE
        OBVIOUS
    <2>1. i <= b - 1 /\ b - 1 \in Nat
        BY <1>1
    <2>2. Sequence(i, b - 1, ServerItems(toks))
        BY DEF ServerLeft
    <2>3. PICK e \in i .. b - 1 : <<i, e>> \in ServerItems(toks)
        BY <2>1, <2>2, SequenceSome
    <2>4. e \in Nat
        BY <2>1
    <2>5. toks[i] \notin Marks
        BY <2>3, <2>4, ItemBegins
    <2> QED
        BY <2>5, Apart DEF Closes
<1>3. i .. b - 1 = {}
    BY <1>1, <1>2
<1>4. ~PortIn(toks, i, b - 1)
    BY <1>3 DEF PortIn
<1> QED
    BY <1>2, <1>4 DEF ServerLeft

(* At a brace the route ends.                                              *)
LEMMA RouteEnds ==
    ASSUME Len(toks) \in Nat, NEW i \in Nat \ {0}, NEW f \in Places,
           RouteLeft(toks, i, f), Closes(toks, i)
    PROVE  i = f
<1>1. i <= f /\ f \in Nat
    BY DEF RouteLeft, Places
<1> SUFFICES ASSUME i # f PROVE FALSE
    OBVIOUS
<1>2. i <= f - 1 /\ f - 1 \in Nat
    BY <1>1
<1>3. Sequence(i, f - 1, RouteItems(toks))
    BY DEF RouteLeft
<1>4. PICK e \in i .. f - 1 : <<i, e>> \in RouteItems(toks)
    BY <1>2, <1>3, SequenceSome
<1>5. e \in Nat
    BY <1>2
<1>6. toks[i] \notin Marks
    BY <1>4, <1>5, ItemBegins
<1> QED
    BY <1>6, Apart DEF Closes

(* Behind an item the rest of a block is left, and the port to come if the *)
(* item gave none.                                                         *)
LEMMA ServerLeftOn ==
    ASSUME Len(toks) \in Nat, NEW s, NEW t, NEW i \in Nat \ {0}, NEW b \in Places, NEW e \in Nat,
           ServerLeft(toks, s, i, b), <<i, e>> \in ServerItems(toks), e + 1 <= b,
           Sequence(e + 1, b - 1, ServerItems(toks)),
           s.ports # <<>> \/ toks[i] \in PortNames => t.ports # <<>>
    PROVE  ServerLeft(toks, t, e + 1, b)
<1>1. t.ports # <<>> \/ PortIn(toks, e + 1, b - 1)
    <2>1. CASE s.ports # <<>> \/ toks[i] \in PortNames
        BY <2>1
    <2>2. CASE PortIn(toks, i, b - 1) /\ toks[i] \notin PortNames
        <3>1. b - 1 \in Int
            BY DEF Places
        <3> QED
            BY <2>2, <3>1, PortAfter
    <2> QED
        BY <2>1, <2>2 DEF ServerLeft
<1> QED
    BY <1>1 DEF ServerLeft

-----------------------------------------------------------------------------
(***************************************************************************)
(* A turn of the parser in a block.                                        *)
(***************************************************************************)

(* The block that opened at a ends here, and its server is kept.           *)
Yields(a) ==
    /\ ctx' = "top" /\ pos <= Len(toks) /\ pos' = pos + 1
    /\ IsServer(toks, a, pos) /\ server \in ServersMade(toks, a, pos)
    /\ servers' = Append(servers, server)

(* The first turn in a server block finds it bare.                         *)
LEMMA BlockOpens ==
    ASSUME IInv, OpenServer, ServerOpens(toks, pos), pos + 1 <= Len(toks), NEW p, p = pos
    PROVE  /\ p \in Places /\ BlockRead(p)'
           /\ pos' = pos + 2 /\ ctx' = "server" /\ server' = NewServer /\ errors' = errors
<1>0. IsTok(pos + 1, <<"{">>)
    BY DEF IsTok, ServerOpens
<1>1. ctx' = "server" /\ server' = NewServer /\ errors' = errors /\ toks' = toks
    BY <1>0 DEF OpenServer, Report
<1>2. pos' = pos + 2
    BY <1>0 DEF OpenServer
<1>3. p + 1 <= Len(toks) /\ ServerOpens(toks, p)
    OBVIOUS
<1>t. toks \in Seq(Text) /\ pos \in 1 .. Len(toks) + 1
    BY DEF IInv
<1>l. Len(toks) \in Nat
    BY <1>t, LenProperties
<1>4. Len(toks) \in Nat /\ pos \in Nat /\ 1 <= pos
    BY <1>t, <1>l
<1>5. p \in Places /\ p \in Nat \ {0} /\ pos' = p + 2 /\ pos' - 1 = p + 1
    BY <1>2, <1>3, <1>4 DEF Places
<1>6. ServerRead(toks, NewServer, p, p + 2)
    BY <1>3, <1>4, <1>5, BlockBegins
<1>7. toks[p + 1] \in Marks
    BY <1>3, Apart DEF ServerOpens
<1>8. BlockRead(p)'
    BY <1>1, <1>5, <1>6, <1>7 DEF BlockRead
<1> QED
    BY <1>1, <1>2, <1>5, <1>8

(* What is read of a block stays well formed as long as nothing is         *)
(* reported, up to its end.                                                *)
LEMMA BlockReadOn ==
    ASSUME IInv, Next, NEW a \in Places, BlockRead(a), errors' = errors, pos \notin errors
    PROVE  BlockRead(a)' \/ Yields(a)
<1>0. toks \in Seq(Text) /\ Len(toks) \in Nat /\ pos \in 1 .. Len(toks) + 1 /\ Shaped(server)
    BY LenProperties DEF IInv
<1>n. Len(toks) \in Nat /\ pos \in Nat \ {0} /\ 1 <= pos /\ pos <= Len(toks) + 1
    BY <1>0
<1>a. a \in Nat \ {0}
    BY DEF Places
<1>1. toks' = toks
    BY TurnOK DEF Turn
<1>2. \A bad : Report(bad) => ~bad
    BY DEF Report
<1>3. ASSUME ctx' = "server", toks[pos' - 1] \in Marks, ServerRead(toks, server', a, pos')
      PROVE  BlockRead(a)'
    BY <1>1, <1>3 DEF BlockRead
<1>4. ASSUME ctx' = "route", NEW r \in Places, ServerRead(toks, server', a, r),
             RouteRead(toks, route', r, pos')
      PROVE  BlockRead(a)'
    BY <1>1, <1>4 DEF BlockRead, Places
<1>5. ctx = "server" => ServerRead(toks, server, a, pos) /\ toks[pos - 1] \in Marks
    BY DEF BlockRead
<1>6. ctx = "route" => \E r \in Places : ServerRead(toks, server, a, r) /\ RouteRead(toks, route, r, pos)
    BY DEF BlockRead
<1>7. ctx \in {"server", "route"}
    BY DEF BlockRead
<1>8. CASE CloseServer
    <2>1. /\ ctx = "server" /\ ctx' = "top" /\ ~(pos > Len(toks)) /\ Closes(toks, pos)
          /\ server.ports # <<>> /\ servers' = Append(servers, server)
        <3>1. ~(pos > Len(toks) \/ server.ports = <<>>)
            BY <1>2, <1>8 DEF CloseServer
        <3>2. IsTok(pos, <<"}">>)
            BY <1>8, <3>1 DEF CloseServer
        <3> QED
            BY <1>8, <3>1, <3>2 DEF CloseServer, IsTok, Closes
    <2>2. pos' = pos + 1 /\ ~(pos > Len(toks))
        BY <1>8, <2>1 DEF CloseServer
    <2>3. pos' = pos + 1 /\ pos <= Len(toks)
        BY <1>n, <2>2
    <2>4. IsServer(toks, a, pos)
        BY <1>5, <1>n, <1>a, <2>1, ServerWhole
    <2>5. server \in ServersMade(toks, a, pos)
        BY <1>5, <2>1 DEF ServerRead
    <2> QED
        BY <2>1, <2>3, <2>4, <2>5 DEF Yields
<1>9. CASE OpenRoute
    <2>1. /\ ctx = "server" /\ ctx' = "route" /\ server' = server
          /\ route' = NewRoute(toks[pos + 1]) /\ RouteOpens(toks, pos)
        BY <1>2, <1>9, Apart DEF OpenRoute, IsTok, RouteOpens
    <2>2. pos' = pos + 3 /\ pos + 2 <= Len(toks)
        BY <1>2, <1>9 DEF OpenRoute, IsTok
    <2>3. pos \in Places
        BY <1>n, <2>2 DEF Places
    <2>4. RouteRead(toks, route', pos, pos')
        BY <1>n, <2>1, <2>2, RouteBegins
    <2>5. ServerRead(toks, server', a, pos)
        BY <1>5, <2>1
    <2> QED
        BY <1>4, <2>1, <2>3, <2>4, <2>5
<1>10. CASE ServerDirective
    <2> DEFINE d == ReadDirective
               result == ApplyServer(server, d.name, d.args)
    <2>1. /\ ctx = "server" /\ ctx' = "server" /\ IsWord(pos) /\ toks[pos] # <<"route">>
          /\ pos' = d.next /\ server' = result.block /\ ~(d.bad \/ result.bad)
        <3>1. IsWord(pos) /\ ~IsTok(pos, <<"route">>) /\ Report(d.bad \/ result.bad)
            BY <1>10 DEF ServerDirective
        <3>2. toks[pos] # <<"route">>
            BY <3>1 DEF IsWord, IsTok
        <3>3. ~(d.bad \/ result.bad)
            BY <1>2, <3>1
        <3> HIDE DEF d
        <3> QED
            BY <1>10, <3>1, <3>2, <3>3 DEF ServerDirective, d
    <2> HIDE DEF d
    <2>2. pos \in 1 .. Len(toks)
        <3>1. pos <= Len(toks)
            BY <2>1 DEF IsWord
        <3> QED
            BY <1>n, <3>1
    <2>3. d.name = toks[pos] /\ d.args \in Seq(Text)
        <3>1. d.name = toks[pos]
            BY <1>0, <2>1, DirectiveRead DEF d
        <3>2. d.args \in Seq(Text)
            BY <1>0, <2>1, ReadAhead DEF d
        <3> QED
            BY <3>1, <3>2
    <2> HIDE DEF result
    <2>4. result = ApplyServer(server, ReadDirective.name, ReadDirective.args)
        BY DEF result, d
    <2>5. PICK e \in pos + 1 .. Len(toks) :
             /\ IsServerDirective(toks, pos, e)
             /\ d.args = Arguments(toks, pos, e) /\ d.next = e + 1
        BY <1>0, <2>1, <2>2, <2>4, ServerItemRead DEF d
    <2>6. e \in pos .. Len(toks) /\ (e + 1) - 1 = e
        BY <1>n
    <2>7. result = ApplyServer(server, toks[pos], d.args)
        BY <2>3 DEF result
    <2>8. ServerRead(toks, result.block, a, e + 1) /\ toks[e] \in Marks
        <3>1. ServerRead(toks, server, a, pos) /\ toks[pos - 1] \in Marks
            BY <1>5, <2>1
        <3>2. d.args \in Seq(Text) /\ d.args = Arguments(toks, pos, e)
            BY <2>3, <2>5
        <3> QED
            BY <1>0, <1>a, <2>2, <2>5, <2>6, <2>7, <3>1, <3>2, ServerReadOn
    <2>9. pos' = e + 1
        BY <2>1, <2>5
    <2> QED
        BY <1>3, <2>1, <2>6, <2>8, <2>9
<1>11. CASE CloseRoute
    <2>1. /\ ctx = "route" /\ ctx' = "server" /\ ~(pos > Len(toks)) /\ Closes(toks, pos)
          /\ server' = [server EXCEPT !.routes = Append(@, route)]
        <3>1. ~(pos > Len(toks))
            BY <1>2, <1>11 DEF CloseRoute
        <3>2. IsTok(pos, <<"}">>)
            BY <1>11, <3>1 DEF CloseRoute
        <3> QED
            BY <1>11, <3>1, <3>2 DEF CloseRoute, IsTok, Closes
    <2>2. pos' = pos + 1 /\ ~(pos > Len(toks))
        BY <1>11, <2>1 DEF CloseRoute
    <2>3. pos' = pos + 1 /\ pos <= Len(toks) /\ pos' - 1 = pos
        BY <1>n, <2>2
    <2>4. PICK r \in Places : ServerRead(toks, server, a, r) /\ RouteRead(toks, route, r, pos)
        BY <1>6, <2>1
    <2>5. r \in Nat \ {0}
        BY DEF Places
    <2>6. ServerRead(toks, [server EXCEPT !.routes = Append(@, route)], a, pos + 1)
        BY <1>0, <1>a, <1>n, <2>1, <2>3, <2>4, <2>5, RouteJoins
    <2>7. toks[pos] \in Marks
        BY <2>1, Apart DEF Closes
    <2> QED
        BY <1>3, <2>1, <2>3, <2>6, <2>7
<1>12. CASE RouteDirective
    <2> DEFINE d == ReadDirective
               result == ApplyRoute(route, d.name, d.args)
    <2>1. /\ ctx = "route" /\ ctx' = "route" /\ IsWord(pos) /\ server' = server
          /\ pos' = d.next /\ route' = result.block /\ ~(d.bad \/ result.bad)
        <3>1. Report(d.bad \/ result.bad)
            BY <1>12 DEF RouteDirective
        <3>3. ~(d.bad \/ result.bad)
            BY <1>2, <3>1
        <3> HIDE DEF d
        <3> QED
            BY <1>12, <3>1, <3>3 DEF RouteDirective, d
    <2> HIDE DEF d
    <2>2. pos \in 1 .. Len(toks)
        <3>1. pos <= Len(toks)
            BY <2>1 DEF IsWord
        <3> QED
            BY <1>n, <3>1
    <2>3. d.name = toks[pos]
        BY <1>0, <2>1, DirectiveRead DEF d
    <2> HIDE DEF result
    <2>4. result = ApplyRoute(route, ReadDirective.name, ReadDirective.args)
        BY DEF result, d
    <2>5. PICK e \in pos + 1 .. Len(toks) :
             /\ IsRouteDirective(toks, pos, e)
             /\ d.args = Arguments(toks, pos, e) /\ d.next = e + 1
        BY <1>0, <2>1, <2>2, <2>4, RouteItemRead DEF d
    <2>6. e \in pos .. Len(toks)
        BY <1>n
    <2>7. result = ApplyRoute(route, toks[pos], Arguments(toks, pos, e))
        BY <2>3, <2>5 DEF result
    <2>8. PICK r \in Places : ServerRead(toks, server, a, r) /\ RouteRead(toks, route, r, pos)
        BY <1>6, <2>1
    <2>9. r \in Nat \ {0}
        BY DEF Places
    <2>10. RouteRead(toks, result.block, r, e + 1)
        BY <1>0, <2>2, <2>5, <2>6, <2>7, <2>8, <2>9, RouteReadOn
    <2>11. pos' = e + 1
        BY <2>1, <2>5
    <2> QED
        BY <1>4, <2>1, <2>8, <2>10, <2>11
<1>13. CASE Unexpected
    BY <1>2, <1>13 DEF Unexpected
<1>14. CASE OpenServer \/ ExpectServer \/ Finish
    BY <1>7, <1>14 DEF OpenServer, ExpectServer, Finish
<1> QED
    BY <1>8, <1>9, <1>10, <1>11, <1>12, <1>13, <1>14 DEF Next

(* While a block is left, so are tokens.                                   *)
LEMMA LeftWithin ==
    ASSUME IInv, NEW b \in Places, BlockLeft(b)
    PROVE  pos <= Len(toks) /\ ~(pos > Len(toks))
<1>n. Len(toks) \in Nat /\ pos \in Nat
    BY LenProperties DEF IInv
<1>1. \E f \in Places : pos <= f
    BY DEF BlockLeft, ServerLeft, RouteLeft
<1>2. \A f \in Places : f \in Nat /\ f <= Len(toks)
    BY <1>n DEF Places
<1> QED
    BY <1>n, <1>1, <1>2

(* If what is left of a block is well formed, nothing is reported up to    *)
(* its end, and what is left stays well formed.                            *)
LEMMA BlockLeftOn ==
    ASSUME IInv, Next, NEW b \in Places, BlockLeft(b)
    PROVE  /\ errors' = errors
           /\ BlockLeft(b)' \/ (pos = b /\ pos' = pos + 1 /\ ctx' = "top")
<1>0. toks \in Seq(Text) /\ Len(toks) \in Nat /\ pos \in 1 .. Len(toks) + 1 /\ Shaped(server)
    BY LenProperties DEF IInv
<1>n. Len(toks) \in Nat /\ pos \in Nat \ {0} /\ 1 <= pos /\ pos <= Len(toks) + 1
    BY <1>0
<1>b. b \in Nat /\ b <= Len(toks)
    BY <1>n DEF Places
<1>1. toks' = toks
    BY TurnOK DEF Turn
<1>2. \A bad : Report(bad) /\ ~bad => errors' = errors
    BY DEF Report
<1>3. ASSUME ctx' = "server", ServerLeft(toks, server', pos', b)
      PROVE  BlockLeft(b)'
    BY <1>1, <1>3 DEF BlockLeft
<1>4. ASSUME ctx' = "route", NEW f \in Places, RouteLeft(toks, pos', f),
             ServerLeft(toks, server', f + 1, b)
      PROVE  BlockLeft(b)'
    BY <1>1, <1>4 DEF BlockLeft, Places
<1>5. ctx = "server" => ServerLeft(toks, server, pos, b)
    BY DEF BlockLeft
<1>6. ctx = "route" => \E f \in Places : RouteLeft(toks, pos, f) /\ ServerLeft(toks, server, f + 1, b)
    BY DEF BlockLeft
<1>7. ctx \in {"server", "route"}
    BY DEF BlockLeft
<1>p. ~(pos > Len(toks))
    BY LeftWithin
<1>8. CASE CloseServer
    <2>1. /\ ctx = "server" /\ ctx' = "top" /\ Closes(toks, pos)
        BY <1>8, <1>p DEF CloseServer, IsTok, Closes
    <2>2. pos = b /\ server.ports # <<>>
        BY <1>5, <1>n, <2>1, ServerEnds
    <2>3. pos' = pos + 1 /\ errors' = errors
        BY <1>2, <1>8, <1>p, <2>2 DEF CloseServer
    <2> QED
        BY <2>1, <2>2, <2>3
<1>9. CASE OpenRoute
    <2>1. ctx = "server" /\ toks[pos] = <<"route">> /\ ~Closes(toks, pos)
        BY <1>9, Apart DEF OpenRoute, IsTok, Closes
    <2>2. PICK e \in pos .. Len(toks) : /\ <<pos, e>> \in ServerItems(toks) /\ e + 1 <= b
                                        /\ Sequence(e + 1, b - 1, ServerItems(toks))
        BY <1>5, <1>n, <2>1, NextServerItem
    <2>3. e \in Nat /\ e \in Places /\ e <= Len(toks)
        BY <1>n DEF Places
    <2>4. IsRoute(toks, pos, e)
        BY <1>n, <2>1, <2>2, <2>3, Items DEF IsServerDirective
    <2>5. /\ pos + 3 <= e /\ toks[pos + 1] \notin Marks /\ toks[pos + 2] = <<"{">>
          /\ Closes(toks, e) /\ Sequence(pos + 3, e - 1, RouteItems(toks))
        BY <2>4 DEF IsRoute, Closes
    <2>6. pos + 3 <= e
        BY <2>5
    <2>7. pos + 2 <= Len(toks) /\ pos + 1 <= Len(toks)
        BY <1>n, <2>3, <2>6
    <2>8. IsWord(pos + 1) /\ IsTok(pos + 2, <<"{">>)
        BY <2>5, <2>7 DEF IsTok, IsWord
    <2>9. ctx' = "route" /\ pos' = pos + 3 /\ server' = server /\ Report(FALSE)
        BY <1>9, <2>8 DEF OpenRoute
    <2>10. RouteLeft(toks, pos', e)
        BY <2>5, <2>9 DEF RouteLeft
    <2>11. ServerLeft(toks, server', e + 1, b)
        <3>1. toks[pos] \notin PortNames
            BY <2>1, Apart
        <3>2. ServerLeft(toks, server, pos, b)
            BY <1>5, <2>1
        <3> QED
            BY <1>n, <2>2, <2>3, <2>9, <3>1, <3>2, ServerLeftOn
    <2> QED
        BY <1>2, <1>4, <2>3, <2>9, <2>10, <2>11
<1>10. CASE ServerDirective
    <2> DEFINE d == ReadDirective
               result == ApplyServer(server, d.name, d.args)
    <2>1. /\ ctx = "server" /\ ctx' = "server" /\ IsWord(pos) /\ ~IsTok(pos, <<"route">>)
          /\ pos' = d.next /\ server' = result.block /\ Report(d.bad \/ result.bad)
        BY <1>10 DEF ServerDirective
    <2> HIDE DEF d
    <2>2. toks[pos] # <<"route">> /\ ~Closes(toks, pos)
        BY <2>1, Apart DEF IsWord, IsTok, Closes
    <2>3. pos \in 1 .. Len(toks)
        BY <1>n, <1>p
    <2>5. PICK e \in pos .. Len(toks) : /\ <<pos, e>> \in ServerItems(toks) /\ e + 1 <= b
                                        /\ Sequence(e + 1, b - 1, ServerItems(toks))
        BY <1>5, <1>n, <2>1, <2>2, NextServerItem
    <2>6. e \in Nat
        BY <1>n
    <2> HIDE DEF result
    <2>7. result = ApplyServer(server, ReadDirective.name, ReadDirective.args)
        BY DEF result, d
    <2>8. ~(d.bad \/ result.bad) /\ d.next = e + 1
        BY <1>0, <2>1, <2>2, <2>3, <2>5, <2>7, ServerItemRead DEF d
    <2>9. server.ports # <<>> \/ toks[pos] \in PortNames => server'.ports # <<>>
        <3>1. d.name = toks[pos]
            BY <1>0, <2>1, DirectiveRead DEF d
        <3>2. d.args \in Seq(Text)
            BY <1>0, <2>1, ReadAhead DEF d
        <3>3. result = ApplyServer(server, d.name, d.args)
            BY DEF result
        <3>4. /\ server.ports # <<>> => result.block.ports # <<>>
              /\ d.name \in PortNames /\ ~result.bad => result.block.ports # <<>>
            BY <1>0, <3>2, <3>3, PortsGiven
        <3> QED
            BY <2>1, <2>8, <3>1, <3>4
    <2>10. ServerLeft(toks, server', e + 1, b)
        <3>1. ServerLeft(toks, server, pos, b)
            BY <1>5, <2>1
        <3> QED
            BY <1>n, <2>5, <2>6, <2>9, <3>1, ServerLeftOn
    <2>11. pos' = e + 1
        BY <2>1, <2>8
    <2> QED
        BY <1>2, <1>3, <2>1, <2>8, <2>10, <2>11
<1>11. CASE CloseRoute
    <2>1. /\ ctx = "route" /\ ctx' = "server" /\ Closes(toks, pos)
          /\ server' = [server EXCEPT !.routes = Append(@, route)]
        BY <1>11, <1>p DEF CloseRoute, IsTok, Closes
    <2>2. PICK f \in Places : RouteLeft(toks, pos, f) /\ ServerLeft(toks, server, f + 1, b)
        BY <1>6, <2>1
    <2>3. pos = f
        BY <1>n, <2>1, <2>2, RouteEnds
    <2>4. pos' = pos + 1 /\ errors' = errors
        <3>1. pos' = pos + 1 /\ Report(pos > Len(toks))
            BY <1>11, <1>p DEF CloseRoute
        <3> QED
            BY <1>p, <3>1 DEF Report
    <2>5. server'.ports = server.ports
        BY <1>0, <2>1 DEF Shaped
    <2>6. ServerLeft(toks, server', pos', b)
        BY <2>2, <2>3, <2>4, <2>5 DEF ServerLeft
    <2> QED
        BY <1>3, <2>1, <2>4, <2>6
<1>12. CASE RouteDirective
    <2> DEFINE d == ReadDirective
               result == ApplyRoute(route, d.name, d.args)
    <2>1. /\ ctx = "route" /\ ctx' = "route" /\ IsWord(pos) /\ server' = server
          /\ pos' = d.next /\ Report(d.bad \/ result.bad)
        BY <1>12 DEF RouteDirective
    <2> HIDE DEF d
    <2>2. ~Closes(toks, pos)
        BY <2>1, Apart DEF Closes
    <2>3. pos \in 1 .. Len(toks)
        BY <1>n, <1>p
    <2>4. PICK f \in Places : RouteLeft(toks, pos, f) /\ ServerLeft(toks, server, f + 1, b)
        BY <1>6, <2>1
    <2>5. PICK e \in pos .. Len(toks) : <<pos, e>> \in RouteItems(toks) /\ RouteLeft(toks, e + 1, f)
        BY <1>n, <2>2, <2>4, NextRouteItem
    <2> HIDE DEF result
    <2>6. result = ApplyRoute(route, ReadDirective.name, ReadDirective.args)
        BY DEF result, d
    <2>7. ~(d.bad \/ result.bad) /\ d.next = e + 1
        BY <1>0, <2>1, <2>3, <2>5, <2>6, RouteItemRead DEF d
    <2>8. RouteLeft(toks, pos', f)
        BY <2>1, <2>5, <2>7
    <2>9. ServerLeft(toks, server', f + 1, b)
        BY <2>1, <2>4
    <2> QED
        BY <1>2, <1>4, <2>1, <2>4, <2>7, <2>8, <2>9
<1>13. CASE Unexpected
    <2>1. toks[pos] \in Marks /\ ~Closes(toks, pos)
        BY <1>13, Apart DEF Unexpected, IsTok, Closes
    <2>2. \A e \in pos .. Len(toks) : <<pos, e>> \notin ServerItems(toks) /\ <<pos, e>> \notin RouteItems(toks)
        <3> SUFFICES ASSUME NEW e \in pos .. Len(toks)
                     PROVE  <<pos, e>> \notin ServerItems(toks) /\ <<pos, e>> \notin RouteItems(toks)
            OBVIOUS
        <3>1. e \in Nat
            BY <1>n
        <3> QED
            BY <1>n, <2>1, <3>1, ItemBegins
    <2>3. CASE ctx = "server"
        BY <1>5, <1>n, <2>1, <2>2, <2>3, NextServerItem
    <2>4. CASE ctx = "route"
        BY <1>6, <1>n, <2>1, <2>2, <2>4, NextRouteItem
    <2> QED
        BY <1>7, <2>3, <2>4
<1>14. CASE OpenServer \/ ExpectServer \/ Finish
    BY <1>7, <1>14 DEF OpenServer, ExpectServer, Finish
<1> QED
    BY <1>8, <1>9, <1>10, <1>11, <1>12, <1>13, <1>14 DEF Next

-----------------------------------------------------------------------------
(***************************************************************************)
(* A turn of the parser in a file.                                         *)
(***************************************************************************)

(* The errors reported before a turn are reported behind it, too.          *)
LEMMA ErrorsStay ==
    ASSUME IInv, Next
    PROVE  /\ errors \subseteq errors'
           /\ errors' \subseteq errors \cup {pos}
<1>1. PICK bad : Report(bad) \/ errors' = errors
    BY DEF Next, OpenServer, ExpectServer, Finish, CloseServer, OpenRoute, ServerDirective,
           CloseRoute, RouteDirective, Unexpected
<1> QED
    BY <1>1 DEF Report

(* While nothing is reported, what is read stays well formed.              *)
LEMMA ReadOn ==
    ASSUME IInv, WellRead, errors = {}, Next, errors' = {}
    PROVE  WellRead'
<1>0. toks \in Seq(Text) /\ Len(toks) \in Nat /\ pos \in 1 .. Len(toks) + 1
    BY LenProperties DEF IInv
<1>n. Len(toks) \in Nat /\ pos \in Nat \ {0} /\ 1 <= pos /\ pos <= Len(toks) + 1
    BY <1>0
<1>1. toks' = toks
    BY TurnOK DEF Turn
<1>2. \A bad : Report(bad) => ~bad
    BY DEF Report
<1>3. errors' = errors /\ pos \notin errors
    OBVIOUS
<1>4. ASSUME NEW a \in Places, Sequence(1, a - 1, Servers(toks)), BlockRead(a)'
      PROVE  WellRead'
    <2>1. ctx' \in {"server", "route"}
        BY <1>4 DEF BlockRead
    <2>2. a \in Places'
        BY <1>1 DEF Places
    <2> QED
        BY <1>1, <1>4, <2>1, <2>2 DEF WellRead
<1>5. ASSUME ctx' \in {"top", "done"}, Sequence(1, pos' - 1, Servers(toks))
      PROVE  WellRead'
    BY <1>1, <1>5 DEF WellRead
<1>6. CASE ctx \in {"server", "route"}
    <2>1. PICK a \in Places : Sequence(1, a - 1, Servers(toks)) /\ BlockRead(a)
        BY <1>6 DEF WellRead
    <2>2. BlockRead(a)' \/ Yields(a)
        BY <1>3, <2>1, BlockReadOn
    <2>3. CASE Yields(a)
        <3>1. /\ ctx' = "top" /\ pos <= Len(toks) /\ pos' = pos + 1 /\ IsServer(toks, a, pos)
            BY <2>3 DEF Yields
        <3>2. pos >= a + 2
            BY <3>1 DEF IsServer
        <3>3. pos <= Len(toks) /\ pos' = pos + 1
            BY <3>1
        <3>4. a \in 1 .. Len(toks) /\ a \in Nat \ {0}
            BY <1>n DEF Places
        <3>5. pos \in a .. Len(toks) /\ 1 \in 1 .. a /\ a <= pos /\ pos' - 1 = pos
            BY <1>n, <3>2, <3>3, <3>4
        <3>6. <<a, pos>> \in Servers(toks)
            BY <1>n, <3>1, <3>4, <3>5, Items
        <3>7. Sequence(1, pos, Servers(toks))
            BY <1>n, <2>1, <3>4, <3>5, <3>6, SequenceJoined
        <3> QED
            BY <1>5, <3>1, <3>5, <3>7
    <2> QED
        BY <1>4, <2>1, <2>2, <2>3
<1>7. CASE ctx = "top"
    <2>0. Sequence(1, pos - 1, Servers(toks))
        BY <1>7 DEF WellRead
    <2>1. CASE OpenServer
        <3>1. IsTok(pos, <<"server">>) /\ IsTok(pos + 1, <<"{">>)
            BY <1>2, <2>1 DEF OpenServer
        <3>2. ServerOpens(toks, pos) /\ pos + 1 <= Len(toks)
            BY <3>1 DEF IsTok, ServerOpens
        <3>3. PICK p : p = pos
            OBVIOUS
        <3>4. p \in Places /\ BlockRead(p)'
            BY <2>1, <3>2, <3>3, BlockOpens
        <3> QED
            BY <1>4, <2>0, <3>3, <3>4
    <2>2. CASE ExpectServer
        BY <1>2, <2>2 DEF ExpectServer
    <2>3. CASE Finish
        BY <1>5, <2>0, <2>3 DEF Finish
    <2> QED
        BY <1>7, <2>1, <2>2, <2>3 DEF Next, CloseServer, OpenRoute, ServerDirective, CloseRoute,
           RouteDirective, Unexpected
<1>8. CASE ctx = "done"
    BY <1>8 DEF Next, OpenServer, ExpectServer, Finish, CloseServer, OpenRoute, ServerDirective,
       CloseRoute, RouteDirective, Unexpected
<1> QED
    BY <1>6, <1>7, <1>8 DEF IInv

(* If the grammar cuts what is left, nothing is reported and it cuts what  *)
(* is left after that.                                                     *)
LEMMA LeftOn ==
    ASSUME IInv, WellLeft, Next
    PROVE  errors' = errors /\ WellLeft'
<1>0. toks \in Seq(Text) /\ Len(toks) \in Nat /\ pos \in 1 .. Len(toks) + 1
    BY LenProperties DEF IInv
<1>n. Len(toks) \in Nat /\ pos \in Nat \ {0} /\ 1 <= pos /\ pos <= Len(toks) + 1
    BY <1>0
<1>1. toks' = toks
    BY TurnOK DEF Turn
<1>4. ASSUME NEW b \in Places, Sequence(b + 1, Len(toks), Servers(toks)), BlockLeft(b)'
      PROVE  WellLeft'
    <2>1. ctx' \in {"server", "route"}
        BY <1>4 DEF BlockLeft
    <2>2. b \in Places'
        BY <1>1 DEF Places
    <2> QED
        BY <1>1, <1>4, <2>1, <2>2 DEF WellLeft
<1>6. CASE ctx \in {"server", "route"}
    <2>1. PICK b \in Places : BlockLeft(b) /\ Sequence(b + 1, Len(toks), Servers(toks))
        BY <1>6 DEF WellLeft
    <2>2. /\ errors' = errors
          /\ BlockLeft(b)' \/ (pos = b /\ pos' = pos + 1 /\ ctx' = "top")
        BY <2>1, BlockLeftOn
    <2>3. CASE pos = b /\ pos' = pos + 1 /\ ctx' = "top"
        <3>1. Sequence(pos', Len(toks), Servers(toks))
            BY <2>1, <2>3
        <3> QED
            BY <1>1, <2>2, <2>3, <3>1 DEF WellLeft
    <2> QED
        BY <1>4, <2>1, <2>2, <2>3
<1>7. CASE ctx = "top"
    <2>0. Sequence(pos, Len(toks), Servers(toks))
        BY <1>7 DEF WellLeft
    <2>5. ASSUME pos <= Len(toks)
          PROVE  \E e \in pos .. Len(toks) : IsServer(toks, pos, e) /\ Sequence(e + 1, Len(toks), Servers(toks))
        <3>1. PICK e \in pos .. Len(toks) : <<pos, e>> \in Servers(toks) /\ Sequence(e + 1, Len(toks), Servers(toks))
            BY <1>n, <2>0, <2>5, SequenceSome
        <3>2. e \in Nat
            BY <1>n
        <3> QED
            BY <1>n, <3>1, <3>2, Items
    <2>1. CASE OpenServer
        <3>1. pos <= Len(toks)
            BY <2>1 DEF OpenServer, IsTok
        <3>2. PICK e \in pos .. Len(toks) : IsServer(toks, pos, e) /\ Sequence(e + 1, Len(toks), Servers(toks))
            BY <2>5, <3>1
        <3>3. e >= pos + 2
            BY <3>2 DEF IsServer
        <3>4. /\ ServerOpens(toks, pos) /\ Closes(toks, e)
              /\ Sequence(pos + 2, e - 1, ServerItems(toks)) /\ PortIn(toks, pos + 2, e - 1)
            BY <3>2 DEF IsServer, ServerOpens, Closes
        <3>5. e \in Places /\ pos + 2 <= e /\ pos + 1 <= Len(toks)
            BY <1>n, <3>3 DEF Places
        <3>6. pos' = pos + 2 /\ ctx' = "server" /\ errors' = errors
            <4>1. PICK p : p = pos
                OBVIOUS
            <4> QED
                BY <2>1, <3>4, <3>5, <4>1, BlockOpens
        <3>7. ServerLeft(toks, server', pos', e)
            BY <3>4, <3>5, <3>6 DEF ServerLeft
        <3>8. BlockLeft(e)'
            BY <1>1, <3>6, <3>7 DEF BlockLeft
        <3> QED
            BY <1>4, <3>2, <3>5, <3>6, <3>8
    <2>2. CASE ExpectServer
        <3>1. pos <= Len(toks) /\ toks[pos] # <<"server">>
            BY <2>2 DEF ExpectServer, IsTok
        <3>2. pos <= Len(toks)
            BY <3>1
        <3> QED
            BY <2>5, <3>1, <3>2 DEF IsServer
    <2>3. CASE Finish
        BY <2>3 DEF Finish, WellLeft
    <2> QED
        BY <1>7, <2>1, <2>2, <2>3 DEF Next, CloseServer, OpenRoute, ServerDirective, CloseRoute,
           RouteDirective, Unexpected
<1>8. CASE ctx = "done"
    BY <1>8 DEF Next, OpenServer, ExpectServer, Finish, CloseServer, OpenRoute, ServerDirective,
       CloseRoute, RouteDirective, Unexpected
<1> QED
    BY <1>6, <1>7, <1>8 DEF IInv

(* What is read of a file, and what is left of it, is as the grammar wants *)
(* it until something is reported, and then the grammar wants no such file.*)
LEMMA DescentOK == IInv /\ Descent /\ Next => Descent'
<1> SUFFICES ASSUME IInv, Descent, Next PROVE Descent'
    OBVIOUS
<1>1. toks' = toks
    BY TurnOK DEF Turn
<1>2. errors' = {} => errors = {}
    BY ErrorsStay
<1>3. errors' = {} => WellRead'
    BY <1>2, ReadOn DEF Descent
<1>4. Sequence(1, Len(toks), Servers(toks)) => errors' = {} /\ WellLeft'
    BY LeftOn DEF Descent
<1> QED
    BY <1>1, <1>3, <1>4 DEF Descent

(* Errors are left behind, and the parser stops at the end of the file.    *)
LEMMA ErrorsBehindOK ==
    ASSUME IInv, ErrorsBehind, DoneAtEnd, Next
    PROVE  ErrorsBehind' /\ DoneAtEnd'
<1>0. /\ toks \in Seq(Text) /\ Len(toks) \in Nat /\ pos \in 1 .. Len(toks) + 1
      /\ errors \subseteq 1 .. Len(toks) + 1
    BY LenProperties DEF IInv
<1>n. Len(toks) \in Nat /\ pos \in Nat /\ pos <= Len(toks) + 1
    BY <1>0
<1>1. toks' = toks /\ pos' \in pos .. Len(toks) + 1
    BY TurnOK DEF Turn
<1>2. ErrorsBehind'
    <2> SUFFICES ASSUME NEW e \in errors' PROVE e < pos' \/ e > Len(toks)
        BY <1>1 DEF ErrorsBehind
    <2>1. CASE e \in errors
        <3>1. e < pos \/ e > Len(toks)
            BY <2>1 DEF ErrorsBehind
        <3>2. e \in Nat /\ pos <= pos' /\ pos' \in Nat
            BY <1>0, <1>1, <2>1
        <3> QED
            BY <1>n, <3>1, <3>2
    <2>2. CASE e \notin errors
        <3>1. e = pos
            BY <2>2, ErrorsStay
        <3>2. pos' # pos \/ pos > Len(toks)
            <4>1. errors' # errors
                BY <2>2
            <4>2. CASE pos' = pos
                <5>1. CloseServer \/ CloseRoute \/ Finish
                    <6>1. Rank' < Rank
                        BY <1>n, <4>2, TurnOK DEF Turn
                    <6>2. Rank' # Rank /\ ~(Rank = 1 /\ Rank' = 2) /\ ~(Rank = 2 /\ Rank' = 3)
                        BY <6>1, Ranks
                    <6>3. ctx' # ctx /\ ~(ctx = "top" /\ ctx' = "server")
                          /\ ~(ctx = "server" /\ ctx' = "route")
                        BY <6>2 DEF Rank
                    <6> QED
                        BY <6>3 DEF Next, OpenServer, ExpectServer, OpenRoute, ServerDirective,
                           RouteDirective, Unexpected
                <5>2. ~Finish
                    BY <4>1 DEF Finish
                <5>3. pos' = IF pos > Len(toks) THEN pos ELSE pos + 1
                    BY <5>1, <5>2 DEF CloseServer, CloseRoute
                <5> QED
                    BY <1>n, <4>2, <5>3
            <4> QED
                BY <4>2
        <3>3. pos <= pos' /\ pos' \in Nat
            BY <1>n, <1>1
        <3> QED
            BY <1>n, <3>1, <3>2, <3>3
    <2> QED
        BY <2>1, <2>2
<1>3. DoneAtEnd'
    <2> SUFFICES ASSUME ctx' = "done" PROVE pos' = Len(toks) + 1
        BY <1>1 DEF DoneAtEnd
    <2>1. Finish
        BY DEF Next, OpenServer, ExpectServer, CloseServer, OpenRoute, ServerDirective,
           CloseRoute, RouteDirective, Unexpected
    <2>2. pos' = pos /\ pos > Len(toks)
        BY <2>1 DEF Finish
    <2> QED
        BY <1>n, <2>2
<1> QED
    BY <1>2, <1>3

-----------------------------------------------------------------------------
(***************************************************************************)
(* Where the parser is among the blocks.                                   *)
(***************************************************************************)

(* A block is open as far as `route` and its path reach, whatever they are.*)
LEMMA RouteHead ==
    ASSUME IInv, Depth, ctx = "server", IsTok(pos, <<"route">>)
    PROVE  /\ OpenBlocks(toks, pos) >= 1
           /\ pos + 1 <= Len(toks) => OpenBlocks(toks, pos + 1) >= 1
<1> DEFINE open(i) == OpenBlocks(toks, i)
<1>0. toks \in Seq(Text) /\ Len(toks) \in Nat /\ pos \in 1 .. Len(toks) + 1
    BY LenProperties DEF IInv
<1>1. pos <= Len(toks) /\ toks[pos] = <<"route">>
    BY DEF IsTok
<1>2. pos <= Len(toks)
    BY <1>1
<1>3. pos \in 1 .. Len(toks) /\ pos \in 0 .. Len(toks) /\ pos - 1 \in 0 .. Len(toks)
    <2>1. pos \in Nat /\ 1 <= pos /\ Len(toks) \in Nat
        BY <1>0
    <2> QED
        BY <1>2, <2>1
<1>4. open(pos - 1) >= 1
    BY DEF Depth, Level
<1>5. toks[pos] # <<"}">>
    BY <1>1, Apart
<1>6. open(pos) >= open(pos - 1)
    BY <1>0, <1>3, <1>5, OpenBlocksLaws
<1>7. open(pos) \in Nat /\ open(pos - 1) \in Nat
    BY <1>0, <1>3, OpenBlocksLaws
<1> HIDE DEF open
<1>8. open(pos) >= 1
    BY <1>4, <1>6, <1>7
<1>9. ASSUME pos + 1 <= Len(toks) PROVE open(pos + 1) >= 1
    <2> DEFINE i == pos + 1
    <2>1. i \in 1 .. Len(toks) /\ i > 1 /\ i - 1 = pos
        BY <1>0, <1>3, <1>9
    <2>2. toks[i - 1] = <<"route">> /\ open(i - 1) >= 1
        BY <1>1, <1>8, <2>1
    <2> HIDE DEF i
    <2>3. open(i) >= 1
        BY <1>0, <2>1, <2>2, OpenBlocksLaws DEF open
    <2> QED
        BY <2>3 DEF i
<1> QED
    BY <1>8, <1>9 DEF open

(* A directive closes nothing.                                             *)
LEMMA DirectiveInside ==
    ASSUME IInv, IsWord(pos), NEW a \in pos .. ReadDirective.next
    PROVE  OpenBlocks(toks, a - 1) >= OpenBlocks(toks, pos - 1)
<1>0. toks \in Seq(Text) /\ Len(toks) \in Nat /\ pos \in 1 .. Len(toks) + 1
    BY LenProperties DEF IInv
<1>1. ReadDirective.next \in pos + 1 .. Len(toks) + 1
    BY <1>0, ReadAhead
<1>2. pos - 1 \in 0 .. Len(toks) /\ a - 1 \in pos - 1 .. Len(toks)
    BY <1>0, <1>1
<1>3. NoneCloses(toks, pos - 1, a - 1)
    <2> SUFFICES ASSUME NEW k \in (pos - 1) + 1 .. a - 1 PROVE toks[k] # <<"}">>
        BY DEF NoneCloses
    <2>1. k \in pos .. ReadDirective.next - 1
        BY <1>0, <1>1
    <2> QED
        BY <1>0, <2>1, DirectiveRead
<1> QED
    BY <1>0, <1>2, <1>3, StaysOpen

(* The parser looks no further ahead than the end of the file.             *)
LEMMA AtMostTwo ==
    ASSUME Len(toks) \in Nat, pos \in 1 .. Len(toks)
    PROVE  TwoAhead \in pos + 1 .. Len(toks) + 1 /\ TwoAhead <= pos + 2
<1> DEFINE two == {pos + 2, Len(toks) + 1}
<1>1. two \in SUBSET Nat /\ two # {}
    OBVIOUS
<1>2. \E i \in two : \A j \in two : i <= j
    BY <1>1, LeastNatural
<1>3. TwoAhead \in two /\ \A j \in two : TwoAhead <= j
    BY <1>2 DEF TwoAhead, Min
<1> QED
    BY <1>3

(* Where the parser is in a block, so is every token of a turn.            *)
LEMMA Inside ==
    ASSUME IInv, Depth, Next, ctx \in {"server", "route"},
           NEW a \in Nat, pos <= a, a < pos'
    PROVE  OpenBlocks(toks, a - 1) >= 1
<1> DEFINE open(i) == OpenBlocks(toks, i)
<1>0. toks \in Seq(Text) /\ Len(toks) \in Nat /\ pos \in 1 .. Len(toks) + 1
    BY LenProperties DEF IInv
<1>n. Len(toks) \in Nat /\ pos \in Nat /\ 1 <= pos /\ pos <= Len(toks) + 1
    BY <1>0
<1>1. pos' \in Nat /\ pos' <= Len(toks) + 1
    <2>1. pos' \in pos .. Len(toks) + 1
        BY TurnOK DEF Turn
    <2> QED
        BY <1>n, <2>1
<1>2. open(pos - 1) >= 1 /\ open(pos - 1) \in Nat
    <2>1. open(pos - 1) \in Nat
        <3>1. pos - 1 \in 0 .. Len(toks)
            BY <1>n
        <3> QED
            BY <1>n, <3>1, OpenBlocksLaws
    <2>2. Level \in {1, 2} /\ open(pos - 1) >= Level
        BY DEF Depth, Level
    <2> HIDE DEF open
    <2> QED
        BY <2>1, <2>2
<1> HIDE DEF open
<1>3. CASE pos' = pos + 1 \/ pos' = pos
    <2>1. a = pos
        BY <1>3, <1>n
    <2> QED
        BY <1>2, <2>1 DEF open
<1>4. CASE OpenRoute
    <2>1. ctx = "server" /\ IsTok(pos, <<"route">>)
        BY <1>4 DEF OpenRoute
    <2>2. open(pos) >= 1 /\ (pos + 1 <= Len(toks) => open(pos + 1) >= 1)
        BY <2>1, RouteHead DEF open
    <2>3. pos' <= pos + 3
        <3>1. pos <= Len(toks)
            BY <2>1 DEF IsTok
        <3>2. TwoAhead \in Nat /\ TwoAhead <= pos + 2
            <4>1. pos \in 1 .. Len(toks)
                BY <1>n, <3>1
            <4> QED
                BY <1>n, <4>1, AtMostTwo
        <3>3. pos' = pos + 3 \/ pos' = TwoAhead
            BY <1>4 DEF OpenRoute
        <3> QED
            BY <1>n, <3>2, <3>3
    <2>4. a = pos \/ a = pos + 1 \/ (a = pos + 2 /\ pos + 1 <= Len(toks))
        BY <1>n, <1>1, <2>3
    <2>5. open(a - 1) >= 1
        <3>1. CASE a = pos
            BY <1>2, <3>1
        <3>2. CASE a = pos + 1
            <4>1. a - 1 = pos
                BY <1>n, <3>2
            <4> QED
                BY <2>2, <4>1
        <3>3. CASE a = pos + 2 /\ pos + 1 <= Len(toks)
            <4>1. a - 1 = pos + 1
                BY <1>n, <3>3
            <4> QED
                BY <2>2, <3>3, <4>1
        <3> QED
            BY <2>4, <3>1, <3>2, <3>3
    <2> QED
        BY <2>5 DEF open
<1>5. CASE ServerDirective \/ RouteDirective
    <2>1. IsWord(pos) /\ pos' = ReadDirective.next
        BY <1>5 DEF ServerDirective, RouteDirective
    <2>2. a \in pos .. ReadDirective.next
        BY <1>n, <1>1, <2>1
    <2>3. open(a - 1) >= open(pos - 1)
        BY <2>1, <2>2, DirectiveInside DEF open
    <2>4. a - 1 \in 0 .. Len(toks)
        BY <1>n, <1>1
    <2>5. open(a - 1) \in Nat
        BY <1>n, <2>4, OpenBlocksLaws DEF open
    <2>6. open(a - 1) >= 1
        BY <1>2, <2>3, <2>5
    <2> QED
        BY <2>6 DEF open
<1>6. CASE CloseServer \/ CloseRoute \/ Unexpected
    <2>1. pos' = pos + 1 \/ pos' = pos
        BY <1>6 DEF CloseServer, CloseRoute, Unexpected
    <2> QED
        BY <1>3, <2>1
<1> QED
    BY <1>4, <1>5, <1>6 DEF Next, OpenServer, ExpectServer, Finish

(* The parser is in no more blocks than are open.                          *)
LEMMA DepthOK == IInv /\ Depth /\ Next => Depth'
<1> SUFFICES ASSUME IInv, Depth, Next PROVE Depth'
    OBVIOUS
<1> DEFINE open(i) == OpenBlocks(toks, i)
<1>0. toks \in Seq(Text) /\ Len(toks) \in Nat /\ pos \in 1 .. Len(toks) + 1
    BY LenProperties DEF IInv
<1>n. Len(toks) \in Nat /\ pos \in Nat /\ 1 <= pos /\ pos <= Len(toks) + 1
    BY <1>0
<1>1. toks' = toks /\ pos' \in Nat /\ pos <= pos' /\ pos' <= Len(toks) + 1
    <2>1. toks' = toks /\ pos' \in pos .. Len(toks) + 1
        BY TurnOK DEF Turn
    <2> QED
        BY <1>n, <2>1
<1>2. \A i \in 0 .. Len(toks) : open(i) \in Nat
    BY <1>n, OpenBlocksLaws
<1>3. pos - 1 \in 0 .. Len(toks) /\ pos' - 1 \in 0 .. Len(toks)
    <2>1. pos - 1 \in 0 .. Len(toks)
        BY <1>n
    <2>2. PICK q \in Nat : q = pos'
        BY <1>1
    <2>3. 1 <= q /\ q <= Len(toks) + 1
        BY <1>n, <1>1, <2>2
    <2>4. q - 1 \in 0 .. Len(toks)
        BY <1>n, <2>3
    <2> QED
        BY <2>1, <2>2, <2>4
<1>4. open(pos - 1) >= Level /\ Level \in {0, 1, 2} /\ Level' \in {0, 1, 2}
    BY DEF Depth, Level
<1>5. (Depth)' <=> open(pos' - 1) >= Level'
    BY <1>1 DEF Depth
<1> HIDE DEF open
<1>6. open(pos - 1) \in Nat /\ open(pos' - 1) \in Nat
    BY <1>2, <1>3
<1>7. CASE Level' = 0
    BY <1>5, <1>6, <1>7
(* A token that is no closing brace.                                       *)
<1>8. ASSUME pos <= Len(toks), pos' = pos + 1, Level' <= Level, ~Closes(toks, pos)
      PROVE  Depth'
    <2>1. pos \in 1 .. Len(toks) /\ pos' - 1 = pos
        BY <1>n, <1>8
    <2>2. open(pos) >= open(pos - 1)
        BY <1>n, <1>8, <2>1, OpenBlocksLaws DEF open, Closes
    <2> QED
        BY <1>4, <1>5, <1>6, <1>8, <2>1, <2>2
<1>9. CASE OpenServer
    <2>1. CASE ctx' = "server"
        <3>1. IsTok(pos, <<"server">>) /\ IsTok(pos + 1, <<"{">>) /\ pos' = pos + 2
            BY <1>9, <2>1 DEF OpenServer
        <3>2. pos' = pos + 2
            BY <3>1
        <3>3. pos + 1 <= Len(toks)
            BY <3>1 DEF IsTok
        <3>4. pos + 1 \in 1 .. Len(toks) /\ pos' - 1 = pos + 1 /\ (pos + 1) - 1 = pos /\ pos \in 0 .. Len(toks)
            BY <1>n, <3>2, <3>3
        <3>5. toks[pos + 1] = <<"{">>
            BY <3>1 DEF IsTok
        <3>6. open(pos + 1) = open(pos) + 1
            <4> DEFINE i == pos + 1
            <4>1. i \in 1 .. Len(toks) /\ i - 1 = pos /\ toks[i] = <<"{">>
                BY <3>4, <3>5
            <4> HIDE DEF i
            <4>2. open(i) = open(i - 1) + 1
                BY <1>n, <4>1, OpenBlocksLaws DEF open
            <4> QED
                BY <4>1, <4>2 DEF i
        <3>7. open(pos) \in Nat
            BY <1>2, <3>4
        <3>8. Level' = 1
            BY <2>1 DEF Level
        <3> QED
            BY <1>5, <3>4, <3>6, <3>7, <3>8
    <2>2. CASE ctx' # "server"
        <3>1. Level' = 0
            BY <1>9, <2>2 DEF OpenServer, Level
        <3> QED
            BY <1>7, <3>1
    <2> QED
        BY <2>1, <2>2
<1>10. CASE ExpectServer \/ Finish \/ CloseServer
    <2>1. Level' = 0
        BY <1>10 DEF ExpectServer, Finish, CloseServer, Level
    <2> QED
        BY <1>7, <2>1
<1>11. CASE OpenRoute
    <2>1. ctx = "server" /\ IsTok(pos, <<"route">>)
        BY <1>11 DEF OpenRoute
    <2>2. open(pos) >= 1 /\ (pos + 1 <= Len(toks) => open(pos + 1) >= 1)
        BY <2>1, RouteHead DEF open
    <2>3. CASE ctx' = "route"
        <3>1. IsTok(pos + 2, <<"{">>) /\ pos' = pos + 3
            BY <1>11, <2>1, <2>3 DEF OpenRoute
        <3>2. pos' = pos + 3
            BY <3>1
        <3>3. pos + 2 <= Len(toks)
            BY <3>1 DEF IsTok
        <3>4. /\ pos + 2 \in 1 .. Len(toks) /\ pos' - 1 = pos + 2 /\ (pos + 2) - 1 = pos + 1
              /\ pos + 1 \in 0 .. Len(toks) /\ pos + 1 <= Len(toks)
            BY <1>n, <3>2, <3>3
        <3>5. toks[pos + 2] = <<"{">>
            BY <3>1 DEF IsTok
        <3>6. open(pos + 2) = open(pos + 1) + 1
            <4> DEFINE i == pos + 2
            <4>1. i \in 1 .. Len(toks) /\ i - 1 = pos + 1 /\ toks[i] = <<"{">>
                BY <3>4, <3>5
            <4> HIDE DEF i
            <4>2. open(i) = open(i - 1) + 1
                BY <1>n, <4>1, OpenBlocksLaws DEF open
            <4> QED
                BY <4>1, <4>2 DEF i
        <3>7. open(pos + 1) \in Nat /\ open(pos + 1) >= 1
            BY <1>2, <2>2, <3>4
        <3>8. Level' = 2
            BY <2>3 DEF Level
        <3> QED
            BY <1>5, <3>4, <3>6, <3>7, <3>8
    <2>4. CASE ctx' # "route"
        <3>1. pos' = TwoAhead /\ Level' = 1
            BY <1>11, <2>1, <2>4 DEF OpenRoute, Level
        <3>2. pos <= Len(toks)
            BY <2>1 DEF IsTok
        <3>3. pos' \in pos + 1 .. Len(toks) + 1 /\ pos' <= pos + 2
            <4>1. pos \in 1 .. Len(toks)
                BY <1>n, <3>2
            <4> QED
                BY <1>n, <3>1, <4>1, AtMostTwo
        <3>4. pos' - 1 = pos \/ (pos' - 1 = pos + 1 /\ pos + 1 <= Len(toks))
            <4>1. PICK q \in Nat : q = pos'
                BY <1>1
            <4>2. pos + 1 <= q /\ q <= Len(toks) + 1 /\ q <= pos + 2
                BY <1>n, <3>3, <4>1
            <4>3. q = pos + 1 \/ q = pos + 2
                BY <1>n, <4>2
            <4>4. q - 1 = pos \/ (q - 1 = pos + 1 /\ pos + 1 <= Len(toks))
                BY <1>n, <4>2, <4>3
            <4> QED
                BY <4>1, <4>4
        <3>5. open(pos' - 1) >= 1
            BY <2>2, <3>4
        <3> QED
            BY <1>5, <3>1, <3>5
    <2> QED
        BY <2>3, <2>4
<1>12. CASE ServerDirective \/ RouteDirective
    <2>1. IsWord(pos) /\ pos' = ReadDirective.next /\ ctx' = ctx
        BY <1>12 DEF ServerDirective, RouteDirective
    <2>2. pos' \in pos .. ReadDirective.next
        BY <1>n, <1>1, <2>1
    <2>3. open(pos' - 1) >= open(pos - 1)
        <3>1. PICK q : q = pos'
            OBVIOUS
        <3>2. q \in pos .. ReadDirective.next
            BY <2>2, <3>1
        <3>3. open(q - 1) >= open(pos - 1)
            BY <2>1, <3>2, DirectiveInside DEF open
        <3> QED
            BY <3>1, <3>3
    <2>4. Level' = Level
        BY <2>1 DEF Level
    <2> QED
        BY <1>4, <1>5, <1>6, <2>3, <2>4
<1>13. CASE CloseRoute
    <2>1. Level = 2 /\ Level' = 1
        BY <1>13 DEF CloseRoute, Level
    <2>2. CASE pos > Len(toks)
        <3>1. pos' = pos
            BY <1>13, <2>2 DEF CloseRoute
        <3> QED
            BY <1>4, <1>5, <1>6, <2>1, <3>1
    <2>3. CASE ~(pos > Len(toks))
        <3>1. pos' = pos + 1
            BY <1>13, <2>3 DEF CloseRoute
        <3>2. pos \in 1 .. Len(toks) /\ pos' - 1 = pos
            BY <1>n, <2>3, <3>1
        <3>3. open(pos) >= open(pos - 1) - 1
            BY <1>n, <3>2, OpenBlocksLaws DEF open
        <3> QED
            BY <1>4, <1>5, <1>6, <2>1, <3>2, <3>3
    <2> QED
        BY <2>2, <2>3
<1>14. CASE Unexpected
    <2>1. pos' = pos + 1 /\ ctx' = ctx /\ pos <= Len(toks)
        BY <1>14 DEF Unexpected, IsTok
    <2>2. ~Closes(toks, pos)
        BY <1>14, Apart DEF Unexpected, IsTok, Closes
    <2>3. Level' <= Level
        <3>1. Level' = Level
            BY <2>1 DEF Level
        <3> QED
            BY <1>4, <3>1
    <2> QED
        BY <1>8, <2>1, <2>2, <2>3
<1> QED
    BY <1>9, <1>10, <1>11, <1>12, <1>13, <1>14 DEF Next

-----------------------------------------------------------------------------
(***************************************************************************)
(* Blocks stand alone.                                                     *)
(***************************************************************************)

(* A server is added at the end, and none is taken away.                   *)
LEMMA ServersStay ==
    ASSUME IInv, Next
    PROVE  /\ ToSet(servers) \subseteq ToSet(servers')
           /\ servers' = Append(servers, server) => server \in ToSet(servers')
<1>1. PICK S : servers \in Seq(S)
    BY DEF IInv, ServersOK
<1>2. ASSUME NEW s PROVE /\ ToSet(servers) \subseteq ToSet(Append(servers, s))
                         /\ s \in ToSet(Append(servers, s))
    <2> DEFINE U == S \cup {s}
               n == Len(servers)
               more == Append(servers, s)
    <2>1. servers \in Seq(U) /\ s \in U
        BY <1>1
    <2>2. /\ n \in Nat /\ DOMAIN servers = 1 .. n /\ DOMAIN more = 1 .. n + 1
          /\ more[n + 1] = s /\ \A i \in 1 .. n : more[i] = servers[i]
        BY <2>1, LenProperties, AppendProperties
    <2> HIDE DEF n, more, U
    <2>3. s \in ToSet(more)
        BY <2>2 DEF ToSet
    <2>4. \A i \in DOMAIN servers : servers[i] \in ToSet(more)
        BY <2>2 DEF ToSet
    <2>5. ToSet(servers) \subseteq ToSet(more)
        BY <2>4 DEF ToSet
    <2> QED
        BY <2>3, <2>5 DEF more
<1>3. servers' = servers \/ servers' = Append(servers, server)
    BY DEF Next, OpenServer, ExpectServer, Finish, CloseServer, OpenRoute, ServerDirective,
       CloseRoute, RouteDirective, Unexpected
<1> QED
    BY <1>2, <1>3

(* A block outside every other that has not begun is not passed over: the  *)
(* parser is in no block there, and opens this one.                        *)
LEMMA BlockFound ==
    ASSUME IInv, Depth, Next, NEW a \in Places, NEW b \in Places,
           IsServer(toks, a, b), OpenBlocks(toks, a - 1) = 0, pos <= a, a < pos'
    PROVE  BlockRead(a)' /\ BlockLeft(b)'
<1>n. Len(toks) \in Nat /\ pos \in Nat /\ 1 <= pos /\ pos <= Len(toks) + 1
    BY LenProperties DEF IInv
<1>a. a \in Nat /\ b \in Nat /\ a <= Len(toks) /\ b <= Len(toks)
    BY <1>n DEF Places
<1>1. toks' = toks
    BY TurnOK DEF Turn
<1>2. ctx \notin {"server", "route"}
    <2>1. ASSUME ctx \in {"server", "route"} PROVE OpenBlocks(toks, a - 1) >= 1
        BY <1>a, <2>1, Inside
    <2> QED
        BY <2>1
<1>3. /\ ServerOpens(toks, a) /\ Closes(toks, b) /\ toks[a] = <<"server">> /\ toks[a + 1] = <<"{">>
      /\ Sequence(a + 2, b - 1, ServerItems(toks)) /\ PortIn(toks, a + 2, b - 1)
    BY DEF IsServer, ServerOpens, Closes
<1>4. a + 2 <= b
    <2>1. b >= a + 2
        BY DEF IsServer
    <2> QED
        BY <1>a, <2>1
<1>5. OpenServer \/ ExpectServer \/ Finish
    BY <1>2 DEF Next, CloseServer, OpenRoute, ServerDirective, CloseRoute, RouteDirective, Unexpected
<1>6. ASSUME pos' = pos + 1 PROVE pos = a
    BY <1>n, <1>a, <1>6
<1>7. CASE OpenServer
    <2>1. IsTok(pos, <<"server">>)
        BY <1>7 DEF OpenServer
    <2>2. pos = a
        <3>1. CASE IsTok(pos + 1, <<"{">>)
            <4>1. pos' = pos + 2
                BY <1>7, <3>1 DEF OpenServer
            <4>2. pos = a \/ pos + 1 = a
                BY <1>n, <1>a, <4>1
            <4>3. pos + 1 # a
                BY <1>3, <3>1, Apart DEF IsTok
            <4> QED
                BY <4>2, <4>3
        <3>2. CASE ~IsTok(pos + 1, <<"{">>)
            BY <1>6, <1>7, <3>2 DEF OpenServer
        <3> QED
            BY <3>1, <3>2
    <2>3. pos + 1 <= Len(toks)
        BY <1>n, <1>a, <1>4, <2>2
    <2>4. ServerOpens(toks, pos) /\ a = pos
        BY <1>3, <2>2
    <2>5. BlockRead(a)' /\ pos' = pos + 2 /\ ctx' = "server"
        BY <1>7, <2>3, <2>4, BlockOpens
    <2>6. ServerLeft(toks, server', a + 2, b)
        BY <1>3, <1>4 DEF ServerLeft
    <2>7. BlockLeft(b)'
        BY <1>1, <2>4, <2>5, <2>6 DEF BlockLeft
    <2> QED
        BY <2>5, <2>7
<1>8. CASE ExpectServer
    <2>1. pos <= Len(toks) /\ pos' = pos + 1 /\ toks[pos] # <<"server">>
        BY <1>8 DEF ExpectServer, IsTok
    <2> QED
        BY <1>3, <1>6, <2>1
<1>9. CASE Finish
    <2>1. pos' = pos
        BY <1>9 DEF Finish
    <2> QED
        BY <1>n, <1>a, <2>1
<1> QED
    BY <1>5, <1>7, <1>8, <1>9

(* A block that is read and left without a complaint is so after a turn,   *)
(* or has yielded its server.                                              *)
LEMMA BlockStays ==
    ASSUME IInv, ErrorsBehind, Next, NEW a \in Places, NEW b \in Places,
           BlockRead(a), BlockLeft(b)
    PROVE  \/ BlockRead(a)' /\ BlockLeft(b)'
           \/ pos' = b + 1 /\ ToSet(servers') \cap ServersMade(toks, a, b) # {}
<1>1. errors' = errors /\ (BlockLeft(b)' \/ (pos = b /\ pos' = pos + 1 /\ ctx' = "top"))
    BY BlockLeftOn
<1>2. pos \notin errors
    <2>1. pos <= Len(toks)
        BY LeftWithin
    <2>2. Len(toks) \in Nat /\ pos \in Nat
        BY LenProperties DEF IInv
    <2>3. pos \in errors => pos < pos \/ pos > Len(toks)
        BY DEF ErrorsBehind
    <2> QED
        BY <2>1, <2>2, <2>3
<1>3. BlockRead(a)' \/ Yields(a)
    BY <1>1, <1>2, BlockReadOn
<1>4. CASE Yields(a)
    <2>1. ctx' = "top" /\ server \in ServersMade(toks, a, pos) /\ servers' = Append(servers, server)
        BY <1>4 DEF Yields
    <2>2. ~BlockLeft(b)'
        BY <2>1 DEF BlockLeft
    <2>3. pos = b /\ pos' = pos + 1
        BY <1>1, <2>2
    <2>4. server \in ToSet(servers')
        BY <2>1, ServersStay
    <2> QED
        BY <2>1, <2>3, <2>4
<1>5. CASE BlockRead(a)'
    <2>1. ctx' # "top"
        BY <1>5 DEF BlockRead
    <2> QED
        BY <1>1, <1>5, <2>1
<1> QED
    BY <1>3, <1>4, <1>5

(* No turn of the parser takes down a block outside every other.           *)
LEMMA StandingOK ==
    ASSUME IInv, ErrorsBehind, Depth, Standing, Next
    PROVE  Standing'
<1>n. Len(toks) \in Nat /\ pos \in Nat /\ pos <= Len(toks) + 1
    BY LenProperties DEF IInv
<1>1. toks' = toks /\ pos' \in pos .. Len(toks) + 1
    BY TurnOK DEF Turn
<1>2. pos' \in Nat /\ pos <= pos'
    BY <1>n, <1>1
<1> SUFFICES ASSUME NEW a \in Places, NEW b \in Places,
                    IsServer(toks, a, b), OpenBlocks(toks, a - 1) = 0
             PROVE  Stands(a, b)'
    BY <1>1 DEF Standing, Places
<1>a. a \in Nat /\ b \in Nat
    BY DEF Places
<1>3. \/ pos' <= a
      \/ BlockRead(a)' /\ BlockLeft(b)'
      \/ pos' > b /\ ToSet(servers') \cap ServersMade(toks, a, b) # {}
      => Stands(a, b)'
    BY <1>1 DEF Stands
<1>4. Stands(a, b)
    BY DEF Standing
<1>5. CASE pos <= a
    <2>1. pos' <= a \/ a < pos'
        BY <1>a, <1>2
    <2>2. ASSUME a < pos' PROVE BlockRead(a)' /\ BlockLeft(b)'
        BY <1>5, <2>2, BlockFound
    <2> QED
        BY <1>3, <2>1, <2>2
<1>6. CASE BlockRead(a) /\ BlockLeft(b)
    <2>1. \/ BlockRead(a)' /\ BlockLeft(b)'
          \/ pos' = b + 1 /\ ToSet(servers') \cap ServersMade(toks, a, b) # {}
        BY <1>6, BlockStays
    <2>2. pos' = b + 1 => pos' > b
        BY <1>a, <1>2
    <2> QED
        BY <1>3, <2>1, <2>2
<1>7. CASE pos > b /\ ToSet(servers) \cap ServersMade(toks, a, b) # {}
    <2>1. pos' > b
        <3>1. pos > b
            BY <1>7
        <3> QED
            BY <1>n, <1>a, <1>2, <3>1
    <2>2. ToSet(servers') \cap ServersMade(toks, a, b) # {}
        BY <1>7, ServersStay
    <2> QED
        BY <1>3, <2>1, <2>2
<1> QED
    BY <1>4, <1>5, <1>6, <1>7 DEF Stands

-----------------------------------------------------------------------------
(***************************************************************************)
(* What the parser makes of a file.                                        *)
(***************************************************************************)

(* Nothing is read and everything is left.                                 *)
LEMMA DescentBegins == IInv /\ Init => DInv
<1> SUFFICES ASSUME IInv, Init PROVE DInv
    OBVIOUS
<1>1. pos = 1 /\ ctx = "top" /\ errors = {}
    BY DEF Init
<1>n. Len(toks) \in Nat
    BY LenProperties DEF IInv
<1>2. Descent
    <2>1. Sequence(1, pos - 1, Servers(toks))
        <3>1. pos - 1 = 1 - 1 /\ 1 \in Nat \ {0}
            BY <1>1
        <3> QED
            BY <3>1, SequenceNone
    <2>2. WellRead
        BY <1>1, <2>1 DEF WellRead
    <2>3. Sequence(1, Len(toks), Servers(toks)) => WellLeft
        BY <1>1 DEF WellLeft
    <2> QED
        BY <1>1, <2>2, <2>3 DEF Descent
<1>3. ErrorsBehind /\ DoneAtEnd
    BY <1>1 DEF ErrorsBehind, DoneAtEnd
<1>4. Depth
    <2>1. pos - 1 = 0 /\ 0 \in 0 .. Len(toks) /\ Level = 0
        BY <1>1, <1>n DEF Level
    <2>2. OpenBlocks(toks, 0) \in Nat
        BY <1>n, <2>1, OpenBlocksLaws
    <2> QED
        BY <2>1, <2>2 DEF Depth
<1>5. Standing
    <2>1. \A a \in Places : pos <= a
        BY <1>1, <1>n DEF Places
    <2> QED
        BY <2>1 DEF Standing, Stands
<1> QED
    BY <1>2, <1>3, <1>4, <1>5 DEF DInv

(* A step that changes nothing changes nothing of this.                    *)
LEMMA DescentUnmoved == DInv /\ UNCHANGED vars => DInv'
<1> SUFFICES ASSUME DInv, UNCHANGED vars PROVE DInv'
    OBVIOUS
<1>1. /\ toks' = toks /\ pos' = pos /\ ctx' = ctx /\ server' = server /\ route' = route
      /\ servers' = servers /\ errors' = errors
    BY DEF vars
<1>2. ASSUME NEW a PROVE (BlockRead(a) <=> BlockRead(a)') /\ (BlockLeft(a) <=> BlockLeft(a)')
    BY <1>1 DEF BlockRead, BlockLeft, Places
<1>3. Places' = Places
    BY <1>1 DEF Places
<1>4. Descent'
    <2>1. WellRead => WellRead'
        BY <1>1, <1>2, <1>3 DEF WellRead
    <2>2. WellLeft => WellLeft'
        BY <1>1, <1>2, <1>3 DEF WellLeft
    <2> QED
        BY <1>1, <2>1, <2>2 DEF DInv, Descent
<1>5. ErrorsBehind' /\ DoneAtEnd' /\ Depth'
    BY <1>1 DEF DInv, ErrorsBehind, DoneAtEnd, Depth, Level
<1>6. Standing'
    BY <1>1, <1>2, <1>3 DEF DInv, Standing, Stands
<1> QED
    BY <1>4, <1>5, <1>6 DEF DInv

(* What DInv says holds of every state of the descent.                     *)
THEOREM DescentInvariance == Spec => []DInv
<1>1. IInv /\ DInv /\ Next => DInv'
    BY DescentOK, ErrorsBehindOK, DepthOK, StandingOK DEF DInv
<1>2. IInv /\ DInv /\ [Next]_vars => DInv'
    BY <1>1, DescentUnmoved
<1> QED
    BY <1>2, DescentBegins, Invariance, PTL DEF Spec

(* A file is accepted without a complaint exactly if it is a sequence of   *)
(* well-formed server blocks, whatever the file and whatever words are     *)
(* ports, addresses and sizes: the descent and its recovery from errors    *)
(* recognise the grammar.                                                  *)
THEOREM RecognisesTheGrammar == Spec => []ComplaintsExact
<1>1. IInv /\ DInv => ComplaintsExact
    <2> SUFFICES ASSUME IInv, DInv, ctx = "done"
                 PROVE  errors = {} <=> Sequence(1, Len(toks), Servers(toks))
        BY DEF ComplaintsExact
    <2>1. ASSUME errors = {} PROVE Sequence(1, Len(toks), Servers(toks))
        <3>1. Sequence(1, pos - 1, Servers(toks))
            BY <2>1 DEF DInv, Descent, WellRead
        <3>2. pos = Len(toks) + 1 /\ Len(toks) \in Nat
            BY LenProperties DEF DInv, DoneAtEnd, IInv
        <3>3. pos - 1 = Len(toks)
            BY <3>2
        <3> QED
            BY <3>1, <3>3
    <2>2. Sequence(1, Len(toks), Servers(toks)) => errors = {}
        BY DEF DInv, Descent
    <2> QED
        BY <2>1, <2>2
<1> QED
    BY <1>1, DescentInvariance, Invariance, PTL

(* One broken block does not take down the rest, whatever the file: a      *)
(* well-formed block that stands outside every other yields the server it  *)
(* means, however broken what comes before or after it is.                 *)
THEOREM BlocksKept == Spec => []BlocksStandAlone
<1>1. IInv /\ DInv => BlocksStandAlone
    <2> SUFFICES ASSUME IInv, DInv, ctx = "done", NEW a \in DOMAIN toks, NEW b \in DOMAIN toks,
                        IsServer(toks, a, b), OpenBlocks(toks, a - 1) = 0
                 PROVE  ToSet(servers) \cap ServersMade(toks, a, b) # {}
        BY DEF BlocksStandAlone
    <2>1. a \in Places /\ b \in Places
        BY LenProperties DEF Places, IInv
    <2>2. Stands(a, b)
        BY <2>1 DEF DInv, Standing
    <2>3. ~(pos <= a)
        <3>1. pos = Len(toks) + 1 /\ Len(toks) \in Nat
            BY LenProperties DEF DInv, DoneAtEnd, IInv
        <3>2. a \in 1 .. Len(toks)
            BY <2>1 DEF Places
        <3> QED
            BY <3>1, <3>2
    <2>4. ~BlockRead(a)
        BY DEF BlockRead
    <2> QED
        BY <2>2, <2>3, <2>4 DEF Stands
<1> QED
    BY <1>1, DescentInvariance, Invariance, PTL

=============================================================================
