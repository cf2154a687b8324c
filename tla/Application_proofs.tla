-------------------------- MODULE Application_proofs --------------------------
(***************************************************************************)
(* What is proved of Application, for any routes, requests, files, clients *)
(* and session ids: sessions implement their abstract specification and no *)
(* two clients share one; a refused request leaves no trace; what a        *)
(* request does to files, it does in the root of its route; the disk keeps *)
(* its shape; an answer tells what became of the files that were sent; and *)
(* what a script prints reaches the client as it was meant.                *)
(***************************************************************************)
EXTENDS Application, SequenceTheorems, Recursion, TLAPS

(* Sessions have been given out and counted at least one visit.            *)
SessionsHeld ==
    /\ given \subseteq Ids
    /\ DOMAIN sessions \subseteq given
    /\ sessions \in [DOMAIN sessions -> Session]
    /\ \A id \in DOMAIN sessions : sessions[id].visits >= 1

(* A client keeps at most one id, one that was given out, and its own.     *)
JarsApart ==
    /\ jar \in [Clients -> SUBSET given]
    /\ \A c \in Clients : jar[c] = NoCookie \/ \E id \in Ids : jar[c] = {id}
    /\ OneClientPerSession

(* Only a request that is writing has touched files and goes on, and what  *)
(* it is answered then is not a refusal.                                   *)
TracesKept ==
    /\ pc \notin {"write", "answered"} => acts = <<>>
    /\ pc = "answered" /\ acts # <<>> => Ran \/ resp.status \in {200, 201, 204, 500}

SInv == SessionsHeld /\ JarsApart /\ TracesKept

-----------------------------------------------------------------------------
(* What evict_expired leaves, as a function.                               *)
LEMMA LeftExact ==
    /\ DOMAIN EvictExpired = Live
    /\ \A id \in Live : EvictExpired[id] = sessions[id]
    /\ Live \subseteq DOMAIN sessions
BY DEF EvictExpired, Restrict, Live

(* touch either counts a visit of the live session that was sent, or       *)
(* begins one under an id that is new or made from the clock; the expired  *)
(* sessions are gone in both cases.                                        *)
VisitsLive(sent, id) ==
    /\ id \in sent \cap Live
    /\ DOMAIN sessions' = Live
    /\ sessions'[id] = [visits |-> sessions[id].visits + 1, age |-> 0]
    /\ \A i \in Live \ {id} : sessions'[i] = sessions[i]
    /\ answer' = [sent |-> sent, id |-> {id}, visits |-> sessions[id].visits + 1]
    /\ given' = given

BeginsNew(sent, id) ==
    /\ sent \cap Live = {}
    /\ id \in Ids /\ (id \notin given \/ id \in ClockIds)
    /\ DOMAIN sessions' = Live \cup {id}
    /\ sessions'[id] = [visits |-> 1, age |-> 0]
    /\ \A i \in Live \ {id} : sessions'[i] = sessions[i]
    /\ given' = given \cup {id}
    /\ answer' = [sent |-> sent, id |-> {id}, visits |-> 1]

(* touch is one of these two, whatever was in the cookie.                  *)
LEMMA TouchCases ==
    ASSUME NEW sent, Touch(sent)
    PROVE  /\ sessions' = [i \in DOMAIN sessions' |-> sessions'[i]]
           /\ (\E id \in sent : VisitsLive(sent, id)) \/ (\E id \in Ids : BeginsNew(sent, id))
<1> DEFINE left == EvictExpired
<1>1. DOMAIN left = Live /\ \A id \in Live : left[id] = sessions[id]
  BY LeftExact
<1>2. left = [id \in Live |-> left[id]]
  BY DEF EvictExpired, Restrict
<1> HIDE DEF left
<1>3. ASSUME NEW id \in sent \cap DOMAIN left,
             sessions' = [left EXCEPT ![id] = Visit(@)],
             answer' = [sent |-> sent, id |-> {id}, visits |-> left[id].visits + 1],
             given' = given
      PROVE  sessions' = [i \in DOMAIN sessions' |-> sessions'[i]] /\ VisitsLive(sent, id)
  <2>1. DOMAIN sessions' = Live /\ sessions' = [i \in DOMAIN sessions' |-> sessions'[i]]
    BY <1>1, <1>2, <1>3
  <2>2. sessions'[id] = Visit(sessions[id])
    BY <1>1, <1>2, <1>3
  <2>3. \A i \in Live \ {id} : sessions'[i] = sessions[i]
    BY <1>1, <1>2, <1>3
  <2> QED
    BY <1>1, <1>3, <2>1, <2>2, <2>3 DEF VisitsLive, Visit
<1>4. ASSUME sent \cap DOMAIN left = {}, NEW id \in RandomId,
             sessions' = [i \in DOMAIN left \cup {id} |->
                            IF i = id THEN [visits |-> 1, age |-> 0] ELSE left[i]],
             given' = given \cup {id},
             answer' = [sent |-> sent, id |-> {id}, visits |-> 1]
      PROVE  sessions' = [i \in DOMAIN sessions' |-> sessions'[i]] /\ BeginsNew(sent, id) /\ id \in Ids
  <2>1. sessions' = [i \in Live \cup {id} |->
                       IF i = id THEN [visits |-> 1, age |-> 0] ELSE sessions[i]]
    BY <1>1, <1>4
  <2>2. id \in Ids /\ (id \notin given \/ id \in ClockIds)
    BY <1>4, StoreAssumption DEF RandomId
  <2> QED
    BY <1>1, <1>4, <2>1, <2>2 DEF BeginsNew
<1> QED
  BY <1>3, <1>4 DEF Touch, left

-----------------------------------------------------------------------------
(* The first state satisfies the invariant.                                *)
LEMMA InitOK == Init => SInv
<1> SUFFICES ASSUME Init PROVE SInv
  OBVIOUS
<1> USE DEF Init, SessionInit, RouterInit
<1>1. SessionsHeld
  BY DEF SessionsHeld
<1>2. JarsApart
  BY DEF JarsApart, OneClientPerSession, NoCookie
<1>3. TracesKept
  BY DEF TracesKept
<1> QED
  BY <1>1, <1>2, <1>3 DEF SInv

(* touch and Set-Cookie.                                                   *)
LEMMA CountVisitOK ==
    ASSUME SInv, NEW c \in Clients, NEW sent \in {NoCookie, jar[c]}, NEW arrives \in BOOLEAN,
           CountVisit(c, sent, arrives)
    PROVE  SInv'
<1> USE DEF SInv
<1>1. Touch(sent) /\ pc' = "idle" /\ acts' = <<>>
      /\ jar' = (IF arrives /\ answer'.visits = 1 THEN [jar EXCEPT ![c] = answer'.id] ELSE jar)
  BY DEF CountVisit, Done
<1>2. sessions' = [i \in DOMAIN sessions' |-> sessions'[i]]
  BY <1>1, TouchCases
<1>3. ASSUME NEW id \in sent, VisitsLive(sent, id)
      PROVE  SessionsHeld' /\ JarsApart'
  <2>1. id \in Live /\ Live \subseteq DOMAIN sessions /\ DOMAIN sessions' = Live /\ given' = given
    BY <1>3 DEF VisitsLive, Live
  <2>2. sessions[id].visits \in Nat /\ sessions[id].visits >= 1
    BY <2>1 DEF SessionsHeld, Session
  <2>3. \A i \in DOMAIN sessions' : sessions'[i] \in Session /\ sessions'[i].visits >= 1
    BY <1>3, <2>1, <2>2, StoreAssumption DEF VisitsLive, SessionsHeld, Session
  <2>4. SessionsHeld'
    BY <1>2, <2>1, <2>3 DEF SessionsHeld
  <2>5. answer'.visits # 1
    BY <1>3, <2>2 DEF VisitsLive
  <2> QED
    BY <1>1, <2>1, <2>4, <2>5 DEF JarsApart, OneClientPerSession
<1>4. ASSUME NEW id \in Ids, BeginsNew(sent, id)
      PROVE  SessionsHeld' /\ JarsApart'
  <2>1. /\ Live \subseteq DOMAIN sessions /\ DOMAIN sessions' = Live \cup {id}
        /\ given' = given \cup {id} /\ answer'.id = {id}
    BY <1>4 DEF BeginsNew, Live
  <2>2. \A i \in DOMAIN sessions' : sessions'[i] \in Session /\ sessions'[i].visits >= 1
    BY <1>4, <2>1, StoreAssumption DEF BeginsNew, SessionsHeld, Session
  <2>3. SessionsHeld'
    BY <1>2, <2>1, <2>2 DEF SessionsHeld
  <2>4. CASE jar' = jar
    <3>1. jar' \in [Clients -> SUBSET given']
      BY <2>1, <2>4 DEF JarsApart
    <3> QED
      BY <2>3, <2>4, <3>1 DEF JarsApart, OneClientPerSession
  <2>5. CASE jar' = [jar EXCEPT ![c] = {id}]
    <3>1. jar'[c] = {id} /\ \A d \in Clients \ {c} : jar'[d] = jar[d]
      BY <2>5 DEF JarsApart
    <3>2. jar' \in [Clients -> SUBSET given']
      BY <2>1, <2>5 DEF JarsApart
    <3>3. \A d \in Clients : jar'[d] = NoCookie \/ \E i \in Ids : jar'[d] = {i}
      BY <3>1 DEF JarsApart
    <3>4. \A d \in Clients \ {c} : id \in jar[d] => id \in ClockIds
      BY <1>4 DEF BeginsNew, JarsApart
    <3>5. OneClientPerSession'
      BY <3>1, <3>4 DEF OneClientPerSession, JarsApart
    <3> QED
      BY <2>3, <3>2, <3>3, <3>5 DEF JarsApart, NoCookie
  <2> QED
    BY <1>1, <2>1, <2>3, <2>4, <2>5
<1>5. TracesKept'
  BY <1>1 DEF TracesKept
<1> QED
  BY <1>1, <1>3, <1>4, <1>5, TouchCases

(* Time passes.                                                            *)
LEMMA TickOK == SInv /\ Tick => SInv'
<1> SUFFICES ASSUME SInv, Tick PROVE SInv'
  OBVIOUS
<1> USE DEF SInv
<1>1. /\ sessions' = [id \in DOMAIN sessions |->
                        [sessions[id] EXCEPT !.age = IF @ < Ttl THEN @ + 1 ELSE @]]
      /\ UNCHANGED <<given, answer, jar, pc, acts, resp>>
  BY DEF Tick, SessionTick, routerVars
<1>2. \A s \in Session : /\ [s EXCEPT !.age = IF @ < Ttl THEN @ + 1 ELSE @] \in Session
                         /\ [s EXCEPT !.age = IF @ < Ttl THEN @ + 1 ELSE @].visits = s.visits
  BY StoreAssumption DEF Session
<1>3. SessionsHeld'
  BY <1>1, <1>2 DEF SessionsHeld
<1>4. JarsApart'
  BY <1>1 DEF JarsApart, OneClientPerSession
<1>5. TracesKept'
  BY <1>1 DEF TracesKept, Ran
<1> QED
  BY <1>3, <1>4, <1>5

(* A request arrives; all it does is to start.                             *)
LEMMA AskOK ==
    ASSUME SInv, NEW q \in Requests, Ask(q)
    PROVE  SInv'
<1> USE DEF SInv
<1>1. acts' = <<>> /\ pc' = "route" /\ UNCHANGED <<sessions, given, answer, jar>>
  BY DEF Ask, Arrive, sessionVars
<1>2. SessionsHeld' /\ JarsApart' /\ TracesKept'
  BY <1>1 DEF SessionsHeld, JarsApart, OneClientPerSession, TracesKept
<1> QED
  BY <1>2

(* The router's steps up to the first that touches a file, and those that  *)
(* do nothing but answer.                                                  *)
LEMMA UntouchedOK ==
    ASSUME TracesKept, pc \notin {"write", "answered"}, acts' = acts
    PROVE  TracesKept'
BY DEF TracesKept

(* What a step that answers, and one that goes on, leave behind.           *)
LEMMA RepliesAre == \A status : Reply(status) => pc' = "answered" /\ resp'.status = status
BY DEF Reply, Answer

(* The same of a step that goes on to another call.                        *)
LEMMA CallsAre == \A next : Call(next) => pc' = next /\ resp' = resp
BY DEF Call

(* What the router does keeps to its traces.                               *)
LEMMA RouterStepTraces ==
    ASSUME TracesKept, RouterStep
    PROVE  TracesKept'
<1> USE DEF Answer, Reply, Call, Untouched
<1>1. CASE NoRoute \/ Redirect \/ NotAllowed \/ TryCgi \/ Unservable \/ ServeGet
  <2>1. pc = "route" /\ acts' = acts
    BY <1>1 DEF NoRoute, Redirect, NotAllowed, TryCgi, Unservable, ServeGet, Found, Admitted,
                Static, Servable
  <2> QED
    BY <2>1, UntouchedOK
<1>2. CASE GetMetadata \/ GetIndex \/ Canonicalize
  <2>1. pc \in {"metadata", "index", "canonicalize"} /\ acts' = acts
    BY <1>2 DEF GetMetadata, GetIndex, Canonicalize
  <2> QED
    BY <2>1, UntouchedOK
<1>3. CASE ServeFile
  <2>1. pc = "read" /\ pc' = "answered" /\ (resp'.status = 200 \/ acts' = acts)
    BY <1>3 DEF ServeFile
  <2> QED
    BY <2>1, UntouchedOK DEF TracesKept
<1>4. CASE AutoIndex
  <2>1. pc = "read_dir" /\ pc' = "answered" /\ (resp'.status = 200 \/ acts' = acts)
    BY <1>4 DEF AutoIndex
  <2> QED
    BY <2>1, UntouchedOK DEF TracesKept
<1>5. CASE Execute
  <2>1. pc = "execute" /\ acts = <<>>
    BY <1>5 DEF Execute, TracesKept
  <2>2. CASE acts' = acts
    BY <2>1, <2>2, UntouchedOK
  <2>3. ASSUME NEW out \in Outputs, pc' = "answered", Note("run", target, out)
        PROVE  TracesKept'
    <3>1. acts' = <<[op |-> "run", path |-> Resolve(target), entry |-> out]>>
      BY <2>1, <2>3 DEF Note
    <3>2. 1 \in DOMAIN acts' /\ acts'[1].op = "run"
      BY <3>1
    <3> QED
      BY <2>3, <3>2 DEF TracesKept, Ran
  <2> QED
    BY <1>5, <2>2, <2>3 DEF Execute
<1>6. CASE HandlePost \/ HandleDelete
  <2>1. pc = "route" /\ acts' = acts
    BY <1>6 DEF HandlePost, HandleDelete, Found, Admitted, Static, Servable
  <2> QED
    BY <2>1, UntouchedOK
<1>7. CASE CreateDirs
  <2>1. pc' = "write" \/ (pc' = "answered" /\ resp'.status = 500)
    <3>1. Call("write") \/ Reply(500)
      <4> HIDE DEF Answer, Reply, Call
      <4> QED
        BY <1>7, Zenon DEF CreateDirs
    <3> QED
      BY <3>1, RepliesAre, CallsAre
  <2> QED
    BY <2>1 DEF TracesKept
<1>8. CASE WriteFile
  <2>1. pc' = "write" \/ (pc' = "answered" /\ resp'.status = 201)
    <3>1. IF todo' = <<>> THEN Reply(201) ELSE Call("write")
      BY <1>8, Zenon DEF WriteFile
    <3>2. Reply(201) \/ Call("write")
      BY <3>1, Zenon
    <3> QED
      BY <3>2, RepliesAre, CallsAre
  <2> QED
    BY <2>1 DEF TracesKept
<1>9. CASE WriteFails
  <2>1. pc' = "answered" /\ resp'.status = 500
    BY <1>9 DEF WriteFails
  <2> QED
    BY <2>1 DEF TracesKept
<1>10. CASE DeleteMetadata
  <2>1. pc = "metadata" /\ acts' = acts
    BY <1>10 DEF DeleteMetadata
  <2> QED
    BY <2>1, UntouchedOK
<1>11. CASE RemoveFile
  <2>1. pc' = "answered" /\ resp'.status \in {204, 500}
    BY <1>11 DEF RemoveFile
  <2> QED
    BY <2>1 DEF TracesKept
<1>12. CASE Meddle
  <2>1. pc' = pc /\ acts' = acts /\ resp' = resp
    BY <1>12 DEF Meddle
  <2> QED
    BY <2>1 DEF TracesKept, Ran
<1> QED
  BY <1>1, <1>2, <1>3, <1>4, <1>5, <1>6, <1>7, <1>8, <1>9, <1>10, <1>11, <1>12 DEF RouterStep

(* The invariant is inductive.                                             *)
LEMMA NextOK == SInv /\ [Next]_vars => SInv'
<1> SUFFICES ASSUME SInv, [Next]_vars PROVE SInv'
  OBVIOUS
<1>1. ASSUME NEW q \in Requests, Ask(q) PROVE SInv'
  BY <1>1, AskOK
<1>2. CASE Handle
  <2>1. RouterStep /\ UNCHANGED <<sessions, given, answer, jar>>
    BY <1>2 DEF Handle, sessionVars
  <2>2. SessionsHeld' /\ JarsApart'
    BY <2>1 DEF SInv, SessionsHeld, JarsApart, OneClientPerSession
  <2> QED
    BY <2>1, <2>2, RouterStepTraces DEF SInv
<1>3. ASSUME NEW c \in Clients, NEW sent \in {NoCookie, jar[c]}, NEW arrives \in BOOLEAN,
             CountVisit(c, sent, arrives)
      PROVE  SInv'
  BY <1>3, CountVisitOK
<1>4. CASE Tick
  BY <1>4, TickOK
<1>5. CASE UNCHANGED vars
  <2>1. UNCHANGED <<sessions, given, answer, jar, pc, acts, resp>>
    BY <1>5 DEF vars, routerVars, sessionVars
  <2> QED
    BY <2>1 DEF SInv, SessionsHeld, JarsApart, OneClientPerSession, TracesKept, Ran
<1> QED
  BY <1>1, <1>2, <1>3, <1>4, <1>5 DEF Next

(* Sessions, jars and traces are as they should be in every state.         *)
THEOREM SessionInvariance == Spec => []SInv
<1>1. SInv /\ [Next]_vars => SInv'
  BY NextOK
<1> QED
  BY <1>1, InitOK, PTL DEF Spec

(* No two clients are ever in one session, unless its id came from the     *)
(* clock.                                                                  *)
THEOREM SessionsNeverShared == Spec => []OneClientPerSession
<1>1. SInv => OneClientPerSession
  BY DEF SInv, JarsApart
<1> QED
  BY <1>1, SessionInvariance, PTL

(* A refused request has done nothing, whatever was asked.                 *)
THEOREM RefusalsLeaveNoTrace == Spec => []RefusedLeavesNoTrace
<1>1. SInv => RefusedLeavesNoTrace
  <2> SUFFICES ASSUME SInv, pc = "answered", ~Ran, resp.status \in 300 .. 499 \cup {501}
               PROVE  acts = <<>>
    BY DEF RefusedLeavesNoTrace
  <2>1. resp.status \notin {200, 201, 204, 500}
    OBVIOUS
  <2> QED
    BY <2>1 DEF SInv, TracesKept
<1> QED
  BY <1>1, SessionInvariance, PTL

-----------------------------------------------------------------------------
(* The refinement: which sessions live, and how long they have been idle.  *)
Served == [id \in Live |-> [visits |-> sessions[id].visits, idle |-> sessions[id].age]]

(* Initially there are none.                                               *)
LEMMA SessionsBegin == Init => Promise!Init
<1> SUFFICES ASSUME Init PROVE Promise!Init
  OBVIOUS
<1>1. Live = {}
  BY DEF Init, SessionInit, Live
<1>2. [id \in Live |-> [visits |-> sessions[id].visits, idle |-> sessions[id].age]] = <<>>
  BY <1>1
<1> QED
  BY <1>2 DEF Init, SessionInit, Promise!Init, NoCookie

(* touch counts a visit or begins a session, as SessionService says.       *)
LEMMA VisitsServed ==
    ASSUME SInv, NEW c \in Clients, NEW sent \in {NoCookie, jar[c]}, Touch(sent)
    PROVE  Promise!Next
<1> USE DEF SInv
<1>1. ASSUME NEW id \in sent, VisitsLive(sent, id)
      PROVE  Promise!Next
  <2>1. /\ sent = {id} /\ id \in Ids
    BY DEF JarsApart, NoCookie
  <2>2. Live' = Live
    BY <1>1, StoreAssumption DEF VisitsLive, Live
  <2>3. Served' = [Served EXCEPT ![id] = [visits |-> @.visits + 1, idle |-> 0]]
    <3>1. Served' = [i \in Live |-> [visits |-> sessions'[i].visits, idle |-> sessions'[i].age]]
      BY <2>2 DEF Served
    <3>2. id \in Live /\ \A i \in Live \ {id} : sessions'[i] = sessions[i]
      BY <1>1 DEF VisitsLive
    <3>3. sessions'[id].visits = sessions[id].visits + 1 /\ sessions'[id].age = 0
      BY <1>1 DEF VisitsLive
    <3>4. DOMAIN Served = Live /\ Served[id].visits = sessions[id].visits
      BY <3>2 DEF Served
    <3>5. \A i \in Live \ {id} : Served'[i] = Served[i]
      BY <3>1, <3>2 DEF Served
    <3>6. Served'[id] = [visits |-> Served[id].visits + 1, idle |-> 0]
      BY <3>1, <3>2, <3>3, <3>4
    <3>7. Served = [i \in Live |-> Served[i]] /\ Served' = [i \in Live |-> Served'[i]]
      BY <3>1 DEF Served
    <3> HIDE DEF Served
    <3> QED
      BY <3>2, <3>4, <3>5, <3>6, <3>7
  <2>4. id \in DOMAIN Served /\ Served[id].visits = sessions[id].visits
    BY <1>1 DEF VisitsLive, Served
  <2>5. Promise!Return(id)
    BY <1>1, <2>1, <2>3, <2>4 DEF Promise!Return, Served, VisitsLive
  <2> QED
    BY <2>1, <2>5 DEF Promise!Next
<1>2. ASSUME NEW id \in Ids, BeginsNew(sent, id)
      PROVE  Promise!Next
  <2>1. sent \in {{}} \cup {{i} : i \in Ids}
    BY DEF JarsApart, NoCookie
  <2>2. Live' = Live \cup {id}
    BY <1>2, StoreAssumption DEF BeginsNew, Live
  <2>3. Served' = [i \in DOMAIN Served \cup {id} |->
                     IF i = id THEN [visits |-> 1, idle |-> 0] ELSE Served[i]]
    BY <1>2, <2>2 DEF Served, BeginsNew
  <2>4. Promise!Begin(sent, id)
    BY <1>2, <2>3 DEF Promise!Begin, Promise!NewSession, Served, BeginsNew
  <2> QED
    BY <2>1, <2>4 DEF Promise!Next
<1> QED
  BY <1>1, <1>2, TouchCases

(* Sessions end as their time is up, although they stay in the map.        *)
LEMMA TimeServed ==
    ASSUME SInv, SessionTick
    PROVE  Promise!Next
<1> USE DEF SInv
<1>1. /\ sessions' = [id \in DOMAIN sessions |->
                        [sessions[id] EXCEPT !.age = IF @ < Ttl THEN @ + 1 ELSE @]]
      /\ UNCHANGED <<given, answer>>
  BY DEF SessionTick
<1>2. \A s \in Session : s.age < Ttl =>
        /\ [s EXCEPT !.age = IF @ < Ttl THEN @ + 1 ELSE @].age = s.age + 1
        /\ [s EXCEPT !.age = IF @ < Ttl THEN @ + 1 ELSE @].visits = s.visits
  BY StoreAssumption DEF Session
<1>3. \A s \in Session : ~(s.age < Ttl) =>
        [s EXCEPT !.age = IF @ < Ttl THEN @ + 1 ELSE @].age = s.age
  BY StoreAssumption DEF Session
<1>4. \A id \in DOMAIN sessions : sessions[id] \in Session
  BY DEF SessionsHeld
<1>5. \A id \in Live : sessions'[id].age = sessions[id].age + 1
                      /\ sessions'[id].visits = sessions[id].visits
  BY <1>1, <1>2, <1>4 DEF Live
<1>6. Live' = {id \in Live : sessions[id].age + 1 < Ttl}
  BY <1>1, <1>3, <1>4, <1>5 DEF Live
<1>7. DOMAIN Served = Live /\ \A id \in Live : Served[id].idle = sessions[id].age
  BY DEF Served
<1>8. Served' = [id \in {i \in DOMAIN Served : Served[i].idle + 1 < Ttl} |->
                   [Served[id] EXCEPT !.idle = @ + 1]]
  BY <1>5, <1>6, <1>7 DEF Served
<1>9. Promise!Pass
  BY <1>1, <1>8 DEF Promise!Pass, Served
<1> QED
  BY <1>9 DEF Promise!Next

(* Every other step leaves them alone.                                     *)
LEMMA NextServed == SInv /\ [Next]_vars => [Promise!Next]_(Promise!vars)
<1> SUFFICES ASSUME SInv, [Next]_vars PROVE [Promise!Next]_(Promise!vars)
  OBVIOUS
<1>1. ASSUME NEW c \in Clients, NEW sent \in {NoCookie, jar[c]}, NEW arrives \in BOOLEAN,
             CountVisit(c, sent, arrives)
      PROVE  Promise!Next
  BY <1>1, VisitsServed DEF CountVisit
<1>2. ASSUME Tick PROVE Promise!Next
  BY <1>2, TimeServed DEF Tick
<1>3. ASSUME UNCHANGED sessionVars PROVE UNCHANGED Promise!vars
  <2>1. UNCHANGED <<sessions, given, answer>>
    BY <1>3 DEF sessionVars
  <2> QED
    BY <2>1 DEF Promise!vars, Live
<1>4. ASSUME NEW q \in Requests, Ask(q) PROVE UNCHANGED sessionVars
  BY <1>4 DEF Ask
<1>5. ASSUME Handle \/ UNCHANGED vars PROVE UNCHANGED sessionVars
  BY <1>5 DEF Handle, vars
<1> QED
  BY <1>1, <1>2, <1>3, <1>4, <1>5 DEF Next

(* The store, in which sessions expire lazily, implements the service, in  *)
(* which they end at once.                                                 *)
THEOREM SessionsImplemented == Spec => ImplementsSessions
<1>1. Init => Promise!Init
  BY SessionsBegin
<1>2. SInv /\ [Next]_vars => [Promise!Next]_(Promise!vars)
  BY NextServed
<1> QED
  BY <1>1, <1>2, SessionInvariance, PTL DEF Spec, ImplementsSessions, Promise!Spec

-----------------------------------------------------------------------------
(***************************************************************************)
(* What a request does to files, and where.                                *)
(***************************************************************************)

(* The route that the request has found allows what it is about to do.     *)
Entitled ==
    /\ req \in Requests
    /\ BestRoute(req.path) # 0
    /\ R.redirect = {}
    /\ req.method \in AllowedMethods(R)
    /\ R.root # {}

(* A path in a root, and one below it.                                     *)
Within(root, path) == Straight(path) /\ IsPrefix(root, path)
Below(root, path) == Within(root, path) /\ path # root

AboutTarget == {"metadata", "index", "read", "read_dir", "canonicalize", "execute",
                "create_dir_all", "remove_file"}

(* The paths that the request will name in its system calls.               *)
TargetOK ==
    /\ pc \in AboutTarget => Entitled /\ Within(Root, target)
    /\ pc \in {"create_dir_all", "remove_file"} \/ (pc = "metadata" /\ req.method = "DELETE")
         => Below(Root, target)
    /\ pc = "index" => R.index # {}
    /\ pc \in {"create_dir_all", "write"} =>
         /\ Entitled
         /\ IsSeq(todo) /\ todo # <<>>
         /\ \A k \in DOMAIN todo : Below(Root, todo[k].path)

(* What it has done with files so far.                                     *)
Inside(a) ==
    /\ Entitled
    /\ IsPrefix(Root, a.path)
    /\ a.op \in {"write", "torn", "remove"} => a.path # Root

ActsOK == IsSeq(acts) /\ \A k \in DOMAIN acts : Inside(acts[k])

(* What is there is in a directory.                                        *)
DiskOK ==
    /\ disk = [p \in Paths |-> disk[p]]
    /\ \A p \in Paths : IsEntry(disk[p])
    /\ \A p \in Paths : disk[p] # Absent => Front(p) = <<>> \/ disk[Front(p)] = Dir

Places == {"idle", "route", "write", "answered"} \cup AboutTarget

RInv ==
    /\ pc \in Places
    /\ pc # "idle" => req \in Requests
    /\ TargetOK
    /\ ActsOK
    /\ DiskOK

-----------------------------------------------------------------------------
(***************************************************************************)
(* Paths.                                                                  *)
(***************************************************************************)

(* Without "..", walking a path leads where it says.                       *)
LEMMA ResolveStraight ==
    ASSUME NEW p, Straight(p)
    PROVE  Resolve(p) = p
<1> DEFINE n == Len(p)
           X == SUBSET (1 .. n)
           T == Seq(STRING)
           Walk(at, s) == IF s = ".." THEN Front(at) ELSE Append(at, s)
           Turn(g, s) == IF s = {} THEN <<>> ELSE Walk(g[s \ {Greatest(s)}], p[Greatest(s)])
           iter == CHOOSE g : g = [s \in X |-> Turn(g, s)]
           op == [i \in 1 .. n |-> [v \in T |-> Walk(v, p[i])]]
<1>1. n \in Nat /\ DOMAIN p = 1 .. n /\ \A i \in 1 .. n : p[i] \in STRING /\ p[i] # ".."
    <2>1. p \in Seq(STRING) /\ \A i \in DOMAIN p : p[i] # ".."
        BY DEF Straight, ToSet
    <2> QED
        BY <2>1, LenProperties, ElementOfSeq
<1>2. Resolve(p) = iter[1 .. n]
    BY <1>1 DEF Resolve, FoldLeft, MapThenFoldSet, Max, Greatest
<1>3. ASSUME NEW v \in T, NEW s \in STRING PROVE Walk(v, s) \in T
    <2>1. Append(v, s) \in T
        BY AppendProperties
    <2>2. Front(v) \in T
        <3>1. Len(v) \in Nat /\ \A i \in 1 .. Len(v) - 1 : v[i] \in STRING
            BY LenProperties, ElementOfSeq
        <3> QED
            BY <3>1, SubSeqProperties DEF Front
    <2> QED
        BY <2>1, <2>2
<1>4. op \in [1 .. n -> [T -> T]] /\ <<>> \in T
    <2>1. <<>> \in T
        OBVIOUS
    <2> HIDE DEF Walk, T
    <2> QED
        BY <1>1, <1>3, <2>1
<1>5. \A s \in X : s # {} => Greatest(s) \in 1 .. n /\ s \ {Greatest(s)} \in X
    BY <1>1, GreatestLowers
<1>6. \E g : g = [s \in X |-> Turn(g, s)]
    <2> HIDE DEF op, Walk, T
    <2>1. PICK g \in [X -> T] : Folds(g, n, <<>>, op)
        BY <1>1, <1>4, FoldExists
    <2>2. /\ \A s \in X : g[s] = IF s = {} THEN <<>> ELSE op[Greatest(s)][g[s \ {Greatest(s)}]]
          /\ \A i \in 1 .. n, v \in T : op[i][v] = Walk(v, p[i])
        BY <2>1 DEF Folds, op
    <2>3. ASSUME NEW s \in X PROVE g[s] = Turn(g, s)
        <3>1. CASE s = {}
            BY <2>2, <3>1
        <3>2. CASE s # {}
            <4>1. Greatest(s) \in 1 .. n /\ g[s \ {Greatest(s)}] \in T
                BY <1>5, <2>1, <3>2
            <4> QED
                BY <2>2, <3>2, <4>1
        <3> QED
            BY <3>1, <3>2
    <2> QED
        BY <2>1, <2>3
<1>7. iter = [s \in X |-> Turn(iter, s)]
    BY <1>6
<1> HIDE DEF iter, op
<1> DEFINE S == {k \in 0 .. n : iter[1 .. k] = SubSeq(p, 1, k)}
<1>8. 0 \in S
    <2>1. iter[1 .. 0] = <<>>
        BY <1>7
    <2>2. SubSeq(p, 1, 0) = <<>>
        BY SubSeqEmpty
    <2>3. iter[1 .. 0] = SubSeq(p, 1, 0)
        BY <2>1, <2>2, Zenon
    <2>4. 0 \in 0 .. n
        BY <1>1
    <2> QED
        BY <2>3, <2>4, Zenon
<1>9. ASSUME NEW k \in 1 .. n, k - 1 \in S PROVE k \in S
    <2>1. iter[1 .. k] = Walk(iter[1 .. k - 1], p[k])
        <3>1. /\ 1 .. k \in SUBSET (1 .. n) /\ 1 .. k # {}
              /\ Greatest(1 .. k) = k /\ (1 .. k) \ {Greatest(1 .. k)} = 1 .. k - 1
            BY <1>1, FirstIndices
        <3> HIDE DEF Walk
        <3> QED
            BY <1>7, <3>1
    <2>2. iter[1 .. k] = Append(SubSeq(p, 1, k - 1), p[k])
        BY <1>1, <1>9, <2>1
    <2>3. SubSeq(p, 1, k) = SubSeq(p, 1, k - 1) \o <<p[k]>>
        <3>1. p \in Seq(STRING) /\ 1 \in 1 .. Len(p) /\ k \in 1 .. Len(p)
            BY <1>1 DEF Straight
        <3> QED
            BY <3>1, SubSeqRecursiveSecond
    <2>4. SubSeq(p, 1, k - 1) \in Seq(STRING)
        BY <1>1, SubSeqProperties
    <2>5. SubSeq(p, 1, k) = Append(SubSeq(p, 1, k - 1), p[k])
        BY <1>1, <2>3, <2>4, AppendIsConcat
    <2> QED
        BY <2>2, <2>5
<1>10. \A k \in 0 .. n : k \in S
    <2> HIDE DEF S, n
    <2> QED
        BY <1>1, <1>8, <1>9, LoopInduction
<1>11. iter[1 .. n] = SubSeq(p, 1, n)
    BY <1>1, <1>10
<1> QED
    BY <1>2, <1>11, SubSeqFull DEF Straight

(* The loop over the routes finds the one that a path belongs to.          *)
LEMMA BestRouteExact ==
    ASSUME NEW path \in Seq(STRING), BestRoute(path) # 0
    PROVE  BestRoute(path) \in DOMAIN Routes /\ RoutesTo(BestRoute(path), path)
<1> DEFINE n == Len(Routes)
           X == SUBSET (1 .. n)
           T == 0 .. n
           Better(best, i) ==
               IF RouteMatches(i, path) /\ (best = 0 \/ Len(Routes[i].path) > Len(Routes[best].path))
               THEN i ELSE best
           ids == [i \in DOMAIN Routes |-> i]
           Turn(g, s) == IF s = {} THEN 0 ELSE Better(g[s \ {Greatest(s)}], ids[Greatest(s)])
           iter == CHOOSE g : g = [s \in X |-> Turn(g, s)]
           op == [i \in 1 .. n |-> [v \in T |-> Better(v, ids[i])]]
<1>1. n \in Nat /\ DOMAIN Routes = 1 .. n
    BY RouterAssumption, LenProperties DEF IsSeq
<1>2. BestRoute(path) = iter[1 .. n]
    BY <1>1 DEF BestRoute, FoldLeftDomain, FoldLeft, MapThenFoldSet, Max, Greatest
<1>3. ASSUME NEW v \in T, NEW i \in 1 .. n PROVE Better(v, ids[i]) \in T
    BY <1>1
<1>14. \A i \in 1 .. n : ids[i] = i
    BY <1>1
<1> HIDE DEF Better, ids
<1>4. op \in [1 .. n -> [T -> T]] /\ 0 \in T
    <2>1. 0 \in T
        BY <1>1
    <2> HIDE DEF T
    <2> QED
        BY <1>1, <1>3, <2>1
<1>5. \A s \in X : s # {} => Greatest(s) \in 1 .. n /\ s \ {Greatest(s)} \in X
    BY <1>1, GreatestLowers
<1>6. \E g : g = [s \in X |-> Turn(g, s)]
    <2> HIDE DEF op, T
    <2>1. PICK g \in [X -> T] : Folds(g, n, 0, op)
        BY <1>1, <1>4, FoldExists
    <2>2. /\ \A s \in X : g[s] = IF s = {} THEN 0 ELSE op[Greatest(s)][g[s \ {Greatest(s)}]]
          /\ \A i \in 1 .. n, v \in T : op[i][v] = Better(v, ids[i])
        BY <2>1 DEF Folds, op
    <2>3. ASSUME NEW s \in X PROVE g[s] = Turn(g, s)
        <3>1. CASE s = {}
            BY <2>2, <3>1
        <3>2. CASE s # {}
            <4>1. Greatest(s) \in 1 .. n /\ g[s \ {Greatest(s)}] \in T
                BY <1>5, <2>1, <3>2
            <4> QED
                BY <2>2, <3>2, <4>1
        <3> QED
            BY <3>1, <3>2
    <2> QED
        BY <2>1, <2>3
<1>7. iter = [s \in X |-> Turn(iter, s)]
    BY <1>6
<1> HIDE DEF iter, op
(* best is the best of the first k routes.                                 *)
<1> DEFINE BestOf(best, k) ==
               /\ best \in 0 .. k
               /\ best = 0 => \A j \in 1 .. k : ~RouteMatches(j, path)
               /\ best # 0 => /\ RouteMatches(best, path)
                              /\ \A j \in 1 .. k : RouteMatches(j, path) =>
                                    /\ Len(Routes[j].path) <= Len(Routes[best].path)
                                    /\ Len(Routes[j].path) = Len(Routes[best].path) => best <= j
           S == {k \in 0 .. n : BestOf(iter[1 .. k], k)}
<1>8. 0 \in S
    <2>1. iter[1 .. 0] = 0
        BY <1>7
    <2>2. BestOf(0, 0)
        OBVIOUS
    <2>3. 0 \in 0 .. n
        BY <1>1
    <2> HIDE DEF BestOf
    <2>4. BestOf(iter[1 .. 0], 0)
        BY <2>1, <2>2, Zenon
    <2> QED
        BY <2>3, <2>4
<1>0. \A i \in 1 .. n : Len(Routes[i].path) \in Nat /\ Routes[i].path \in Seq(STRING)
    BY <1>1, RouterAssumption, LenProperties
<1>9. ASSUME NEW k \in 1 .. n, k - 1 \in S PROVE k \in S
    <2> DEFINE best == iter[1 .. k - 1]
    <2>1. iter[1 .. k] = Better(best, k)
        <3>1. /\ 1 .. k \in SUBSET (1 .. n) /\ 1 .. k # {}
              /\ Greatest(1 .. k) = k /\ (1 .. k) \ {Greatest(1 .. k)} = 1 .. k - 1
            BY <1>1, FirstIndices
        <3> QED
            <4>1. iter[1 .. k] = Better(iter[1 .. k - 1], ids[k])
                BY <1>7, <3>1
            <4>2. ids[k] = k
                BY <1>14
            <4> QED
                BY <4>1, <4>2
    <2>2. BestOf(best, k - 1)
        BY <1>9
    <2> HIDE DEF best
    <2>3. \A j \in 1 .. k : j = k \/ j \in 1 .. k - 1
        OBVIOUS
    <2>4. k \in 1 .. n /\ 1 .. k \subseteq 1 .. n /\ 0 .. k - 1 \subseteq 0 .. k
        BY <1>1
    <2>5. CASE Better(best, k) = k /\ RouteMatches(k, path)
               /\ (best = 0 \/ Len(Routes[k].path) > Len(Routes[best].path))
        <3>1. CASE best = 0
            <4>1. \A j \in 1 .. k : RouteMatches(j, path) => j = k
                BY <2>2, <2>3, <3>1
            <4>2. BestOf(k, k)
                BY <1>0, <2>4, <2>5, <4>1
            <4> QED
                BY <2>1, <2>4, <2>5, <4>2
        <3>2. CASE best # 0
            <4>1. best \in 1 .. n /\ Len(Routes[k].path) > Len(Routes[best].path)
                BY <2>2, <2>4, <2>5, <3>2
            <4>2. \A j \in 1 .. k - 1 : RouteMatches(j, path) =>
                     Len(Routes[j].path) <= Len(Routes[best].path)
                BY <2>2, <3>2
            <4>3. \A j \in 1 .. k - 1 : RouteMatches(j, path) =>
                     Len(Routes[j].path) < Len(Routes[k].path)
                BY <1>0, <2>4, <4>1, <4>2
            <4>4. \A j \in 1 .. k : RouteMatches(j, path) =>
                     /\ Len(Routes[j].path) <= Len(Routes[k].path)
                     /\ Len(Routes[j].path) = Len(Routes[k].path) => k <= j
                BY <1>0, <2>3, <2>4, <4>3
            <4> QED
                BY <2>1, <2>4, <2>5, <4>4
        <3> QED
            BY <3>1, <3>2
    <2>6. CASE Better(best, k) = best
               /\ ~(RouteMatches(k, path)
                    /\ (best = 0 \/ Len(Routes[k].path) > Len(Routes[best].path)))
        <3>1. CASE best = 0
            BY <2>1, <2>2, <2>3, <2>4, <2>6, <3>1
        <3>2. CASE best # 0
            <4>1. best \in 1 .. k - 1 /\ best \in 1 .. n
                BY <2>2, <2>4, <3>2
            <4>2. RouteMatches(k, path) => Len(Routes[k].path) <= Len(Routes[best].path)
                BY <1>0, <2>4, <2>6, <3>2, <4>1
            <4>3. \A j \in 1 .. k : RouteMatches(j, path) =>
                     /\ Len(Routes[j].path) <= Len(Routes[best].path)
                     /\ Len(Routes[j].path) = Len(Routes[best].path) => best <= j
                BY <2>2, <2>3, <3>2, <4>1, <4>2
            <4> QED
                BY <2>1, <2>2, <2>4, <2>6, <3>2, <4>1, <4>3
        <3> QED
            BY <3>1, <3>2
    <2> QED
        BY <2>5, <2>6 DEF Better
<1>10. \A k \in 0 .. n : k \in S
    <2> HIDE DEF S, n
    <2> QED
        BY <1>1, <1>8, <1>9, LoopInduction
<1> DEFINE i == BestRoute(path)
<1>11. BestOf(i, n)
    <2>1. BestOf(iter[1 .. n], n)
        BY <1>1, <1>10
    <2> HIDE DEF BestOf
    <2> QED
        BY <1>2, <2>1
<1>12. /\ i \in 1 .. n /\ RouteMatches(i, path)
       /\ \A j \in 1 .. n : RouteMatches(j, path) =>
             /\ Len(Routes[j].path) <= Len(Routes[i].path)
             /\ Len(Routes[j].path) = Len(Routes[i].path) => i <= j
    <2> HIDE DEF i
    <2> QED
        BY <1>1, <1>11 DEF i
<1> HIDE DEF i, BestOf
<1>13. ASSUME NEW j \in 1 .. n, RouteMatches(j, path)
       PROVE  /\ ~IsStrictPrefix(Routes[i].path, Routes[j].path)
              /\ Routes[j].path = Routes[i].path => i <= j
    <2> DEFINE a == Routes[i].path
               b == Routes[j].path
    <2>1. a \in Seq(STRING) /\ b \in Seq(STRING) /\ Len(a) \in Nat /\ Len(b) \in Nat
        BY <1>0, <1>12
    <2>2. Len(b) <= Len(a) /\ (Len(b) = Len(a) => i <= j)
        BY <1>12, <1>13
    <2> HIDE DEF a, b
    <2>3. IsPrefix(a, b) => a = b
        <3>1. SUFFICES ASSUME IsPrefix(a, b) PROVE a = b
            OBVIOUS
        <3>2. Len(a) = Len(b) /\ SubSeq(a, 1, Len(a)) = SubSeq(b, 1, Len(a))
            BY <2>1, <2>2, <3>1 DEF IsPrefix
        <3>3. SubSeq(a, 1, Len(a)) = a /\ SubSeq(b, 1, Len(b)) = b
            BY <2>1, SubSeqFull
        <3> QED
            BY <3>2, <3>3
    <2>4. ~IsStrictPrefix(a, b) /\ (b = a => i <= j)
        BY <2>2, <2>3 DEF IsStrictPrefix
    <2> QED
        BY <2>4 DEF a, b
<1> QED
    BY <1>1, <1>12, <1>13 DEF RoutesTo, RouteMatches, i

(* What is joined to a root leads below it.                                *)
LEMMA JoinStraight ==
    ASSUME NEW a, Straight(a), NEW b, Straight(b)
    PROVE  /\ Straight(a \o b)
           /\ IsPrefix(a, a \o b)
           /\ b # <<>> => a \o b # a
<1>1. /\ a \in Seq(STRING) /\ b \in Seq(STRING)
      /\ Len(a) \in Nat /\ Len(b) \in Nat
      /\ DOMAIN a = 1 .. Len(a) /\ DOMAIN b = 1 .. Len(b)
    BY LenProperties DEF Straight
<1>2. /\ a \o b \in Seq(STRING) /\ Len(a \o b) = Len(a) + Len(b)
      /\ \A i \in 1 .. Len(a) + Len(b) : (a \o b)[i] = IF i <= Len(a) THEN a[i] ELSE b[i - Len(a)]
    BY <1>1, ConcatProperties
<1>3. ASSUME NEW i \in DOMAIN (a \o b) PROVE (a \o b)[i] # ".."
    <2>1. i \in 1 .. Len(a) + Len(b)
        BY <1>2, LenProperties
    <2>2. (i <= Len(a) => i \in DOMAIN a) /\ (~(i <= Len(a)) => i - Len(a) \in DOMAIN b)
        BY <1>1, <2>1
    <2>3. \A j \in DOMAIN a : a[j] # ".."
        BY DEF Straight, ToSet
    <2>4. \A j \in DOMAIN b : b[j] # ".."
        BY DEF Straight, ToSet
    <2> QED
        BY <1>2, <2>1, <2>2, <2>3, <2>4
<1>4. Straight(a \o b)
    BY <1>2, <1>3 DEF Straight, ToSet
<1>5. SubSeq(a \o b, 1, Len(a)) = a
    <2>1. CASE Len(a) = 0
        <3>1. a = <<>> /\ SubSeq(a \o b, 1, 0) = <<>>
            BY <1>1, <2>1, EmptySeq, SubSeqEmpty
        <3> QED
            BY <2>1, <3>1
    <2>2. CASE Len(a) # 0
        <3>1. 1 \in 1 .. Len(a) /\ Len(a) \in 1 .. Len(a)
            BY <1>1, <2>2
        <3>2. SubSeq(a \o b, 1, Len(a)) = SubSeq(a, 1, Len(a))
            BY <1>1, <3>1, SubSeqOfConcat1
        <3> QED
            BY <1>1, <3>2, SubSeqFull
    <2> QED
        BY <2>1, <2>2
<1>6. SubSeq(a, 1, Len(a)) = a /\ Len(a) <= Len(a \o b)
    BY <1>1, <1>2, SubSeqFull
<1>7. IsPrefix(a, a \o b)
    BY <1>5, <1>6 DEF IsPrefix
<1>8. ASSUME b # <<>> PROVE a \o b # a
    <2>1. Len(b) # 0
        BY <1>1, <1>8, EmptySeq
    <2>2. Len(a \o b) = Len(a) + Len(b)
        BY <1>1, ConcatProperties
    <2>3. Len(a) \in Nat /\ Len(b) \in Nat
        BY <1>1
    <2>4. Len(a \o b) # Len(a)
        BY <2>1, <2>2, <2>3
    <2> QED
        BY <2>4
<1> QED
    BY <1>4, <1>7, <1>8

(* A prefix has the same elements, as far as it goes.                      *)
LEMMA PrefixAgrees ==
    ASSUME NEW S, NEW a \in Seq(S), NEW b \in Seq(S)
    PROVE  IsPrefix(a, b) <=> Len(a) <= Len(b) /\ \A i \in 1 .. Len(a) : a[i] = b[i]
<1>1. Len(a) \in Nat /\ Len(b) \in Nat /\ SubSeq(a, 1, Len(a)) = a
    BY LenProperties, SubSeqFull
<1>2. CASE Len(a) <= Len(b)
    <2> DEFINE c == SubSeq(b, 1, Len(a))
    <2>1. \A i \in 1 .. Len(a) : b[i] \in S
        <3>1. \A i \in 1 .. Len(a) : i \in 1 .. Len(b)
            BY <1>1, <1>2
        <3> QED
            BY <3>1, ElementOfSeq
    <2>2. /\ c \in Seq(S)
          /\ Len(c) = IF 1 <= Len(a) THEN Len(a) - 1 + 1 ELSE 0
          /\ \A i \in 1 .. Len(a) - 1 + 1 : c[i] = b[1 + i - 1]
        BY <1>1, <2>1, SubSeqProperties
    <2>3. Len(c) = Len(a) /\ \A i \in 1 .. Len(a) : c[i] = b[i]
        BY <1>1, <2>2
    <2> HIDE DEF c
    <2>4. (\A i \in 1 .. Len(a) : a[i] = c[i]) => a = c
        BY <2>2, <2>3, SeqEqual
    <2>5. IsPrefix(a, b) <=> a = c
        BY <1>1, <1>2 DEF IsPrefix, c
    <2> QED
        BY <1>2, <2>3, <2>4, <2>5
<1>3. CASE ~(Len(a) <= Len(b))
    BY <1>3 DEF IsPrefix
<1> QED
    BY <1>2, <1>3

(* What is below something below a root is below the root.                 *)
LEMMA PrefixTransitive ==
    ASSUME NEW S, NEW a \in Seq(S), NEW b \in Seq(S), NEW c \in Seq(S),
           IsPrefix(a, b), IsPrefix(b, c)
    PROVE  IsPrefix(a, c)
<1>1. Len(a) \in Nat /\ Len(b) \in Nat /\ Len(c) \in Nat
    BY LenProperties
<1>2. Len(a) <= Len(b) /\ \A i \in 1 .. Len(a) : a[i] = b[i]
    BY PrefixAgrees
<1>3. Len(b) <= Len(c) /\ \A i \in 1 .. Len(b) : b[i] = c[i]
    BY PrefixAgrees
<1>4. Len(a) <= Len(c) /\ \A i \in 1 .. Len(a) : a[i] = c[i]
    BY <1>1, <1>2, <1>3
<1> QED
    BY <1>4, PrefixAgrees

(* A sequence over a set is one over its own elements, which are of the    *)
(* set.                                                                    *)
LEMMA SequenceOf ==
    ASSUME NEW S, NEW s \in Seq(S)
    PROVE  IsSeq(s) /\ \A k \in DOMAIN s : s[k] \in S
<1>1. Len(s) \in Nat /\ DOMAIN s = 1 .. Len(s) /\ s \in [1 .. Len(s) -> S]
    BY LenProperties
<1>2. s \in [1 .. Len(s) -> ToSet(s)]
    BY <1>1 DEF ToSet
<1>3. s \in Seq(ToSet(s))
    BY <1>1, <1>2
<1> QED
    BY <1>1, <1>3 DEF IsSeq

-----------------------------------------------------------------------------
(***************************************************************************)
(* Uploads.                                                                *)
(***************************************************************************)

(* The least of some naturals is one of them.                              *)
LEMMA MinIsIn ==
    ASSUME NEW S \in SUBSET Nat, S # {}
    PROVE  Min(S) \in S
<1>1. \E x \in S : \A y \in S : x <= y
    BY LeastNatural
<1> QED
    BY <1>1 DEF Min

(* Where something is found is a position, or nowhere.                     *)
LEMMA FindTyped ==
    ASSUME NEW E, NEW s \in Seq(E), NEW needle, Len(needle) \in Nat
    PROVE  Find(s, needle) \in Nat
<1> DEFINE hits == {i \in 1 .. Len(s) + 1 - Len(needle) :
                      SubSeq(s, i, i + Len(needle) - 1) = needle}
<1>1. Find(s, needle) = IF hits = {} THEN 0 ELSE Min(hits)
    BY DEF Find
<1>2. hits \in SUBSET Nat
    BY LenProperties
<1> HIDE DEF hits
<1>3. hits # {} => Min(hits) \in Nat
    BY <1>2, MinIsIn
<1> QED
    BY <1>1, <1>3

(* What is left of a sequence without a few of its elements is one.        *)
LEMMA SubSeqTyped ==
    ASSUME NEW E, NEW s \in Seq(E), NEW m \in Nat \ {0}, NEW n \in Int, n <= Len(s)
    PROVE  SubSeq(s, m, n) \in Seq(E)
<1>1. Len(s) \in Nat
    BY LenProperties
<1>2. \A i \in m .. n : s[i] \in E
    <2> SUFFICES ASSUME NEW i \in m .. n PROVE s[i] \in E
        OBVIOUS
    <2>1. i \in 1 .. Len(s)
        BY <1>1
    <2> QED
        BY <2>1, ElementOfSeq
<1> QED
    BY <1>1, <1>2, SubSeqProperties

(* A file of an upload is put under a name, never "..".                    *)
LEMMA PartFileNamed ==
    ASSUME NEW E, NEW segment \in Seq(E), PartFile(segment).path # <<>>
    PROVE  \E name \in STRING \ {".."} : PartFile(segment).path = <<name>>
<1> DEFINE first == WithoutFirstLineEnd(segment)
           seg == WithoutLastLineEnd(first)
           h == Find(seg, CRLF \o CRLF)
           rest(i) == SubSeq(seg, i, h - 1)
           named == {i \in 1 .. h - 1 : HasName(rest(i))}
<1>1. first \in Seq(E)
    <2>1. Len(segment) \in Nat
        BY LenProperties
    <2>2. SubSeq(segment, 3, Len(segment)) \in Seq(E)
        BY <2>1, SubSeqTyped
    <2> QED
        BY <2>2 DEF WithoutFirstLineEnd
<1> HIDE DEF first
<1>2. seg \in Seq(E)
    <2>1. Len(first) \in Nat
        BY <1>1, LenProperties
    <2>2. Len(first) - 2 \in Int /\ Len(first) - 2 <= Len(first)
        BY <2>1
    <2>3. SubSeq(first, 1, Len(first) - 2) \in Seq(E)
        BY <1>1, <2>2, SubSeqTyped
    <2> QED
        BY <1>1, <2>3 DEF WithoutLastLineEnd
<1> HIDE DEF seg
<1>3. h \in Nat
    <2>1. Len(CRLF \o CRLF) \in Nat
        BY DEF CRLF
    <2> QED
        BY <1>2, <2>1, FindTyped
<1>4. /\ named # {}
      /\ PartFile(segment).path = SanitizeFilename(PartFilename(rest(Min(named))))
    BY DEF PartFile, seg, first
<1>5. HasName(rest(Min(named)))
    <2>1. named \in SUBSET Nat
        BY <1>3
    <2>2. \A i \in named : HasName(rest(i))
        OBVIOUS
    <2> HIDE DEF named
    <2> QED
        BY <1>4, <2>1, <2>2, MinIsIn
<1> HIDE DEF named
<1> DEFINE name == PartFilename(rest(Min(named)))
<1> HIDE DEF rest
<1>6. name \in Seq(STRING) /\ name # <<>>
    BY <1>5, RouterAssumption DEF HasName, PartFilename
<1> HIDE DEF name
<1>7. Last(name) \in STRING
    <2>1. Len(name) \in 1 .. Len(name)
        BY <1>6, EmptySeq
    <2> QED
        BY <1>6, <2>1, ElementOfSeq DEF Last
<1>8. SanitizeFilename(name) # <<>>
    BY <1>4 DEF name
<1>9. SanitizeFilename(name) = <<Last(name)>> /\ Last(name) # ".."
    BY <1>8 DEF SanitizeFilename
<1> QED
    BY <1>4, <1>7, <1>9 DEF name

(***************************************************************************)
(* Folds of the model.                                                     *)
(***************************************************************************)

(* A body is cut into pieces element by element.                           *)
LEMMA PiecesLaws ==
    ASSUME NEW E
    PROVE  /\ Pieces(<<>>) = << <<>> >>
           /\ \A s \in Seq(E) : Pieces(s) \in Seq(Seq(E)) \ {<<>>}
           /\ \A s \in Seq(E), e \in E : Pieces(Append(s, e)) = Cut(Pieces(s), e)
<1> DEFINE T == Seq(Seq(E)) \ {<<>>}
           base == << <<>> >>
           step == [v \in T |-> [e \in E |-> Cut(v, e)]]
<1>0. ASSUME NEW v \in T, NEW e \in E PROVE Cut(v, e) \in T
    <2>1. v \in Seq(Seq(E)) /\ <<>> \in Seq(E) /\ Len(v) \in 1 .. Len(v)
        BY EmptySeq
    <2>2. Append(v, <<>>) \in Seq(Seq(E)) /\ Append(v, <<>>) # <<>>
        BY <2>1, AppendProperties, SMTT(30)
    <2>3. v[Len(v)] \in Seq(E)
        BY <2>1, ElementOfSeq
    <2>4. Append(v[Len(v)], e) \in Seq(E)
        BY <2>3, AppendProperties
    <2> DEFINE w == [v EXCEPT ![Len(v)] = Append(v[Len(v)], e)]
    <2>5. w \in Seq(Seq(E)) /\ Len(w) = Len(v)
        BY <2>1, <2>4, ExceptSeq
    <2>6. w # <<>>
        BY <2>1, <2>5, EmptySeq
    <2> QED
        BY <2>2, <2>5, <2>6 DEF Cut
<1>1. IsStep(step, E, T) /\ base \in T
    <2>1. base \in T
        OBVIOUS
    <2> HIDE DEF T
    <2> QED
        BY <1>0, <2>1 DEF IsStep
<1>2. \A v \in T, e \in E : Cut(v, e) \in T /\ step[v][e] = Cut(v, e)
    BY <1>0
<1> HIDE DEF base
<1>3. ASSUME NEW s \in Seq(E) PROVE Pieces(s) = FoldOf(T, step, base, s)
    <2> DEFINE n == Len(s)
               X == SUBSET (1 .. n)
               Turn(g, t) == IF t = {} THEN base
                             ELSE Cut(g[t \ {Greatest(t)}], s[Greatest(t)])
               iter == CHOOSE g : g = [t \in X |-> Turn(g, t)]
    <2>1. n \in Nat /\ DOMAIN s = 1 .. n /\ \A i \in 1 .. n : s[i] \in E
        BY LenProperties, ElementOfSeq
    <2>2. Pieces(s) = iter[1 .. n]
        BY <2>1 DEF Pieces, base, FoldLeft, MapThenFoldSet, Max, Greatest
    <2>3. \A t \in X : t # {} => Greatest(t) \in 1 .. n /\ t \ {Greatest(t)} \in X
        BY <2>1, GreatestLowers
    <2> HIDE DEF step, T
    <2>4. PICK f \in [X -> T] : Table(f, step, base, s)
        BY <1>1, TableExists
    <2>5. ASSUME NEW t \in X PROVE f[t] = Turn(f, t)
        <3>1. CASE t = {}
            BY <2>4, <3>1 DEF Table
        <3>2. CASE t # {}
            <4>1. f[t] = step[f[t \ {Greatest(t)}]][s[Greatest(t)]]
                BY <2>4, <3>2 DEF Table
            <4>2. f[t \ {Greatest(t)}] \in T /\ s[Greatest(t)] \in E
                BY <2>1, <2>3, <2>4, <3>2
            <4> QED
                BY <1>2, <3>2, <4>1, <4>2
        <3> QED
            BY <3>1, <3>2
    <2>6. iter = [t \in X |-> Turn(iter, t)]
        <3>1. f = [t \in X |-> f[t]]
            OBVIOUS
        <3> HIDE DEF X, Turn
        <3>2. f = [t \in X |-> Turn(f, t)]
            BY <2>5, <3>1
        <3> QED
            BY <3>2
    <2> HIDE DEF iter
    <2>7. /\ iter[{}] = base
          /\ \A t \in X : t # {} => iter[t] = Cut(iter[t \ {Greatest(t)}], s[Greatest(t)])
        BY <2>6
    <2>8. ASSUME NEW t \in X, t # {}, iter[t \ {Greatest(t)}] \in T
          PROVE  iter[t] \in T /\ iter[t] = step[iter[t \ {Greatest(t)}]][s[Greatest(t)]]
        <3>1. s[Greatest(t)] \in E
            BY <2>1, <2>3, <2>8
        <3> QED
            BY <1>2, <2>7, <2>8, <3>1
    <2> HIDE DEF Turn
    <2>9. \A t \in X : iter[t] \in T
        <3>1. Keeps(iter, n, T)
            BY <1>1, <2>7, <2>8 DEF Keeps
        <3> QED
            BY <2>1, <3>1, FoldInduction
    <2>10. Table(iter, step, base, s)
        BY <2>3, <2>7, <2>8, <2>9 DEF Table
    <2> QED
        BY <1>1, <2>2, <2>10, FoldIs
<1> HIDE DEF step, T
<1>4. /\ FoldOf(T, step, base, <<>>) = base
      /\ \A s \in Seq(E) : FoldOf(T, step, base, s) \in T
      /\ \A s \in Seq(E), e \in E :
            FoldOf(T, step, base, Append(s, e)) = step[FoldOf(T, step, base, s)][e]
    BY <1>1, FoldLaws
<1>5. <<>> \in Seq(E) /\ \A s \in Seq(E), e \in E : Append(s, e) \in Seq(E)
    BY EmptySeq, AppendProperties
<1>6. Pieces(<<>>) = base
    BY <1>3, <1>4, <1>5
<1>7. ASSUME NEW s \in Seq(E)
      PROVE  /\ Pieces(s) \in T
             /\ \A e \in E : Pieces(Append(s, e)) = Cut(Pieces(s), e)
    <2>1. Pieces(s) = FoldOf(T, step, base, s) /\ FoldOf(T, step, base, s) \in T
        BY <1>3, <1>4
    <2>2. ASSUME NEW e \in E
          PROVE  Pieces(Append(s, e)) = Cut(Pieces(s), e)
        <3>1. Pieces(Append(s, e)) = FoldOf(T, step, base, Append(s, e))
            BY <1>3, <1>5
        <3>2. FoldOf(T, step, base, Append(s, e)) = step[FoldOf(T, step, base, s)][e]
            BY <1>4
        <3> QED
            BY <1>2, <2>1, <3>1, <3>2
    <2> QED
        BY <2>1, <2>2
<1> QED
    BY <1>6, <1>7 DEF T, base

(* What stands between delimiters is cut out of the body.                  *)
LEMMA SegmentsTyped ==
    ASSUME NEW E, NEW body \in Seq(E)
    PROVE  Segments(body) \in Seq(Seq(E))
<1>1. Pieces(body) \in Seq(Seq(E))
    BY PiecesLaws
<1>2. Len(Pieces(body)) - 1 \in Int /\ Len(Pieces(body)) - 1 <= Len(Pieces(body))
    BY <1>1, LenProperties
<1> QED
    BY <1>1, <1>2, SubSeqTyped DEF Segments

(* The files that segments hold, and all that they could hold.             *)
Gathered(segments, root) ==
    FoldLeft(LAMBDA files, segment : Collect(files, PartFile(segment), root), <<>>, segments)

FilesIn(E, root) ==
    {[path |-> root \o PartFile(s).path, data |-> PartFile(s).data] :
        s \in {s \in Seq(E) : PartFile(s).path # <<>>}}

(* They are gathered segment by segment.                                   *)
LEMMA GatheredLaws ==
    ASSUME NEW E, NEW root
    PROVE  /\ Gathered(<<>>, root) = <<>>
           /\ \A s \in Seq(Seq(E)) : Gathered(s, root) \in Seq(FilesIn(E, root))
           /\ \A s \in Seq(Seq(E)), e \in Seq(E) :
                 Gathered(Append(s, e), root) = Collect(Gathered(s, root), PartFile(e), root)
<1> DEFINE T == Seq(FilesIn(E, root))
           step == [v \in T |-> [e \in Seq(E) |-> Collect(v, PartFile(e), root)]]
<1>0. ASSUME NEW v \in T, NEW e \in Seq(E) PROVE Collect(v, PartFile(e), root) \in T
    <2>1. CASE PartFile(e).path = <<>>
        BY <2>1 DEF Collect
    <2>2. CASE PartFile(e).path # <<>>
        <3>1. [path |-> root \o PartFile(e).path, data |-> PartFile(e).data] \in FilesIn(E, root)
            BY <2>2 DEF FilesIn
        <3> QED
            BY <2>2, <3>1, AppendProperties DEF Collect
    <2> QED
        BY <2>1, <2>2
<1>1. IsStep(step, Seq(E), T) /\ <<>> \in T
    <2>1. <<>> \in T
        OBVIOUS
    <2> HIDE DEF T
    <2> QED
        BY <1>0, <2>1 DEF IsStep
<1>2. \A v \in T, e \in Seq(E) : /\ Collect(v, PartFile(e), root) \in T
                                /\ step[v][e] = Collect(v, PartFile(e), root)
    BY <1>0
<1>3. ASSUME NEW s \in Seq(Seq(E)) PROVE Gathered(s, root) = FoldOf(T, step, <<>>, s)
    <2> DEFINE n == Len(s)
               X == SUBSET (1 .. n)
               Turn(g, t) == IF t = {} THEN <<>>
                             ELSE Collect(g[t \ {Greatest(t)}], PartFile(s[Greatest(t)]), root)
               iter == CHOOSE g : g = [t \in X |-> Turn(g, t)]
    <2>1. n \in Nat /\ DOMAIN s = 1 .. n /\ \A i \in 1 .. n : s[i] \in Seq(E)
        BY LenProperties, ElementOfSeq
    <2>2. Gathered(s, root) = iter[1 .. n]
        BY <2>1 DEF Gathered, FoldLeft, MapThenFoldSet, Max, Greatest
    <2>3. \A t \in X : t # {} => Greatest(t) \in 1 .. n /\ t \ {Greatest(t)} \in X
        BY <2>1, GreatestLowers
    <2> HIDE DEF step, T
    <2>4. PICK f \in [X -> T] : Table(f, step, <<>>, s)
        BY <1>1, TableExists
    <2>5. ASSUME NEW t \in X PROVE f[t] = Turn(f, t)
        <3>1. CASE t = {}
            BY <2>4, <3>1 DEF Table
        <3>2. CASE t # {}
            <4>1. f[t] = step[f[t \ {Greatest(t)}]][s[Greatest(t)]]
                BY <2>4, <3>2 DEF Table
            <4>2. f[t \ {Greatest(t)}] \in T /\ s[Greatest(t)] \in Seq(E)
                BY <2>1, <2>3, <2>4, <3>2
            <4> QED
                BY <1>2, <3>2, <4>1, <4>2
        <3> QED
            BY <3>1, <3>2
    <2>6. iter = [t \in X |-> Turn(iter, t)]
        <3>1. f = [t \in X |-> f[t]]
            OBVIOUS
        <3> HIDE DEF X, Turn
        <3>2. f = [t \in X |-> Turn(f, t)]
            BY <2>5, <3>1
        <3> QED
            BY <3>2
    <2> HIDE DEF iter
    <2>7. /\ iter[{}] = <<>>
          /\ \A t \in X : t # {} => iter[t] = Collect(iter[t \ {Greatest(t)}], PartFile(s[Greatest(t)]), root)
        BY <2>6
    <2>8. ASSUME NEW t \in X, t # {}, iter[t \ {Greatest(t)}] \in T
          PROVE  iter[t] \in T /\ iter[t] = step[iter[t \ {Greatest(t)}]][s[Greatest(t)]]
        <3>1. s[Greatest(t)] \in Seq(E)
            BY <2>1, <2>3, <2>8
        <3> QED
            BY <1>2, <2>7, <2>8, <3>1
    <2> HIDE DEF Turn
    <2>9. \A t \in X : iter[t] \in T
        <3>1. Keeps(iter, n, T)
            BY <1>1, <2>7, <2>8 DEF Keeps
        <3> QED
            BY <2>1, <3>1, FoldInduction
    <2>10. Table(iter, step, <<>>, s)
        BY <2>3, <2>7, <2>8, <2>9 DEF Table
    <2> QED
        BY <1>1, <2>2, <2>10, FoldIs
<1> HIDE DEF step, T
<1>4. /\ FoldOf(T, step, <<>>, <<>>) = <<>>
      /\ \A s \in Seq(Seq(E)) : FoldOf(T, step, <<>>, s) \in T
      /\ \A s \in Seq(Seq(E)), e \in Seq(E) :
            FoldOf(T, step, <<>>, Append(s, e)) = step[FoldOf(T, step, <<>>, s)][e]
    BY <1>1, FoldLaws
<1>5. <<>> \in Seq(Seq(E)) /\ \A s \in Seq(Seq(E)), e \in Seq(E) : Append(s, e) \in Seq(Seq(E))
    BY EmptySeq, AppendProperties
<1>6. Gathered(<<>>, root) = <<>>
    BY <1>3, <1>4, <1>5
<1>7. ASSUME NEW s \in Seq(Seq(E))
      PROVE  /\ Gathered(s, root) \in T
             /\ \A e \in Seq(E) :
                  Gathered(Append(s, e), root) = Collect(Gathered(s, root), PartFile(e), root)
    <2>1. Gathered(s, root) = FoldOf(T, step, <<>>, s) /\ FoldOf(T, step, <<>>, s) \in T
        BY <1>3, <1>4
    <2>2. ASSUME NEW e \in Seq(E)
          PROVE  Gathered(Append(s, e), root) = Collect(Gathered(s, root), PartFile(e), root)
        <3>1. Gathered(Append(s, e), root) = FoldOf(T, step, <<>>, Append(s, e))
            BY <1>3, <1>5
        <3>2. FoldOf(T, step, <<>>, Append(s, e)) = step[FoldOf(T, step, <<>>, s)][e]
            BY <1>4
        <3> QED
            BY <1>2, <2>1, <3>1, <3>2
    <2> QED
        BY <2>1, <2>2
<1> QED
    BY <1>6, <1>7 DEF T

(* All files of an upload lie below the root it is for.                    *)
LEMMA PartFilesBelow ==
    ASSUME NEW E, NEW body \in Seq(E), NEW root, Straight(root)
    PROVE  /\ IsSeq(PartFiles(body, root))
           /\ \A k \in DOMAIN PartFiles(body, root) : Below(root, PartFiles(body, root)[k].path)
<1>1. PartFiles(body, root) = Gathered(Segments(body), root)
    BY DEF PartFiles, Gathered
<1>2. PartFiles(body, root) \in Seq(FilesIn(E, root))
    BY <1>1, SegmentsTyped, GatheredLaws
<1>3. ASSUME NEW f \in FilesIn(E, root)
      PROVE  Below(root, f.path)
    <2>1. PICK s \in Seq(E) : PartFile(s).path # <<>> /\ f.path = root \o PartFile(s).path
        BY SMTT(30) DEF FilesIn
    <2>2. PICK name \in STRING \ {".."} : PartFile(s).path = <<name>>
        BY <2>1, PartFileNamed
    <2>3. f.path = root \o <<name>>
        BY <2>1, <2>2
    <2>4. Straight(<<name>>) /\ <<name>> # <<>>
        BY DEF Straight, ToSet
    <2> QED
        BY <2>3, <2>4, JoinStraight DEF Within, Below
<1> QED
    BY <1>2, <1>3, SequenceOf

-----------------------------------------------------------------------------
(***************************************************************************)
(* Uploads as clients make them.                                           *)
(***************************************************************************)

Encoded(parts) ==
    FoldLeft(LAMBDA text, p : text \o <<"delim">> \o PartText(p), <<>>, parts)

(* Parts whose text consists of elements of E.                             *)
TextsIn(P, E) == "delim" \in E /\ \A p \in P : PartText(p) \in Seq(E)

(* Parts are encoded one by one,                                           *)
LEMMA EncodedLaws ==
    ASSUME NEW E, NEW P, TextsIn(P, E)
    PROVE  /\ Encoded(<<>>) = <<>>
           /\ \A s \in Seq(P) : Encoded(s) \in Seq(E)
           /\ \A s \in Seq(P), e \in P :
                 Encoded(Append(s, e)) = Encoded(s) \o <<"delim">> \o PartText(e)
<1> DEFINE T == Seq(E)
           step == [v \in T |-> [e \in P |-> v \o <<"delim">> \o PartText(e)]]
<1>0. ASSUME NEW v \in T, NEW e \in P PROVE v \o <<"delim">> \o PartText(e) \in T
    <2>1. PartText(e) \in Seq(E) /\ <<"delim">> \in Seq(E)
        BY DEF TextsIn
    <2> QED
        BY <2>1, ConcatProperties
<1>1. IsStep(step, P, T) /\ <<>> \in T
    <2>1. <<>> \in T
        OBVIOUS
    <2> HIDE DEF T
    <2> QED
        BY <1>0, <2>1 DEF IsStep
<1>2. \A v \in T, e \in P : v \o <<"delim">> \o PartText(e) \in T /\ step[v][e] = v \o <<"delim">> \o PartText(e)
    BY <1>0
<1>3. ASSUME NEW s \in Seq(P) PROVE Encoded(s) = FoldOf(T, step, <<>>, s)
    <2> DEFINE n == Len(s)
               X == SUBSET (1 .. n)
               Turn(g, t) == IF t = {} THEN <<>>
                             ELSE g[t \ {Greatest(t)}] \o <<"delim">> \o PartText(s[Greatest(t)])
               iter == CHOOSE g : g = [t \in X |-> Turn(g, t)]
    <2>1. n \in Nat /\ DOMAIN s = 1 .. n /\ \A i \in 1 .. n : s[i] \in P
        BY LenProperties, ElementOfSeq
    <2>2. Encoded(s) = iter[1 .. n]
        BY <2>1 DEF Encoded, FoldLeft, MapThenFoldSet, Max, Greatest
    <2>3. \A t \in X : t # {} => Greatest(t) \in 1 .. n /\ t \ {Greatest(t)} \in X
        BY <2>1, GreatestLowers
    <2> HIDE DEF step, T
    <2>4. PICK f \in [X -> T] : Table(f, step, <<>>, s)
        BY <1>1, TableExists
    <2>5. ASSUME NEW t \in X PROVE f[t] = Turn(f, t)
        <3>1. CASE t = {}
            BY <2>4, <3>1 DEF Table
        <3>2. CASE t # {}
            <4>1. f[t] = step[f[t \ {Greatest(t)}]][s[Greatest(t)]]
                BY <2>4, <3>2 DEF Table
            <4>2. f[t \ {Greatest(t)}] \in T /\ s[Greatest(t)] \in P
                BY <2>1, <2>3, <2>4, <3>2
            <4> QED
                BY <1>2, <3>2, <4>1, <4>2
        <3> QED
            BY <3>1, <3>2
    <2>6. iter = [t \in X |-> Turn(iter, t)]
        <3>1. f = [t \in X |-> f[t]]
            OBVIOUS
        <3> HIDE DEF X, Turn
        <3>2. f = [t \in X |-> Turn(f, t)]
            BY <2>5, <3>1
        <3> QED
            BY <3>2
    <2> HIDE DEF iter
    <2>7. /\ iter[{}] = <<>>
          /\ \A t \in X : t # {} => iter[t] = iter[t \ {Greatest(t)}] \o <<"delim">> \o PartText(s[Greatest(t)])
        BY <2>6
    <2>8. ASSUME NEW t \in X, t # {}, iter[t \ {Greatest(t)}] \in T
          PROVE  iter[t] \in T /\ iter[t] = step[iter[t \ {Greatest(t)}]][s[Greatest(t)]]
        <3>1. s[Greatest(t)] \in P
            BY <2>1, <2>3, <2>8
        <3> QED
            BY <1>2, <2>7, <2>8, <3>1
    <2> HIDE DEF Turn
    <2>9. \A t \in X : iter[t] \in T
        <3>1. Keeps(iter, n, T)
            BY <1>1, <2>7, <2>8 DEF Keeps
        <3> QED
            BY <2>1, <3>1, FoldInduction
    <2>10. Table(iter, step, <<>>, s)
        BY <2>3, <2>7, <2>8, <2>9 DEF Table
    <2> QED
        BY <1>1, <2>2, <2>10, FoldIs
<1> HIDE DEF step, T
<1>4. /\ FoldOf(T, step, <<>>, <<>>) = <<>>
      /\ \A s \in Seq(P) : FoldOf(T, step, <<>>, s) \in T
      /\ \A s \in Seq(P), e \in P :
            FoldOf(T, step, <<>>, Append(s, e)) = step[FoldOf(T, step, <<>>, s)][e]
    BY <1>1, FoldLaws
<1>5. <<>> \in Seq(P) /\ \A s \in Seq(P), e \in P : Append(s, e) \in Seq(P)
    BY EmptySeq, AppendProperties
<1>6. Encoded(<<>>) = <<>>
    BY <1>3, <1>4, <1>5
<1>7. ASSUME NEW s \in Seq(P)
      PROVE  /\ Encoded(s) \in T
             /\ \A e \in P : Encoded(Append(s, e)) = Encoded(s) \o <<"delim">> \o PartText(e)
    <2>1. Encoded(s) = FoldOf(T, step, <<>>, s) /\ FoldOf(T, step, <<>>, s) \in T
        BY <1>3, <1>4
    <2>2. ASSUME NEW e \in P
          PROVE  Encoded(Append(s, e)) = Encoded(s) \o <<"delim">> \o PartText(e)
        <3>1. Encoded(Append(s, e)) = FoldOf(T, step, <<>>, Append(s, e))
            BY <1>3, <1>5
        <3>2. FoldOf(T, step, <<>>, Append(s, e)) = step[FoldOf(T, step, <<>>, s)][e]
            BY <1>4
        <3> QED
            BY <1>2, <2>1, <3>1, <3>2
    <2> QED
        BY <2>1, <2>2
<1> QED
    BY <1>6, <1>7 DEF T

(* What a part adds to the files that are wanted.                          *)
Take(files, p, root) ==
    IF p.name = <<>> \/ Last(p.name) \in {"", ".", ".."} THEN files
    ELSE Append(files, [path |-> Append(root, Last(p.name)), data |-> p.data])

FilesOf(P, root) == {[path |-> Append(root, Last(p.name)), data |-> p.data] : p \in P}

(* ... and the files they stand for follow one by one.                     *)
LEMMA WantedLaws ==
    ASSUME NEW P, NEW root
    PROVE  /\ Wanted(<<>>, root) = <<>>
           /\ \A s \in Seq(P) : Wanted(s, root) \in Seq(FilesOf(P, root))
           /\ \A s \in Seq(P), e \in P :
                 Wanted(Append(s, e), root) = Take(Wanted(s, root), e, root)
<1> DEFINE T == Seq(FilesOf(P, root))
           step == [v \in T |-> [e \in P |-> Take(v, e, root)]]
<1>0. ASSUME NEW v \in T, NEW e \in P PROVE Take(v, e, root) \in T
    <2>1. [path |-> Append(root, Last(e.name)), data |-> e.data] \in FilesOf(P, root)
        BY DEF FilesOf
    <2> QED
        BY <2>1, AppendProperties DEF Take
<1>1. IsStep(step, P, T) /\ <<>> \in T
    <2>1. <<>> \in T
        OBVIOUS
    <2> HIDE DEF T
    <2> QED
        BY <1>0, <2>1 DEF IsStep
<1>2. \A v \in T, e \in P : Take(v, e, root) \in T /\ step[v][e] = Take(v, e, root)
    BY <1>0
<1>3. ASSUME NEW s \in Seq(P) PROVE Wanted(s, root) = FoldOf(T, step, <<>>, s)
    <2> DEFINE n == Len(s)
               X == SUBSET (1 .. n)
               Turn(g, t) == IF t = {} THEN <<>>
                             ELSE Take(g[t \ {Greatest(t)}], s[Greatest(t)], root)
               iter == CHOOSE g : g = [t \in X |-> Turn(g, t)]
    <2>1. n \in Nat /\ DOMAIN s = 1 .. n /\ \A i \in 1 .. n : s[i] \in P
        BY LenProperties, ElementOfSeq
    <2>2. Wanted(s, root) = iter[1 .. n]
        BY <2>1 DEF Wanted, Take, FoldLeft, MapThenFoldSet, Max, Greatest
    <2>3. \A t \in X : t # {} => Greatest(t) \in 1 .. n /\ t \ {Greatest(t)} \in X
        BY <2>1, GreatestLowers
    <2> HIDE DEF step, T
    <2>4. PICK f \in [X -> T] : Table(f, step, <<>>, s)
        BY <1>1, TableExists
    <2>5. ASSUME NEW t \in X PROVE f[t] = Turn(f, t)
        <3>1. CASE t = {}
            BY <2>4, <3>1 DEF Table
        <3>2. CASE t # {}
            <4>1. f[t] = step[f[t \ {Greatest(t)}]][s[Greatest(t)]]
                BY <2>4, <3>2 DEF Table
            <4>2. f[t \ {Greatest(t)}] \in T /\ s[Greatest(t)] \in P
                BY <2>1, <2>3, <2>4, <3>2
            <4> QED
                BY <1>2, <3>2, <4>1, <4>2
        <3> QED
            BY <3>1, <3>2
    <2>6. iter = [t \in X |-> Turn(iter, t)]
        <3>1. f = [t \in X |-> f[t]]
            OBVIOUS
        <3> HIDE DEF X, Turn
        <3>2. f = [t \in X |-> Turn(f, t)]
            BY <2>5, <3>1
        <3> QED
            BY <3>2
    <2> HIDE DEF iter
    <2>7. /\ iter[{}] = <<>>
          /\ \A t \in X : t # {} => iter[t] = Take(iter[t \ {Greatest(t)}], s[Greatest(t)], root)
        BY <2>6
    <2>8. ASSUME NEW t \in X, t # {}, iter[t \ {Greatest(t)}] \in T
          PROVE  iter[t] \in T /\ iter[t] = step[iter[t \ {Greatest(t)}]][s[Greatest(t)]]
        <3>1. s[Greatest(t)] \in P
            BY <2>1, <2>3, <2>8
        <3> QED
            BY <1>2, <2>7, <2>8, <3>1
    <2> HIDE DEF Turn
    <2>9. \A t \in X : iter[t] \in T
        <3>1. Keeps(iter, n, T)
            BY <1>1, <2>7, <2>8 DEF Keeps
        <3> QED
            BY <2>1, <3>1, FoldInduction
    <2>10. Table(iter, step, <<>>, s)
        BY <2>3, <2>7, <2>8, <2>9 DEF Table
    <2> QED
        BY <1>1, <2>2, <2>10, FoldIs
<1> HIDE DEF step, T
<1>4. /\ FoldOf(T, step, <<>>, <<>>) = <<>>
      /\ \A s \in Seq(P) : FoldOf(T, step, <<>>, s) \in T
      /\ \A s \in Seq(P), e \in P :
            FoldOf(T, step, <<>>, Append(s, e)) = step[FoldOf(T, step, <<>>, s)][e]
    BY <1>1, FoldLaws
<1>5. <<>> \in Seq(P) /\ \A s \in Seq(P), e \in P : Append(s, e) \in Seq(P)
    BY EmptySeq, AppendProperties
<1>6. Wanted(<<>>, root) = <<>>
    BY <1>3, <1>4, <1>5
<1>7. ASSUME NEW s \in Seq(P)
      PROVE  /\ Wanted(s, root) \in T
             /\ \A e \in P : Wanted(Append(s, e), root) = Take(Wanted(s, root), e, root)
    <2>1. Wanted(s, root) = FoldOf(T, step, <<>>, s) /\ FoldOf(T, step, <<>>, s) \in T
        BY <1>3, <1>4
    <2>2. ASSUME NEW e \in P
          PROVE  Wanted(Append(s, e), root) = Take(Wanted(s, root), e, root)
        <3>1. Wanted(Append(s, e), root) = FoldOf(T, step, <<>>, Append(s, e))
            BY <1>3, <1>5
        <3>2. FoldOf(T, step, <<>>, Append(s, e)) = step[FoldOf(T, step, <<>>, s)][e]
            BY <1>4
        <3> QED
            BY <1>2, <2>1, <3>1, <3>2
    <2> QED
        BY <2>1, <2>2
<1> QED
    BY <1>6, <1>7 DEF T

(* What has no delimiter goes to the last piece.                           *)
Longer(v, w) == [v EXCEPT ![Len(v)] = v[Len(v)] \o w]

LEMMA PiecesOfWord ==
    ASSUME NEW E, NEW t \in Seq(E)
    PROVE  \A w \in Seq(E \ {"delim"}) : Pieces(t \o w) = Longer(Pieces(t), w)
<1> DEFINE W == E \ {"delim"}
           v == Pieces(t)
           P == {w \in Seq(W) : Pieces(t \o w) = Longer(v, w)}
<1>1. v \in Seq(Seq(E)) /\ v # <<>> /\ Len(v) \in 1 .. Len(v) /\ v[Len(v)] \in Seq(E)
    <2>1. v \in Seq(Seq(E)) /\ v # <<>>
        BY PiecesLaws
    <2>2. Len(v) \in 1 .. Len(v)
        BY <2>1, EmptySeq
    <2> QED
        BY <2>1, <2>2, ElementOfSeq
<1> HIDE DEF v
<1>2. <<>> \in P
    <2>1. t \o <<>> = t /\ v[Len(v)] \o <<>> = v[Len(v)]
        BY <1>1, ConcatEmptySeq
    <2>2. Longer(v, <<>>) = v
        BY <1>1, <2>1 DEF Longer
    <2> QED
        BY <2>1, <2>2 DEF v
<1>3. ASSUME NEW w \in Seq(W), NEW e \in W, w \in P
      PROVE  Append(w, e) \in P
    <2>1. w \in Seq(E) /\ e \in E /\ e # "delim" /\ Append(w, e) \in Seq(W)
        <3>1. w \in Seq(E)
            BY SeqMonotonic
        <3> QED
            BY <3>1, AppendProperties
    <2>2. t \o w \in Seq(E) /\ t \o Append(w, e) = Append(t \o w, e)
        <3>1. /\ <<e>> \in Seq(E) /\ t \o w \in Seq(E)
              /\ Append(w, e) = w \o <<e>>
            BY <2>1, ConcatProperties, AppendIsConcat
        <3>2. Append(t \o w, e) = (t \o w) \o <<e>>
            BY <2>1, <3>1, AppendIsConcat
        <3> QED
            BY <2>1, <3>1, <3>2, ConcatAssociative
    <2>3. Pieces(t \o Append(w, e)) = Cut(Longer(v, w), e)
        <3>1. Pieces(t \o w) = Longer(v, w)
            BY <1>3
        <3> QED
            BY <2>1, <2>2, <3>1, PiecesLaws
    <2> DEFINE last == v[Len(v)]
               u == Longer(v, w)
    <2>4. /\ u \in Seq(Seq(E)) /\ Len(u) = Len(v) /\ u[Len(v)] = last \o w
          /\ \A j \in 1 .. Len(v) : u[j] = IF j = Len(v) THEN last \o w ELSE v[j]
        <3>1. last \o w \in Seq(E)
            BY <1>1, <2>1, ConcatProperties
        <3> QED
            BY <1>1, <3>1, ExceptSeq DEF Longer
    <2> HIDE DEF u
    <2>5. /\ Append(last \o w, e) = last \o Append(w, e)
          /\ Append(last \o w, e) \in Seq(E) /\ Append(w, e) \in Seq(E)
        <3>1. /\ <<e>> \in Seq(E) /\ last \o w \in Seq(E)
              /\ Append(w, e) = w \o <<e>>
            BY <1>1, <2>1, ConcatProperties, AppendIsConcat
        <3>2. Append(last \o w, e) = (last \o w) \o <<e>>
            BY <2>1, <3>1, AppendIsConcat
        <3>3. Append(last \o w, e) \in Seq(E) /\ Append(w, e) \in Seq(E)
            BY <2>1, <3>1, AppendProperties
        <3>4. last \in Seq(E) /\ w \in Seq(E)
            BY <1>1, <2>1
        <3> HIDE DEF last
        <3>5. (last \o w) \o <<e>> = last \o (w \o <<e>>)
            BY <3>1, <3>4, ConcatAssociative
        <3> QED
            BY <3>1, <3>2, <3>3, <3>5
    <2>6. Cut(u, e) = [u EXCEPT ![Len(v)] = Append(last \o w, e)]
        BY <2>1, <2>4 DEF Cut
    <2> DEFINE a == [u EXCEPT ![Len(v)] = Append(last \o w, e)]
               b == [v EXCEPT ![Len(v)] = Append(last \o w, e)]
    <2>7. /\ a \in Seq(Seq(E)) /\ Len(a) = Len(v)
          /\ \A j \in 1 .. Len(v) : a[j] = IF j = Len(v) THEN Append(last \o w, e) ELSE u[j]
        BY <1>1, <2>4, <2>5, ExceptSeq
    <2>8. /\ b \in Seq(Seq(E)) /\ Len(b) = Len(v)
          /\ \A j \in 1 .. Len(v) : b[j] = IF j = Len(v) THEN Append(last \o w, e) ELSE v[j]
        BY <1>1, <2>5, ExceptSeq
    <2> HIDE DEF a, b
    <2>9. a = b
        <3>1. \A j \in 1 .. Len(a) : a[j] = b[j]
            BY <2>4, <2>7, <2>8
        <3> QED
            BY <2>7, <2>8, <3>1, SeqEqual
    <2>10. b = Longer(v, Append(w, e))
        BY <2>5 DEF b, Longer
    <2> QED
        BY <2>1, <2>3, <2>6, <2>9, <2>10 DEF a, u
<1> HIDE DEF P, W
<1>4. \A w \in Seq(W) : w \in P
    BY <1>2, <1>3, SequenceInduction
<1> QED
    BY <1>4 DEF P, W, v

(* A delimiter and what has none is a piece.                               *)
LEMMA PiecesOfPart ==
    ASSUME NEW E, "delim" \in E, NEW t \in Seq(E), NEW w \in Seq(E \ {"delim"})
    PROVE  Pieces(t \o <<"delim">> \o w) = Append(Pieces(t), w)
<1> DEFINE d == t \o <<"delim">>
           v == Pieces(t)
           u == Append(v, <<>>)
<1>1. v \in Seq(Seq(E)) /\ Len(v) \in Nat /\ w \in Seq(E) /\ <<>> \in Seq(E)
    <2>1. v \in Seq(Seq(E))
        BY PiecesLaws
    <2>2. w \in Seq(E)
        BY SeqMonotonic
    <2> QED
        BY <2>1, <2>2, LenProperties, EmptySeq
<1>2. d \in Seq(E) /\ d = Append(t, "delim")
    BY AppendIsConcat, AppendProperties
<1>3. Pieces(d) = u
    <2>1. Pieces(d) = Cut(v, "delim")
        BY <1>2, PiecesLaws
    <2> QED
        BY <2>1 DEF Cut
<1> HIDE DEF v, d
<1>4. /\ u \in Seq(Seq(E)) /\ Len(u) = Len(v) + 1 /\ u[Len(v) + 1] = <<>>
      /\ \A i \in 1 .. Len(v) : u[i] = v[i]
    BY <1>1, AppendProperties
<1> HIDE DEF u
<1>5. Pieces(d \o w) = Longer(u, w)
    BY <1>2, <1>3, PiecesOfWord
<1> DEFINE a == [u EXCEPT ![Len(u)] = w]
           b == Append(v, w)
<1>6. Longer(u, w) = a
    <2>1. <<>> \o w = w
        BY <1>1, ConcatEmptySeq
    <2> QED
        BY <1>1, <1>4, <2>1 DEF Longer
<1>7. /\ a \in Seq(Seq(E)) /\ Len(a) = Len(u)
      /\ \A j \in 1 .. Len(u) : a[j] = IF j = Len(u) THEN w ELSE u[j]
    <2>1. Len(u) \in 1 .. Len(u)
        BY <1>1, <1>4
    <2> QED
        BY <1>1, <1>4, <2>1, ExceptSeq
<1>8. /\ b \in Seq(Seq(E)) /\ Len(b) = Len(v) + 1 /\ b[Len(v) + 1] = w
      /\ \A i \in 1 .. Len(v) : b[i] = v[i]
    BY <1>1, AppendProperties
<1> HIDE DEF a, b
<1>9. a = b
    <2>1. ASSUME NEW j \in 1 .. Len(a) PROVE a[j] = b[j]
        <3>1. CASE j = Len(v) + 1
            BY <1>4, <1>7, <1>8, <3>1
        <3>2. CASE j # Len(v) + 1
            <4>1. j \in 1 .. Len(v) /\ j \in 1 .. Len(u) /\ j # Len(u)
                BY <1>1, <1>4, <1>7, <3>2
            <4> QED
                BY <1>4, <1>7, <1>8, <4>1
        <3> QED
            BY <3>1, <3>2
    <2> QED
        BY <1>4, <1>7, <1>8, <2>1, SeqEqual
<1> QED
    BY <1>5, <1>6, <1>9 DEF b, v, d

(* The pieces of an encoding are the texts of its parts, after nothing.    *)
Texts(parts) == [k \in 1 .. Len(parts) |-> PartText(parts[k])]

WordsIn(P, E) == \A p \in P : PartText(p) \in Seq(E \ {"delim"})

LEMMA TextsAppend ==
    ASSUME NEW E, NEW P, WordsIn(P, E), NEW parts \in Seq(P), NEW p \in P
    PROVE  /\ Texts(parts) \in Seq(Seq(E)) /\ Len(Texts(parts)) = Len(parts)
           /\ Texts(Append(parts, p)) = Append(Texts(parts), PartText(p))
<1>1. /\ Len(parts) \in Nat /\ \A k \in 1 .. Len(parts) : parts[k] \in P
      /\ Append(parts, p) \in Seq(P) /\ Len(Append(parts, p)) = Len(parts) + 1
      /\ \A k \in 1 .. Len(parts) : Append(parts, p)[k] = parts[k]
      /\ Append(parts, p)[Len(parts) + 1] = p
    BY LenProperties, ElementOfSeq, AppendProperties
<1>2. \A q \in P : PartText(q) \in Seq(E)
    <2> SUFFICES ASSUME NEW q \in P PROVE PartText(q) \in Seq(E)
        OBVIOUS
    <2>1. PartText(q) \in Seq(E \ {"delim"})
        BY DEF WordsIn
    <2> QED
        BY <2>1, SeqMonotonic
<1>3. Texts(parts) \in Seq(Seq(E)) /\ Len(Texts(parts)) = Len(parts)
    BY <1>1, <1>2 DEF Texts
<1> DEFINE a == Texts(Append(parts, p))
           b == Append(Texts(parts), PartText(p))
<1>4. /\ a \in Seq(Seq(E)) /\ Len(a) = Len(parts) + 1
      /\ \A k \in 1 .. Len(parts) + 1 : a[k] = PartText(Append(parts, p)[k])
    <2>1. \A k \in 1 .. Len(parts) + 1 : Append(parts, p)[k] \in P
        BY <1>1
    <2> QED
        BY <1>1, <1>2, <2>1 DEF Texts
<1>5. /\ b \in Seq(Seq(E)) /\ Len(b) = Len(parts) + 1 /\ b[Len(parts) + 1] = PartText(p)
      /\ \A k \in 1 .. Len(parts) : b[k] = PartText(parts[k])
    <2>1. \A k \in 1 .. Len(parts) : Texts(parts)[k] = PartText(parts[k])
        BY DEF Texts
    <2>2. /\ b \in Seq(Seq(E)) /\ Len(b) = Len(Texts(parts)) + 1
          /\ b[Len(Texts(parts)) + 1] = PartText(p)
          /\ \A k \in 1 .. Len(Texts(parts)) : b[k] = Texts(parts)[k]
        BY <1>2, <1>3, AppendProperties
    <2> HIDE DEF b
    <2> QED
        BY <1>3, <2>1, <2>2
<1> HIDE DEF a, b
<1>6. a = b
    <2>1. ASSUME NEW k \in 1 .. Len(a) PROVE a[k] = b[k]
        <3>1. CASE k = Len(parts) + 1
            BY <1>1, <1>4, <1>5, <3>1
        <3>2. CASE k # Len(parts) + 1
            <4>1. k \in 1 .. Len(parts) /\ k \in 1 .. Len(parts) + 1
                BY <1>1, <1>4, <3>2
            <4> QED
                BY <1>1, <1>4, <1>5, <4>1
        <3> QED
            BY <3>1, <3>2
    <2> QED
        BY <1>4, <1>5, <2>1, SeqEqual
<1> QED
    BY <1>3, <1>6 DEF a, b

LEMMA PiecesEncoded ==
    ASSUME NEW E, NEW P, TextsIn(P, E), WordsIn(P, E)
    PROVE  \A parts \in Seq(P) :
              /\ Encoded(parts) \in Seq(E)
              /\ Pieces(Encoded(parts)) = << <<>> >> \o Texts(parts)
<1> DEFINE Q == {parts \in Seq(P) : Pieces(Encoded(parts)) = << <<>> >> \o Texts(parts)}
           none == << <<>> >>
<1>1. none \in Seq(Seq(E))
    OBVIOUS
<1>2. <<>> \in Q
    <2>1. Texts(<<>>) = <<>>
        BY DEF Texts
    <2>2. Encoded(<<>>) = <<>>
        BY EncodedLaws
    <2>3. Pieces(<<>>) = none
        BY PiecesLaws
    <2>4. none \o <<>> = none
        BY <1>1, ConcatEmptySeq
    <2> HIDE DEF none
    <2>5. Pieces(Encoded(<<>>)) = none \o Texts(<<>>)
        BY <2>1, <2>2, <2>3, <2>4
    <2>6. <<>> \in Seq(P)
        BY EmptySeq
    <2> QED
        BY <2>5, <2>6 DEF none
<1>3. ASSUME NEW parts \in Seq(P), NEW p \in P, parts \in Q
      PROVE  Append(parts, p) \in Q
    <2>1. /\ Encoded(parts) \in Seq(E)
          /\ Encoded(Append(parts, p)) = Encoded(parts) \o <<"delim">> \o PartText(p)
        BY EncodedLaws
    <2>2. "delim" \in E /\ PartText(p) \in Seq(E) /\ PartText(p) \in Seq(E \ {"delim"})
        BY DEF TextsIn, WordsIn
    <2>3. Pieces(Encoded(Append(parts, p))) = Append(Pieces(Encoded(parts)), PartText(p))
        BY <2>1, <2>2, PiecesOfPart
    <2>4. /\ Texts(parts) \in Seq(Seq(E))
          /\ Texts(Append(parts, p)) = Append(Texts(parts), PartText(p))
        BY TextsAppend
    <2> DEFINE text == PartText(p)
               texts == Texts(parts)
    <2>5. text \in Seq(E) /\ texts \in Seq(Seq(E))
        BY <2>2, <2>4
    <2> HIDE DEF text, texts, none
    <2>6. Append(none \o texts, text) = none \o Append(texts, text)
        <3>1. none \o texts \in Seq(Seq(E))
            BY <1>1, <2>5, ConcatProperties
        <3>5. text \in Seq(E) /\ texts \in Seq(Seq(E))
            BY <2>5
        <3>2. Append(none \o texts, text) = (none \o texts) \o <<text>>
            BY <3>1, <3>5, AppendIsConcat
        <3>3. Append(texts, text) = texts \o <<text>>
            BY <2>5, AppendIsConcat
        <3>4. (none \o texts) \o <<text>> = none \o (texts \o <<text>>)
            <4> DEFINE one == <<text>>
            <4>1. one \in Seq(Seq(E))
                BY <3>5
            <4>2. none \in Seq(Seq(E))
                BY <1>1 DEF none
            <4> HIDE DEF one
            <4>3. (none \o texts) \o one = none \o (texts \o one)
                BY <3>5, <4>1, <4>2, ConcatAssociative, SMTT(30)
            <4> QED
                BY <4>3 DEF one
        <3> QED
            BY <3>2, <3>3, <3>4
    <2>7. Pieces(Encoded(parts)) = none \o texts
        BY <1>3 DEF texts, none
    <2>8. Pieces(Encoded(Append(parts, p))) = none \o Texts(Append(parts, p))
        BY <2>3, <2>4, <2>6, <2>7 DEF text, texts
    <2>9. Append(parts, p) \in Seq(P)
        BY AppendProperties
    <2> QED
        BY <2>8, <2>9 DEF none
<1> HIDE DEF Q
<1>4. \A parts \in Seq(P) : parts \in Q
    BY <1>2, <1>3, SequenceInduction
<1>5. \A parts \in Seq(P) : Encoded(parts) \in Seq(E)
    BY EncodedLaws
<1> QED
    BY <1>4, <1>5 DEF Q

(* So its segments are the texts of its parts.                             *)
LEMMA SegmentsEncoded ==
    ASSUME NEW E, NEW P, TextsIn(P, E), WordsIn(P, E), "dash" \in E, NEW parts \in Seq(P)
    PROVE  Encode(parts) \in Seq(E) /\ Segments(Encode(parts)) = Texts(parts)
<1> DEFINE text == Encoded(parts)
           end == <<"delim">> \o <<"dash">>
           none == << <<>> >>
           texts == Texts(parts)
           last == <<"dash">>
<1>1. text \in Seq(E) /\ Pieces(text) = none \o texts
    BY PiecesEncoded
<1>2. "delim" \in E /\ last \in Seq(E \ {"delim"}) /\ last \in Seq(E) /\ <<"delim">> \in Seq(E)
    BY DEF TextsIn
<1>3. Encode(parts) = (text \o <<"delim">>) \o last
    <2>1. Encode(parts) = text \o <<"delim", "dash">>
        BY DEF Encode, Encoded
    <2>2. <<"delim", "dash">> = <<"delim">> \o last
        OBVIOUS
    <2> HIDE DEF text, last
    <2> QED
        BY <1>1, <1>2, <2>1, <2>2, ConcatAssociative
<1> HIDE DEF text
<1>4. Encode(parts) \in Seq(E)
    <2> HIDE DEF last
    <2>1. text \o <<"delim">> \in Seq(E)
        BY <1>1, <1>2, ConcatProperties
    <2> QED
        BY <1>2, <1>3, <2>1, ConcatProperties
<1>5. Pieces(Encode(parts)) = Append(none \o texts, last)
    <2> HIDE DEF last, none, texts
    <2>1. Pieces((text \o <<"delim">>) \o last) = Append(Pieces(text), last)
        BY <1>1, <1>2, PiecesOfPart
    <2> QED
        BY <1>1, <1>3, <2>1
<1>6. texts \in Seq(Seq(E)) /\ Len(texts) \in Nat /\ Len(none) = 1 /\ none \in Seq(Seq(E))
    <2>1. \A k \in 1 .. Len(parts) : PartText(parts[k]) \in Seq(E)
        <3> SUFFICES ASSUME NEW k \in 1 .. Len(parts) PROVE PartText(parts[k]) \in Seq(E)
            OBVIOUS
        <3>1. parts[k] \in P
            BY ElementOfSeq
        <3> QED
            BY <3>1 DEF TextsIn
    <2>2. Len(parts) \in Nat
        BY LenProperties
    <2>3. texts \in Seq(Seq(E))
        BY <2>1, <2>2 DEF Texts
    <2> QED
        BY <2>3, LenProperties
<1> HIDE DEF texts, none, last
<1> DEFINE v == none \o texts
           u == Append(v, last)
           s == SubSeq(u, 2, Len(u) - 1)
<1>7. /\ v \in Seq(Seq(E)) /\ Len(v) = Len(texts) + 1
      /\ \A k \in 1 .. Len(texts) : v[k + 1] = texts[k]
    <2>1. /\ v \in Seq(Seq(E)) /\ Len(v) = Len(none) + Len(texts)
          /\ \A k \in 1 .. Len(none) + Len(texts) :
                v[k] = IF k <= Len(none) THEN none[k] ELSE texts[k - Len(none)]
        BY <1>6, ConcatProperties
    <2> HIDE DEF v
    <2>2. ASSUME NEW k \in 1 .. Len(texts) PROVE v[k + 1] = texts[k]
        <3>1. k + 1 \in 1 .. Len(none) + Len(texts) /\ ~(k + 1 <= Len(none)) /\ k + 1 - Len(none) = k
            BY <1>6
        <3> QED
            BY <2>1, <3>1
    <2>3. Len(none) + Len(texts) = Len(texts) + 1
        BY <1>6
    <2>4. v \in Seq(Seq(E)) /\ Len(v) = Len(texts) + 1
        BY <2>1, <2>3
    <2> QED
        BY <2>2, <2>4
<1> HIDE DEF v
<1>8. /\ u \in Seq(Seq(E)) /\ Len(u) = Len(texts) + 2
      /\ \A k \in 1 .. Len(texts) : u[k + 1] = texts[k]
    <2>1. /\ u \in Seq(Seq(E)) /\ Len(u) = Len(v) + 1
          /\ \A k \in 1 .. Len(v) : u[k] = v[k]
        BY <1>2, <1>7, AppendProperties
    <2> HIDE DEF u
    <2>2. ASSUME NEW k \in 1 .. Len(texts) PROVE u[k + 1] = texts[k]
        <3>1. k + 1 \in 1 .. Len(v)
            BY <1>6, <1>7
        <3>2. u[k + 1] = v[k + 1]
            BY <2>1, <3>1
        <3> QED
            BY <1>7, <3>2
    <2>3. Len(u) = Len(texts) + 2
        BY <1>6, <1>7, <2>1
    <2> QED
        BY <2>1, <2>2, <2>3
<1> HIDE DEF u
<1>9. s = texts
    <2>1. Len(u) - 1 = Len(texts) + 1
        BY <1>6, <1>8
    <2>2. \A i \in 2 .. Len(texts) + 1 : u[i] \in Seq(E)
        <3> SUFFICES ASSUME NEW i \in 2 .. Len(texts) + 1 PROVE u[i] \in Seq(E)
            OBVIOUS
        <3>1. i \in 1 .. Len(u)
            BY <1>6, <1>8
        <3> QED
            BY <1>8, <3>1, ElementOfSeq
    <2>3. /\ s \in Seq(Seq(E))
          /\ Len(s) = IF 2 <= Len(texts) + 1 THEN Len(texts) + 1 - 2 + 1 ELSE 0
          /\ \A i \in 1 .. Len(texts) + 1 - 2 + 1 : s[i] = u[2 + i - 1]
        BY <1>6, <2>1, <2>2, SubSeqProperties, SMTT(30)
    <2> HIDE DEF s
    <2>4. Len(s) = Len(texts)
        BY <1>6, <2>3
    <2>5. ASSUME NEW i \in 1 .. Len(texts) PROVE s[i] = texts[i]
        <3>1. i \in 1 .. Len(texts) + 1 - 2 + 1 /\ 2 + i - 1 = i + 1
            BY <1>6
        <3> QED
            BY <1>8, <2>3, <3>1
    <2> QED
        BY <1>6, <2>3, <2>4, <2>5, SeqEqual
<1> QED
    BY <1>4, <1>5, <1>9 DEF Segments, texts, u, v

(* What stands between two others in a text can be cut out of it.          *)
LEMMA Middle ==
    ASSUME NEW E, NEW a \in Seq(E), NEW b \in Seq(E), NEW c \in Seq(E)
    PROVE  SubSeq((a \o b) \o c, Len(a) + 1, Len(a) + Len(b)) = b
<1> DEFINE t == (a \o b) \o c
           s == SubSeq(t, Len(a) + 1, Len(a) + Len(b))
<1>1. Len(a) \in Nat /\ Len(b) \in Nat /\ Len(c) \in Nat
    BY LenProperties
<1>2. /\ a \o b \in Seq(E) /\ Len(a \o b) = Len(a) + Len(b)
      /\ \A i \in 1 .. Len(a) + Len(b) : (a \o b)[i] = IF i <= Len(a) THEN a[i] ELSE b[i - Len(a)]
    BY ConcatProperties
<1>3. /\ t \in Seq(E)
      /\ \A i \in 1 .. Len(a \o b) + Len(c) :
            t[i] = IF i <= Len(a \o b) THEN (a \o b)[i] ELSE c[i - Len(a \o b)]
    BY <1>2, ConcatProperties
<1> HIDE DEF t
<1>4. ASSUME NEW i \in 1 .. Len(b) PROVE t[Len(a) + i] = b[i]
    <2>1. Len(a) + i \in 1 .. Len(a) + Len(b) /\ ~(Len(a) + i <= Len(a)) /\ Len(a) + i - Len(a) = i
        BY <1>1
    <2>2. (a \o b)[Len(a) + i] = b[i]
        BY <1>2, <2>1
    <2>3. Len(a) + i \in 1 .. Len(a \o b) + Len(c) /\ Len(a) + i <= Len(a \o b)
        BY <1>1, <1>2, <2>1
    <2> QED
        BY <1>3, <2>2, <2>3
<1>5. \A i \in Len(a) + 1 .. Len(a) + Len(b) : t[i] \in E
    <2> SUFFICES ASSUME NEW i \in Len(a) + 1 .. Len(a) + Len(b) PROVE t[i] \in E
        OBVIOUS
    <2>1. i - Len(a) \in 1 .. Len(b) /\ Len(a) + (i - Len(a)) = i
        BY <1>1
    <2>2. t[i] = b[i - Len(a)]
        BY <1>4, <2>1
    <2> QED
        BY <2>1, <2>2, ElementOfSeq
<1>6. /\ s \in Seq(E)
      /\ Len(s) = IF Len(a) + 1 <= Len(a) + Len(b) THEN Len(a) + Len(b) - (Len(a) + 1) + 1 ELSE 0
      /\ \A i \in 1 .. Len(a) + Len(b) - (Len(a) + 1) + 1 : s[i] = t[Len(a) + 1 + i - 1]
    BY <1>1, <1>5, SubSeqProperties
<1> HIDE DEF s
<1>7. Len(s) = Len(b)
    BY <1>1, <1>6
<1>8. ASSUME NEW i \in 1 .. Len(b) PROVE s[i] = b[i]
    <2>1. /\ i \in 1 .. Len(a) + Len(b) - (Len(a) + 1) + 1
          /\ Len(a) + 1 + i - 1 = Len(a) + i
        BY <1>1
    <2> QED
        BY <1>4, <1>6, <2>1
<1>9. s = b
    BY <1>6, <1>7, <1>8, SeqEqual
<1> QED
    BY <1>9 DEF s, t

(* The least of some naturals.                                             *)
LEMMA MinLeast ==
    ASSUME NEW S \in SUBSET Nat, NEW k \in S, \A y \in S : k <= y
    PROVE  Min(S) = k
<1>1. \E x \in S : \A y \in S : x <= y
    OBVIOUS
<1>2. Min(S) \in S /\ \A y \in S : Min(S) <= y
    BY <1>1 DEF Min
<1>3. Min(S) <= k /\ k <= Min(S) /\ k \in Nat /\ Min(S) \in Nat
    BY <1>2
<1> QED
    BY <1>3

(* What stands where in a sequence is equal to needle.                     *)
Hits(s, needle) ==
    {i \in 1 .. Len(s) + 1 - Len(needle) : SubSeq(s, i, i + Len(needle) - 1) = needle}

(* A needle is where it is found, and not before.                          *)
LEMMA FindExact ==
    ASSUME NEW E, NEW s \in Seq(E), NEW needle \in Seq(E)
    PROVE  /\ Hits(s, needle) = {} => Find(s, needle) = 0
           /\ \A k \in Hits(s, needle) :
                 (\A y \in Hits(s, needle) : k <= y) => Find(s, needle) = k
           /\ Find(s, needle) # 0 =>
                 /\ Find(s, needle) \in Hits(s, needle)
                 /\ \A y \in Hits(s, needle) : Find(s, needle) <= y
<1> DEFINE hits == Hits(s, needle)
<1>1. Find(s, needle) = IF hits = {} THEN 0 ELSE Min(hits)
    BY DEF Find, Hits
<1>2. hits \in SUBSET Nat
    <2>1. Len(s) \in Nat /\ Len(needle) \in Nat
        BY LenProperties
    <2> QED
        BY <2>1 DEF Hits
<1> HIDE DEF hits
<1>3. ASSUME NEW k \in hits, \A y \in hits : k <= y PROVE Find(s, needle) = k
    <2>1. Min(hits) = k
        BY <1>2, <1>3, MinLeast
    <2> QED
        BY <1>1, <1>3, <2>1
<1>4. ASSUME Find(s, needle) # 0
      PROVE  Find(s, needle) \in hits /\ \A y \in hits : Find(s, needle) <= y
    <2>1. hits # {}
        BY <1>1, <1>4
    <2>2. PICK k \in hits : \A y \in hits : k <= y
        BY <1>2, <2>1, LeastNatural
    <2>3. Find(s, needle) = k
        BY <1>3, <2>2
    <2> QED
        BY <2>2, <2>3
<1> QED
    BY <1>1, <1>3, <1>4 DEF hits

(* What is found in a text is found there in any longer one.               *)
LEMMA FindPrefix ==
    ASSUME NEW E, NEW a \in Seq(E), NEW b \in Seq(E), NEW needle \in Seq(E),
           Find(a, needle) # 0
    PROVE  Find(a \o b, needle) = Find(a, needle)
<1> DEFINE n == Len(needle)
           k == Find(a, needle)
           t == a \o b
<1>1. Len(a) \in Nat /\ Len(b) \in Nat /\ n \in Nat
    BY LenProperties
<1>2. k \in Hits(a, needle) /\ \A y \in Hits(a, needle) : k <= y
    BY FindExact
<1>3. t \in Seq(E) /\ Len(t) = Len(a) + Len(b)
    BY ConcatProperties
<1>4. ASSUME NEW i \in 1 .. Len(a) + 1 - n
      PROVE  SubSeq(t, i, i + n - 1) = SubSeq(a, i, i + n - 1)
    <2>1. CASE n = 0
        <3>1. i \in Int /\ i + n - 1 \in Int /\ i + n - 1 < i
            BY <1>1, <2>1
        <3> QED
            BY <3>1, SubSeqEmpty
    <2>2. CASE n # 0
        <3>1. i \in 1 .. Len(a) /\ i + n - 1 \in 1 .. Len(a)
            BY <1>1, <2>2
        <3> QED
            BY <3>1, SubSeqOfConcat1
    <2> QED
        BY <2>1, <2>2
<1> HIDE DEF t, k
<1>5. k \in 1 .. Len(a) + 1 - n /\ k \in Hits(t, needle)
    <2>1. k \in 1 .. Len(a) + 1 - n /\ SubSeq(a, k, k + n - 1) = needle
        BY <1>2 DEF Hits
    <2>2. SubSeq(t, k, k + n - 1) = needle
        BY <1>4, <2>1
    <2>3. k \in 1 .. Len(t) + 1 - n
        BY <1>1, <1>3, <2>1
    <2> QED
        BY <2>1, <2>2, <2>3 DEF Hits
<1>6. ASSUME NEW y \in Hits(t, needle) PROVE k <= y
    <2>1. y \in 1 .. Len(t) + 1 - n /\ SubSeq(t, y, y + n - 1) = needle
        BY DEF Hits
    <2>2. y \in Nat /\ k \in Nat
        BY <1>1, <1>3, <1>5, <2>1
    <2>3. CASE y <= Len(a) + 1 - n
        <3>1. y \in 1 .. Len(a) + 1 - n
            BY <1>1, <2>1, <2>2, <2>3
        <3>2. SubSeq(a, y, y + n - 1) = needle
            BY <1>4, <2>1, <3>1
        <3>3. y \in Hits(a, needle)
            BY <3>1, <3>2 DEF Hits
        <3> QED
            BY <1>2, <3>3
    <2>4. CASE ~(y <= Len(a) + 1 - n)
        BY <1>1, <1>5, <2>2, <2>4
    <2> QED
        BY <2>3, <2>4
<1>7. Find(t, needle) = k
    BY <1>3, <1>5, <1>6, FindExact
<1> QED
    BY <1>7 DEF t, k

(* A text between line ends loses both.                                    *)
LEMMA LineEndsOff ==
    ASSUME NEW E, NEW m \in Seq(E), {"cr", "lf"} \subseteq E
    PROVE  /\ WithoutFirstLineEnd((CRLF \o m) \o CRLF) = m \o CRLF
           /\ WithoutLastLineEnd(m \o CRLF) = m
<1> DEFINE t == (CRLF \o m) \o CRLF
           u == m \o CRLF
<1>1. CRLF \in Seq(E) /\ Len(CRLF) = 2 /\ CRLF[1] = "cr" /\ CRLF[2] = "lf"
    BY DEF CRLF
<1>2. Len(m) \in Nat
    BY LenProperties
<1>3. u \in Seq(E) /\ Len(u) = Len(m) + 2 /\ u[Len(m) + 1] = "cr" /\ u[Len(m) + 2] = "lf"
    <2>1. /\ u \in Seq(E) /\ Len(u) = Len(m) + Len(CRLF)
          /\ \A i \in 1 .. Len(m) + Len(CRLF) : u[i] = IF i <= Len(m) THEN m[i] ELSE CRLF[i - Len(m)]
        BY <1>1, ConcatProperties
    <2> HIDE DEF u
    <2>2. /\ Len(m) + 1 \in 1 .. Len(m) + Len(CRLF) /\ ~(Len(m) + 1 <= Len(m)) /\ Len(m) + 1 - Len(m) = 1
          /\ Len(m) + 2 \in 1 .. Len(m) + Len(CRLF) /\ ~(Len(m) + 2 <= Len(m)) /\ Len(m) + 2 - Len(m) = 2
        BY <1>1, <1>2
    <2>3. u[Len(m) + 1] = "cr"
        BY <1>1, <2>1, <2>2
    <2>4. u[Len(m) + 2] = "lf"
        BY <1>1, <2>1, <2>2
    <2> QED
        BY <1>1, <2>1, <2>3, <2>4
<1>4. t = CRLF \o u
    <2> HIDE DEF t
    <2>1. (CRLF \o m) \o CRLF = CRLF \o (m \o CRLF)
        BY <1>1, ConcatAssociative
    <2> QED
        BY <2>1 DEF t
<1>5. t \in Seq(E) /\ Len(t) = Len(u) + 2 /\ t[1] = "cr" /\ t[2] = "lf"
    <2> HIDE DEF u, t
    <2> DEFINE z == CRLF \o u
    <2>4. /\ z \in Seq(E) /\ Len(z) = Len(CRLF) + Len(u)
          /\ \A i \in 1 .. Len(CRLF) + Len(u) : z[i] = IF i <= Len(CRLF) THEN CRLF[i] ELSE u[i - Len(CRLF)]
        <3>1. CRLF \in Seq(E) /\ u \in Seq(E)
            BY <1>1, <1>3
        <3> QED
            BY <3>1, ConcatProperties
    <2>5. t = z
        BY <1>4
    <2> HIDE DEF z
    <2>1. /\ t \in Seq(E) /\ Len(t) = Len(CRLF) + Len(u)
          /\ \A i \in 1 .. Len(CRLF) + Len(u) : t[i] = IF i <= Len(CRLF) THEN CRLF[i] ELSE u[i - Len(CRLF)]
        BY <2>4, <2>5
    <2>2. 1 \in 1 .. Len(CRLF) + Len(u) /\ 2 \in 1 .. Len(CRLF) + Len(u)
        BY <1>1, <1>2, <1>3
    <2>3. Len(t) = Len(u) + 2
        BY <1>1, <1>2, <1>3, <2>1
    <2> QED
        BY <1>1, <2>1, <2>2, <2>3
<1> HIDE DEF t, u
<1>6. WithoutFirstLineEnd(t) = u
    <2>1. \A i \in 1 .. Len(CRLF) : i = 1 \/ i = 2
        BY <1>1
    <2>2. \A i \in 1 .. Len(CRLF) : CRLF[i] = t[i]
        BY <1>1, <1>5, <2>1
    <2>3. Len(CRLF) <= Len(t)
        BY <1>1, <1>2, <1>3, <1>5
    <2>4. IsPrefix(CRLF, t)
        BY <1>1, <1>5, <2>2, <2>3, PrefixAgrees
    <2> DEFINE none == <<>>
    <2>5. none \in Seq(E) /\ (CRLF \o u) \o none = CRLF \o u
        <3>1. CRLF \o u \in Seq(E)
            BY <1>1, <1>3, ConcatProperties
        <3> QED
            BY <3>1, ConcatEmptySeq, EmptySeq
    <2> HIDE DEF none
    <2>6. SubSeq((CRLF \o u) \o none, Len(CRLF) + 1, Len(CRLF) + Len(u)) = u
        BY <1>1, <1>3, <2>5, Middle
    <2>7. Len(CRLF) + 1 = 3 /\ Len(CRLF) + Len(u) = Len(t)
        BY <1>1, <1>2, <1>3, <1>5
    <2>8. SubSeq(t, 3, Len(t)) = u
        BY <1>4, <2>5, <2>6, <2>7
    <2> QED
        BY <2>4, <2>8 DEF WithoutFirstLineEnd
<1>7. WithoutLastLineEnd(u) = m
    <2> DEFINE a == Reverse(CRLF)
               b == Reverse(u)
    <2>1. a \in Seq(E) /\ Len(a) = 2 /\ a[1] = "lf" /\ a[2] = "cr"
        BY <1>1 DEF Reverse
    <2>2. b = [i \in 1 .. Len(u) |-> u[(Len(u) - i) + 1]]
        BY DEF Reverse
    <2>3. b \in Seq(E) /\ Len(b) = Len(u)
        <3>1. Len(u) \in Nat
            BY <1>2, <1>3
        <3>2. ASSUME NEW i \in 1 .. Len(u) PROVE u[(Len(u) - i) + 1] \in E
            <4>1. (Len(u) - i) + 1 \in 1 .. Len(u)
                BY <3>1
            <4> QED
                BY <1>3, <4>1, ElementOfSeq
        <3> HIDE DEF b
        <3> QED
            BY <2>2, <3>1, <3>2
    <2>4. b[1] = "lf" /\ b[2] = "cr"
        <3>1. /\ 1 \in 1 .. Len(u) /\ 2 \in 1 .. Len(u)
              /\ (Len(u) - 1) + 1 = Len(m) + 2 /\ (Len(u) - 2) + 1 = Len(m) + 1
            BY <1>2, <1>3
        <3> HIDE DEF b
        <3> QED
            BY <1>3, <2>2, <3>1
    <2> HIDE DEF a, b
    <2>5. IsPrefix(a, b)
        <3>1. \A i \in 1 .. Len(a) : i = 1 \/ i = 2
            BY <2>1
        <3>2. \A i \in 1 .. Len(a) : a[i] = b[i]
            BY <2>1, <2>4, <3>1
        <3>3. Len(a) <= Len(b)
            BY <1>2, <1>3, <2>1, <2>3
        <3> QED
            BY <2>1, <2>3, <3>2, <3>3, PrefixAgrees
    <2>6. IsSuffix(CRLF, u)
        BY <2>5 DEF IsSuffix, a, b
    <2> DEFINE none == <<>>
    <2>7. none \in Seq(E) /\ none \o m = m /\ Len(none) = 0
        BY ConcatEmptySeq, EmptySeq
    <2> HIDE DEF none
    <2>8. SubSeq((none \o m) \o CRLF, Len(none) + 1, Len(none) + Len(m)) = m
        BY <1>1, <2>7, Middle
    <2>9. SubSeq(u, 1, Len(u) - 2) = m
        <3>1. Len(none) + 1 = 1 /\ Len(none) + Len(m) = Len(u) - 2
            BY <1>2, <1>3, <2>7
        <3> QED
            BY <2>7, <2>8, <3>1 DEF u
    <2> QED
        BY <2>6, <2>9 DEF WithoutLastLineEnd
<1> QED
    BY <1>6, <1>7 DEF t, u

(* The text of a part is found to hold the file that it stands for.        *)
LEMMA PartFileExact ==
    ASSUME NEW E, {"cr", "lf"} \subseteq E, NEW p, IsPart(p),
           p.fields \in Seq(E), p.data \in Seq(E)
    PROVE  /\ PartText(p) \in Seq(E)
           /\ p.name \in Seq(STRING)
           /\ PartFile(PartText(p)) =
                IF p.name = <<>> THEN [path |-> <<>>, data |-> <<>>]
                ELSE [path |-> SanitizeFilename(p.name), data |-> p.data]
<1> DEFINE F == p.fields
           D == p.data
           sep == CRLF \o CRLF
           G == F \o sep
           m == G \o D
           text == (CRLF \o m) \o CRLF
<1>1. CRLF \in Seq(E) /\ sep \in Seq(E) /\ Len(sep) = 4 /\ Len(CRLF) = 2
    BY DEF CRLF
<1>2. F \in Seq(E) /\ D \in Seq(E) /\ Len(F) \in Nat /\ Len(D) \in Nat
    BY LenProperties
<1> HIDE DEF F, D
<1>3. /\ G \in Seq(E) /\ Len(G) = Len(F) + 4 /\ G = (F \o CRLF) \o CRLF
      /\ \A i \in 1 .. Len(F) : G[i] = F[i]
    <2>0. F \in Seq(E) /\ CRLF \in Seq(E)
        BY <1>1, <1>2
    <2>1. (F \o CRLF) \o CRLF = F \o (CRLF \o CRLF)
        BY <2>0, ConcatAssociative
    <2> HIDE DEF sep
    <2>2. /\ G \in Seq(E) /\ Len(G) = Len(F) + Len(sep)
          /\ \A i \in 1 .. Len(F) + Len(sep) : G[i] = IF i <= Len(F) THEN F[i] ELSE sep[i - Len(F)]
        BY <1>1, <1>2, ConcatProperties
    <2>3. \A i \in 1 .. Len(F) : i \in 1 .. Len(F) + Len(sep) /\ i <= Len(F)
        BY <1>1, <1>2
    <2> HIDE DEF G
    <2>4. \A i \in 1 .. Len(F) : G[i] = F[i]
        BY <2>2, <2>3
    <2> QED
        BY <1>1, <2>1, <2>2, <2>4 DEF G, sep
<1> HIDE DEF sep, G
<1>4. /\ m \in Seq(E) /\ Len(m) = Len(F) + 4 + Len(D)
      /\ \A i \in 1 .. Len(F) : m[i] = F[i]
    <2>1. /\ m \in Seq(E) /\ Len(m) = Len(G) + Len(D)
          /\ \A i \in 1 .. Len(G) + Len(D) : m[i] = IF i <= Len(G) THEN G[i] ELSE D[i - Len(G)]
        <3>1. G \in Seq(E) /\ D \in Seq(E)
            BY <1>2, <1>3
        <3> QED
            BY <3>1, ConcatProperties
    <2>2. \A i \in 1 .. Len(F) : i \in 1 .. Len(G) + Len(D) /\ i <= Len(G)
        BY <1>2, <1>3
    <2> HIDE DEF m
    <2>3. \A i \in 1 .. Len(F) : m[i] = F[i]
        BY <1>3, <2>1, <2>2
    <2> QED
        BY <1>3, <2>1, <2>3
<1>5. PartText(p) = text
    <2> DEFINE f1 == CRLF \o F
               f2 == F \o CRLF
    <2>1. f1 \in Seq(E) /\ f2 \in Seq(E)
        BY <1>1, <1>2, ConcatProperties
    <2>2. PartText(p) = (((f1 \o CRLF) \o CRLF) \o D) \o CRLF
        BY DEF PartText, F, D
    <2>3. f1 \o CRLF = CRLF \o f2
        BY <1>1, <1>2, ConcatAssociative, SMTT(30)
    <2>4. G = f2 \o CRLF
        BY <1>3
    <2> HIDE DEF f1, f2
    <2>7. CRLF \in Seq(E) /\ f2 \in Seq(E)
        BY <1>1, <2>1
    <2>8. CRLF \in Seq(E) /\ G \in Seq(E) /\ D \in Seq(E)
        BY <1>1, <1>2, <1>3
    <2>5. (CRLF \o f2) \o CRLF = CRLF \o (f2 \o CRLF)
        BY <2>7, ConcatAssociative
    <2>6. (CRLF \o G) \o D = CRLF \o (G \o D)
        BY <2>8, ConcatAssociative, SMTT(30)
    <2> QED
        BY <2>2, <2>3, <2>4, <2>5, <2>6
<1> HIDE DEF m
<1>6. text \in Seq(E) /\ text[1] = "cr" /\ Len(text) >= 1
    <2> DEFINE c == CRLF \o m
    <2>1. /\ c \in Seq(E) /\ Len(c) = Len(CRLF) + Len(m)
          /\ \A i \in 1 .. Len(CRLF) + Len(m) : c[i] = IF i <= Len(CRLF) THEN CRLF[i] ELSE m[i - Len(CRLF)]
        <3>1. CRLF \in Seq(E) /\ m \in Seq(E)
            BY <1>1, <1>4
        <3> QED
            BY <3>1, ConcatProperties
    <2>2. CRLF[1] = "cr"
        BY DEF CRLF
    <2> HIDE DEF c
    <2>3. Len(m) \in Nat
        BY <1>2, <1>4
    <2>4. c[1] = "cr" /\ Len(c) \in Nat /\ 1 <= Len(c)
        BY <1>1, <2>1, <2>2, <2>3
    <2> DEFINE z == c \o CRLF
    <2>5. /\ z \in Seq(E) /\ Len(z) = Len(c) + Len(CRLF)
          /\ \A i \in 1 .. Len(c) + Len(CRLF) : z[i] = IF i <= Len(c) THEN c[i] ELSE CRLF[i - Len(c)]
        <3>1. c \in Seq(E) /\ CRLF \in Seq(E)
            BY <1>1, <2>1
        <3> QED
            BY <3>1, ConcatProperties
    <2> HIDE DEF z
    <2>6. z[1] = "cr" /\ Len(z) >= 1
        BY <1>1, <2>4, <2>5
    <2> QED
        BY <2>5, <2>6 DEF z, c
<1>7. WithoutLastLineEnd(WithoutFirstLineEnd(text)) = m
    BY <1>4, LineEndsOff
<1> HIDE DEF text
<1>8. ~IsPrefix(<<"dash">>, text)
    <2> DEFINE d == <<"dash">>
               X == E \cup {"dash"}
    <2>1. d \in Seq(X) /\ d[1] = "dash" /\ Len(d) = 1
        OBVIOUS
    <2>5. text \in Seq(X)
        BY <1>6, SeqMonotonic
    <2> HIDE DEF d, X
    <2>6. d \in Seq(X) /\ text \in Seq(X)
        BY <2>1, <2>5
    <2>2. IsPrefix(d, text) => \A i \in 1 .. Len(d) : d[i] = text[i]
        BY <2>6, PrefixAgrees
    <2>3. 1 \in 1 .. Len(d)
        BY <2>1
    <2>4. ~IsPrefix(d, text)
        BY <1>6, <2>1, <2>2, <2>3
    <2> QED
        BY <2>4 DEF d
<1> DEFINE h == Find(m, CRLF \o CRLF)
<1>9. h = Len(F) + 1
    <2>1. Find(G, sep) = Len(F) + 1
        BY <1>3 DEF IsPart, F, sep
    <2>2. Find(G, sep) # 0
        BY <1>2, <2>1
    <2>4. G \in Seq(E) /\ D \in Seq(E) /\ sep \in Seq(E)
        BY <1>1, <1>2, <1>3
    <2>3. Find(G \o D, sep) = Find(G, sep)
        BY <2>2, <2>4, FindPrefix
    <2> QED
        BY <2>1, <2>3 DEF m, sep
<1> HIDE DEF h
<1> DEFINE rest(i) == SubSeq(m, i, h - 1)
           named == {i \in 1 .. h - 1 : HasName(rest(i))}
           names == {FileName[f] : f \in ToSet(F) \cap DOMAIN FileName}
<1>17. \A i \in 1 .. Len(F) : rest(i) = SubSeq(F, i, Len(F)) /\ rest(i)[1] = F[i]
    <2> SUFFICES ASSUME NEW i \in 1 .. Len(F)
                 PROVE  rest(i) = SubSeq(F, i, Len(F)) /\ rest(i)[1] = F[i]
        OBVIOUS
    <2>1. h - 1 = Len(F) /\ Len(F) <= Len(m) /\ i \in Nat /\ Len(m) \in Nat
        BY <1>2, <1>4, <1>9
    <2> DEFINE u == SubSeq(m, i, Len(F))
               v == SubSeq(F, i, Len(F))
    <2>2. /\ u \in Seq(E) /\ Len(u) = Len(F) - i + 1
          /\ \A j \in 1 .. Len(F) - i + 1 : u[j] = m[i + j - 1]
        <3>1. \A j \in i .. Len(F) : m[j] \in E
            BY <1>2, <1>4, ElementOfSeq
        <3> QED
            BY <1>2, <3>1, SubSeqProperties
    <2>3. /\ v \in Seq(E) /\ Len(v) = Len(F) - i + 1
          /\ \A j \in 1 .. Len(F) - i + 1 : v[j] = F[i + j - 1]
        <3>1. \A j \in i .. Len(F) : F[j] \in E
            BY <1>2, ElementOfSeq
        <3> QED
            BY <1>2, <3>1, SubSeqProperties
    <2> HIDE DEF u, v
    <2>4. \A j \in 1 .. Len(F) - i + 1 : m[i + j - 1] = F[i + j - 1]
        <3>1. \A j \in 1 .. Len(F) - i + 1 : i + j - 1 \in 1 .. Len(F)
            BY <1>2
        <3> QED
            BY <1>4, <3>1
    <2>5. u = v
        <3>1. Len(u) = Len(v) /\ \A j \in 1 .. Len(u) : u[j] = v[j]
            BY <2>2, <2>3, <2>4
        <3> QED
            BY <2>2, <2>3, <3>1, SeqEqual
    <2>6. 1 \in 1 .. Len(F) - i + 1 /\ i + 1 - 1 = i
        BY <1>2
    <2>7. v[1] = F[i]
        BY <2>3, <2>6
    <2> QED
        BY <2>1, <2>5, <2>7 DEF u, v
<1> HIDE DEF rest
<1>18. \A i \in 1 .. Len(F) : SubSeq(F, i, Len(F)) \notin DOMAIN LooseName
    <2>1. DOMAIN F = 1 .. Len(F)
        BY <1>2, LenProperties
    <2> QED
        BY <2>1 DEF IsPart, F
<1>10. named = {i \in 1 .. Len(F) : F[i] \in DOMAIN FileName}
    <2>1. h - 1 = Len(F)
        BY <1>2, <1>9
    <2>2. \A i \in 1 .. Len(F) : HasName(rest(i)) <=> F[i] \in DOMAIN FileName
        BY <1>17, <1>18 DEF HasName
    <2> QED
        BY <2>1, <2>2
<1>11. names = IF p.name = <<>> THEN {} ELSE {p.name}
    BY DEF IsPart, F
<1>12. ToSet(F) = {F[i] : i \in 1 .. Len(F)}
    <2>1. DOMAIN F = 1 .. Len(F)
        BY <1>2, LenProperties
    <2> QED
        BY <2>1 DEF ToSet
<1>13. PartFile(PartText(p)) =
         IF named = {} THEN [path |-> <<>>, data |-> <<>>]
         ELSE [path |-> SanitizeFilename(PartFilename(rest(Min(named)))),
               data |-> SubSeq(m, h + 4, Len(m))]
    <2>1. h # 0
        BY <1>2, <1>9
    <2> QED
        BY <1>5, <1>7, <1>8, <2>1 DEF PartFile, h, rest
<1>14. SubSeq(m, h + 4, Len(m)) = D
    <2> DEFINE none == <<>>
    <2>1. none \in Seq(E) /\ m \o none = m
        BY <1>4, ConcatEmptySeq, EmptySeq
    <2> HIDE DEF none
    <2>2. SubSeq((G \o D) \o none, Len(G) + 1, Len(G) + Len(D)) = D
        BY <1>2, <1>3, <2>1, Middle, SMTT(30)
    <2>3. Len(G) + 1 = h + 4 /\ Len(G) + Len(D) = Len(m)
        BY <1>2, <1>3, <1>4, <1>9
    <2> QED
        BY <2>1, <2>2, <2>3 DEF m
<1>15. CASE named = {}
    <2>1. ASSUME NEW f \in ToSet(F), f \in DOMAIN FileName PROVE FALSE
        <3>1. PICK i \in 1 .. Len(F) : f = F[i]
            BY <1>12, <2>1
        <3>2. i \in named
            BY <1>10, <2>1, <3>1
        <3> QED
            BY <1>15, <3>2
    <2>2. names = {}
        BY <2>1
    <2> HIDE DEF names
    <2>3. p.name = <<>>
        BY <1>11, <2>2
    <2>4. p.name \in Seq(STRING)
        BY <2>3, EmptySeq
    <2> QED
        BY <1>5, <1>6, <1>13, <1>15, <2>3, <2>4
<1>16. CASE named # {}
    <2> DEFINE i == Min(named)
    <2>1. named \in SUBSET Nat
        BY <1>2, <1>10
    <2> HIDE DEF named
    <2>2. i \in named
        BY <1>16, <2>1, MinIsIn
    <2> HIDE DEF i
    <2>3. i \in 1 .. Len(F) /\ F[i] \in DOMAIN FileName
        BY <1>10, <2>2
    <2>7. PartFilename(rest(i)) = FileName[F[i]]
        BY <1>17, <2>3 DEF PartFilename
    <2>4. FileName[F[i]] \in names
        BY <1>12, <2>3
    <2> HIDE DEF names
    <2>5. p.name # <<>> /\ FileName[F[i]] = p.name
        BY <1>11, <2>4
    <2>6. p.name \in Seq(STRING)
        BY <2>3, <2>5, RouterAssumption
    <2> QED
        BY <1>5, <1>6, <1>13, <1>14, <1>16, <2>3, <2>5, <2>6, <2>7 DEF i, D
<1> QED
    BY <1>15, <1>16

(* A part adds to the files that are written what it adds to those that    *)
(* are wanted.                                                             *)
LEMMA CollectTakes ==
    ASSUME NEW E, {"cr", "lf"} \subseteq E, NEW p, IsPart(p),
           p.fields \in Seq(E), p.data \in Seq(E), NEW root \in Seq(STRING), NEW files
    PROVE  Collect(files, PartFile(PartText(p)), root) = Take(files, p, root)
<1> DEFINE file == PartFile(PartText(p))
           last == Last(p.name)
<1>1. /\ p.name \in Seq(STRING)
      /\ file = IF p.name = <<>> THEN [path |-> <<>>, data |-> <<>>]
                ELSE [path |-> SanitizeFilename(p.name), data |-> p.data]
    BY PartFileExact
<1> HIDE DEF file
<1>2. CASE p.name = <<>>
    <2>1. file.path = <<>>
        BY <1>1, <1>2
    <2> QED
        BY <1>2, <2>1 DEF Collect, Take, file
<1>3. CASE p.name # <<>> /\ last \in {"", ".", ".."}
    <2>1. SanitizeFilename(p.name) = <<>>
        BY <1>3 DEF SanitizeFilename
    <2>2. file.path = <<>>
        BY <1>1, <1>3, <2>1
    <2> QED
        BY <1>3, <2>2 DEF Collect, Take, file
<1>4. CASE p.name # <<>> /\ last \notin {"", ".", ".."}
    <2>1. SanitizeFilename(p.name) = <<last>>
        BY <1>4 DEF SanitizeFilename
    <2>2. last \in STRING
        <3>1. Len(p.name) \in 1 .. Len(p.name)
            <4>1. Len(p.name) \in Nat \ {0}
                BY <1>1, <1>4, EmptySeq
            <4> QED
                BY <4>1
        <3> QED
            BY <1>1, <3>1, ElementOfSeq DEF Last
    <2> HIDE DEF last
    <2>3. file.path = <<last>> /\ file.data = p.data /\ <<last>> # <<>>
        BY <1>1, <1>4, <2>1
    <2>4. root \o <<last>> = Append(root, last)
        BY <2>2, AppendIsConcat
    <2>5. Collect(files, file, root) = Append(files, [path |-> Append(root, last), data |-> p.data])
        BY <2>3, <2>4 DEF Collect
    <2> QED
        BY <1>4, <2>5 DEF Take, last, file
<1> QED
    BY <1>2, <1>3, <1>4

(* What save_multipart finds in a body that a client has made of parts is  *)
(* what the client has put into it: the files, their names and contents,   *)
(* in their order, for any number of parts and any content that the        *)
(* boundary does not occur in.                                             *)
THEOREM UploadUnderstood ==
    ASSUME NEW parts, IsSeq(parts), \A k \in DOMAIN parts : IsPart(parts[k]),
           NEW root \in Seq(STRING)
    PROVE  PartFiles(Encode(parts), root) = Wanted(parts, root)
<1> DEFINE P == ToSet(parts)
           Used(p) == ToSet(p.fields) \cup ToSet(p.data)
           U == UNION {Used(p) : p \in P}
           E == U \cup {"cr", "lf", "delim", "dash"}
           W == E \ {"delim"}
<1>1. parts \in Seq(P) /\ \A p \in P : IsPart(p)
    BY DEF IsSeq, ToSet
<1>2. ASSUME NEW p \in P
      PROVE  p.fields \in Seq(W) /\ p.data \in Seq(W)
    <2>1. /\ p.fields \in Seq(ToSet(p.fields)) /\ p.data \in Seq(ToSet(p.data))
          /\ "delim" \notin ToSet(p.fields) \cup ToSet(p.data)
        BY <1>1 DEF IsPart, IsSeq
    <2> HIDE DEF U
    <2>2. Used(p) \subseteq E
        <3> HIDE DEF Used
        <3>1. Used(p) \subseteq U
            BY DEF U
        <3> QED
            BY <3>1
    <2> HIDE DEF E
    <2>3. ToSet(p.fields) \subseteq W /\ ToSet(p.data) \subseteq W
        BY <2>1, <2>2
    <2> HIDE DEF W
    <2> QED
        BY <2>1, <2>3, SeqMonotonic
<1> HIDE DEF U
<1>3. /\ {"cr", "lf"} \subseteq W /\ "delim" \in E /\ "dash" \in E /\ W \subseteq E
    OBVIOUS
<1> HIDE DEF P, E
<1>4. WordsIn(P, E)
    <2> SUFFICES ASSUME NEW p \in P PROVE PartText(p) \in Seq(W)
        BY DEF WordsIn
    <2>1. IsPart(p) /\ p.fields \in Seq(W) /\ p.data \in Seq(W)
        BY <1>1, <1>2
    <2> HIDE DEF W
    <2> QED
        BY <1>3, <2>1, PartFileExact
<1> HIDE DEF W
<1>5. TextsIn(P, E)
    <2>1. ASSUME NEW p \in P PROVE PartText(p) \in Seq(E)
        <3>1. PartText(p) \in Seq(W)
            BY <1>4 DEF WordsIn, W
        <3> QED
            BY <1>3, <3>1, SeqMonotonic
    <2> QED
        BY <1>3, <2>1 DEF TextsIn
<1> DEFINE Q == {s \in Seq(P) : Gathered(Texts(s), root) = Wanted(s, root)}
<1>6. <<>> \in Q
    <2>1. Texts(<<>>) = <<>>
        BY DEF Texts
    <2>2. Gathered(<<>>, root) = <<>> /\ Wanted(<<>>, root) = <<>>
        BY GatheredLaws, WantedLaws
    <2>3. <<>> \in Seq(P)
        BY EmptySeq
    <2> QED
        BY <2>1, <2>2, <2>3
<1>7. ASSUME NEW s \in Seq(P), NEW p \in P, s \in Q
      PROVE  Append(s, p) \in Q
    <2>1. Append(s, p) \in Seq(P)
        BY AppendProperties
    <2>2. /\ Texts(s) \in Seq(Seq(E))
          /\ Texts(Append(s, p)) = Append(Texts(s), PartText(p))
        BY <1>4, TextsAppend
    <2>3. PartText(p) \in Seq(E)
        BY <1>5 DEF TextsIn
    <2>4. Gathered(Append(Texts(s), PartText(p)), root)
            = Collect(Gathered(Texts(s), root), PartFile(PartText(p)), root)
        BY <2>2, <2>3, GatheredLaws
    <2>5. Wanted(Append(s, p), root) = Take(Wanted(s, root), p, root)
        BY WantedLaws
    <2>6. Gathered(Texts(s), root) = Wanted(s, root)
        BY <1>7
    <2>7. IsPart(p) /\ p.fields \in Seq(W) /\ p.data \in Seq(W)
        BY <1>1, <1>2
    <2>8. Collect(Wanted(s, root), PartFile(PartText(p)), root) = Take(Wanted(s, root), p, root)
        BY <1>3, <2>7, CollectTakes
    <2> QED
        BY <2>1, <2>2, <2>4, <2>5, <2>6, <2>8
<1> HIDE DEF Q
<1>8. \A s \in Seq(P) : s \in Q
    BY <1>6, <1>7, SequenceInduction
<1>9. Segments(Encode(parts)) = Texts(parts)
    BY <1>1, <1>3, <1>4, <1>5, SegmentsEncoded
<1>10. Gathered(Texts(parts), root) = Wanted(parts, root)
    BY <1>1, <1>8 DEF Q
<1> QED
    BY <1>9, <1>10 DEF PartFiles, Gathered

-----------------------------------------------------------------------------
(***************************************************************************)
(* Parents.                                                                *)
(***************************************************************************)

(* The parent of a path: one segment shorter.                              *)
LEMMA FrontExact ==
    ASSUME NEW p, Straight(p), p # <<>>
    PROVE  /\ Straight(Front(p)) /\ IsPrefix(Front(p), p)
           /\ Len(p) \in Nat \ {0} /\ Len(Front(p)) = Len(p) - 1
           /\ \A i \in 1 .. Len(p) - 1 : Front(p)[i] = p[i]
<1>1. p \in Seq(STRING) /\ Len(p) \in Nat \ {0} /\ DOMAIN p = 1 .. Len(p)
      /\ \A i \in 1 .. Len(p) : p[i] \in STRING /\ p[i] # ".."
    <2>1. p \in Seq(STRING) /\ \A i \in DOMAIN p : p[i] # ".."
        BY DEF Straight, ToSet
    <2> QED
        BY <2>1, LenProperties, ElementOfSeq, EmptySeq
<1> DEFINE f == Front(p)
<1>2. /\ f \in Seq(STRING)
      /\ Len(f) = IF 1 <= Len(p) - 1 THEN Len(p) - 1 - 1 + 1 ELSE 0
      /\ \A i \in 1 .. Len(p) - 1 - 1 + 1 : f[i] = p[1 + i - 1]
    <2>1. \A i \in 1 .. Len(p) - 1 : p[i] \in STRING
        BY <1>1
    <2> QED
        BY <1>1, <2>1, SubSeqProperties DEF Front
<1> HIDE DEF f
<1>3. Len(f) = Len(p) - 1 /\ \A i \in 1 .. Len(p) - 1 : f[i] = p[i]
    <2>1. Len(p) \in Nat \ {0}
        BY <1>1
    <2>2. Len(f) = Len(p) - 1
        <3>1. Len(f) = IF 1 <= Len(p) - 1 THEN Len(p) - 1 - 1 + 1 ELSE 0
            BY <1>2
        <3> QED
            BY <2>1, <3>1
    <2>3. ASSUME NEW i \in 1 .. Len(p) - 1 PROVE f[i] = p[i]
        <3>1. i \in 1 .. Len(p) - 1 - 1 + 1 /\ 1 + i - 1 = i
            BY <2>1
        <3>2. f[i] = p[1 + i - 1]
            BY <1>2, <3>1
        <3> QED
            BY <3>1, <3>2
    <2> QED
        BY <2>2, <2>3
<1>4. DOMAIN f = 1 .. Len(f) /\ f \in Seq(STRING)
    BY <1>2, LenProperties
<1>5. Straight(f)
    <2>1. ASSUME NEW i \in DOMAIN f PROVE f[i] # ".."
        <3>1. i \in 1 .. Len(p) - 1 /\ i \in 1 .. Len(p)
            BY <1>1, <1>3, <1>4
        <3>2. f[i] = p[i] /\ p[i] # ".."
            BY <1>1, <1>3, <3>1
        <3> QED
            BY <3>2
    <2> QED
        BY <1>4, <2>1 DEF Straight, ToSet
<1>6. IsPrefix(f, p)
    <2>1. Len(f) <= Len(p) /\ \A i \in 1 .. Len(f) : f[i] = p[i]
        BY <1>1, <1>3
    <2> QED
        BY <1>1, <1>4, <2>1, PrefixAgrees
<1> QED
    BY <1>1, <1>3, <1>5, <1>6 DEF f

(* A path below a root has its parent in the root.                         *)
LEMMA ParentWithin ==
    ASSUME NEW root, Straight(root), NEW p, Below(root, p)
    PROVE  p # <<>> /\ Within(root, Front(p))
<1>0. Straight(p) /\ IsPrefix(root, p) /\ p # root
    BY DEF Below, Within
<1>1. /\ root \in Seq(STRING) /\ p \in Seq(STRING)
      /\ Len(root) \in Nat /\ Len(p) \in Nat
    BY <1>0, LenProperties DEF Straight
<1>2. Len(root) <= Len(p) /\ \A i \in 1 .. Len(root) : root[i] = p[i]
    BY <1>0, <1>1, PrefixAgrees
<1>3. Len(root) # Len(p)
    <2>1. SUFFICES ASSUME Len(root) = Len(p) PROVE FALSE
        OBVIOUS
    <2>2. root = p
        BY <1>1, <1>2, <2>1, SeqEqual
    <2> QED
        BY <1>0, <2>2
<1>4. p # <<>>
    BY <1>1, <1>2, <1>3, EmptySeq
<1>5. /\ Straight(Front(p)) /\ Front(p) \in Seq(STRING) /\ Len(Front(p)) = Len(p) - 1
      /\ \A i \in 1 .. Len(p) - 1 : Front(p)[i] = p[i]
    BY <1>0, <1>4, FrontExact DEF Straight
<1>6. Len(root) <= Len(p) - 1
    BY <1>1, <1>2, <1>3
<1>7. \A i \in 1 .. Len(root) : root[i] = Front(p)[i]
    BY <1>1, <1>2, <1>5, <1>6
<1> QED
    BY <1>1, <1>4, <1>5, <1>6, <1>7, PrefixAgrees DEF Within

-----------------------------------------------------------------------------
(***************************************************************************)
(* The route found.                                                        *)
(***************************************************************************)

(* The root of a route and what is left of the request's path.             *)
LEMMA RouteFound ==
    ASSUME req \in Requests, BestRoute(req.path) # 0
    PROVE  /\ BestRoute(req.path) \in DOMAIN Routes
           /\ RoutesTo(BestRoute(req.path), req.path)
           /\ R.root # {} => Root \in R.root /\ Straight(Root)
           /\ \A file \in R.index : Straight(file)
           /\ ~HasTraversal => Straight(Rel)
<1>1. req.path \in Seq(STRING)
    BY RouterAssumption
<1>2. BestRoute(req.path) \in DOMAIN Routes /\ RoutesTo(BestRoute(req.path), req.path)
    BY <1>1, BestRouteExact
<1>3. /\ R.path \in Seq(STRING)
      /\ \A path \in R.root \cup R.index : Straight(path)
    BY <1>2, RouterAssumption DEF R
<1>4. R.root # {} => Root \in R.root
    BY DEF Root
<1>5. Rel \in Seq(STRING)
    <2>1. IsPrefix(R.path, req.path)
        BY <1>2 DEF RoutesTo, R
    <2>2. Len(R.path) \in Nat /\ Len(req.path) \in Nat /\ Len(R.path) <= Len(req.path)
        BY <1>1, <1>3, <2>1, LenProperties DEF IsPrefix
    <2>3. Len(R.path) + 1 \in Nat \ {0} /\ Len(req.path) \in Int
        BY <2>2
    <2> QED
        BY <1>1, <2>2, <2>3, SubSeqTyped DEF Rel
<1>6. ~HasTraversal => Straight(Rel)
    BY <1>5 DEF HasTraversal, Straight
<1> QED
    BY <1>2, <1>3, <1>4, <1>6

(* A path without ".." in what a client sent stays in the root.            *)
LEMMA AskedWithin ==
    ASSUME Entitled, ~HasTraversal
    PROVE  /\ Within(Root, Root \o Rel)
           /\ Rel # <<>> => Below(Root, Root \o Rel)
<1>1. Straight(Root) /\ Straight(Rel)
    BY RouteFound DEF Entitled
<1> QED
    BY <1>1, JoinStraight DEF Within, Below

(* So does the default file of a directory in it.                          *)
LEMMA IndexWithin ==
    ASSUME Entitled, NEW path, Within(Root, path), NEW file \in R.index
    PROVE  Within(Root, path \o file)
<1>1. Straight(Root) /\ Straight(path) /\ Straight(file) /\ IsPrefix(Root, path)
    BY RouteFound DEF Entitled, Within
<1>2. Straight(path \o file) /\ IsPrefix(path, path \o file)
    BY <1>1, JoinStraight
<1>3. Root \in Seq(STRING) /\ path \in Seq(STRING) /\ path \o file \in Seq(STRING)
    BY <1>1, <1>2 DEF Straight
<1> QED
    BY <1>1, <1>2, <1>3, PrefixTransitive DEF Within

-----------------------------------------------------------------------------
(***************************************************************************)
(* The disk.                                                               *)
(***************************************************************************)

(* What is at a path that leads where it says.                             *)
LEMMA EntryOf ==
    ASSUME NEW p, Straight(p)
    PROVE  EntryAt(p) = IF p = <<>> THEN Dir ELSE IF p \in Paths THEN disk[p] ELSE Absent
BY ResolveStraight DEF EntryAt

(* The parent of a path that may exist may exist, and is another path.     *)
LEMMA ParentOf ==
    ASSUME NEW p \in Paths
    PROVE  /\ Straight(p) /\ p # <<>> /\ Straight(Front(p)) /\ Front(p) # p
           /\ Front(p) \in Paths \/ Front(p) = <<>>
           /\ EntryAt(Front(p)) = Dir <=> Front(p) = <<>> \/ disk[Front(p)] = Dir
<1>1. Straight(p) /\ p # <<>> /\ Front(p) \in Paths \cup {<<>>}
    BY RouterAssumption
<1>2. Straight(Front(p)) /\ Len(Front(p)) = Len(p) - 1 /\ Len(p) \in Nat
    BY <1>1, FrontExact
<1>3. Front(p) # p
    <2>1. Len(Front(p)) # Len(p)
        BY <1>2
    <2> QED
        BY <2>1
<1>4. EntryAt(Front(p)) = IF Front(p) = <<>> THEN Dir
                          ELSE IF Front(p) \in Paths THEN disk[Front(p)] ELSE Absent
    BY <1>2, EntryOf
<1> QED
    BY <1>1, <1>2, <1>3, <1>4

(* A path where no directory is can be given another entry, if there is a  *)
(* directory to hold it.                                                   *)
LEMMA DiskPut ==
    ASSUME DiskOK, NEW p \in Paths, NEW e, IsEntry(e), disk[p] # Dir,
           e # Absent => EntryAt(Front(p)) = Dir,
           disk' = [disk EXCEPT ![p] = e]
    PROVE  DiskOK'
<1>1. /\ disk = [q \in Paths |-> disk[q]]
      /\ \A q \in Paths : IsEntry(disk[q])
      /\ \A q \in Paths : disk[q] # Absent => Front(q) = <<>> \/ disk[Front(q)] = Dir
    BY DEF DiskOK
<1>2. disk' = [q \in Paths |-> disk'[q]] /\ disk'[p] = e /\ \A q \in Paths \ {p} : disk'[q] = disk[q]
    BY <1>1
<1>3. \A q \in Paths : IsEntry(disk'[q])
    BY <1>1, <1>2
<1>4. ASSUME NEW q \in Paths, disk'[q] # Absent
      PROVE  Front(q) = <<>> \/ disk'[Front(q)] = Dir
    <2>1. /\ Front(q) # q /\ (Front(q) \in Paths \/ Front(q) = <<>>)
          /\ EntryAt(Front(q)) = Dir <=> Front(q) = <<>> \/ disk[Front(q)] = Dir
        BY ParentOf
    <2>2. Front(q) = <<>> \/ disk[Front(q)] = Dir
        BY <1>1, <1>2, <1>4, <2>1
    <2>3. Front(q) = <<>> \/ Front(q) # p
        <3>1. CASE q = p
            BY <2>1, <3>1
        <3>2. CASE q # p
            BY <2>2
        <3> QED
            BY <3>1, <3>2
    <2> QED
        BY <1>2, <2>1, <2>2, <2>3
<1> QED
    BY <1>2, <1>3, <1>4 DEF DiskOK, IsEntry, File, Absent, Dir

(* Directories that are made from the top, with those above them.          *)
LEMMA DirsMade ==
    ASSUME DiskOK, NEW path, Straight(path), NEW made,
           made \subseteq {p \in Prefixes(path) : EntryAt(p) = Absent},
           \A p \in made, q \in Prefixes(path) :
              EntryAt(q) = Absent /\ Len(q) < Len(p) => q \in made,
           made # {} => \A p \in Prefixes(path) : EntryAt(p).kind # "file",
           disk' = [p \in Paths |-> IF p \in made THEN Dir ELSE disk[p]]
    PROVE  DiskOK'
<1>1. /\ disk = [q \in Paths |-> disk[q]]
      /\ \A q \in Paths : IsEntry(disk[q])
      /\ \A q \in Paths : disk[q] # Absent => Front(q) = <<>> \/ disk[Front(q)] = Dir
    BY DEF DiskOK
<1>2. /\ disk' = [q \in Paths |-> disk'[q]]
      /\ \A q \in Paths : disk'[q] = IF q \in made THEN Dir ELSE disk[q]
    OBVIOUS
<1>3. \A q \in Paths : IsEntry(disk'[q])
    BY <1>1, <1>2 DEF IsEntry
<1>4. ASSUME NEW q \in Paths, disk'[q] # Absent
      PROVE  Front(q) = <<>> \/ disk'[Front(q)] = Dir
    <2>1. /\ Straight(q) /\ q # <<>> /\ Straight(Front(q))
          /\ (Front(q) \in Paths \/ Front(q) = <<>>)
        BY ParentOf
    <2>2. CASE q \notin made
        BY <1>1, <1>2, <1>4, <2>1, <2>2
    <2>3. CASE q \in made /\ Front(q) # <<>>
        <3>1. Front(q) \in Prefixes(path) /\ Len(Front(q)) < Len(q)
            <4>1. PICK l \in 0 .. Len(path) : q = SubSeq(path, 1, l)
                BY <2>3 DEF Prefixes
            <4>2. /\ path \in Seq(STRING) /\ Len(path) \in Nat
                  /\ \A i \in 1 .. Len(path) : path[i] \in STRING
                BY LenProperties, ElementOfSeq DEF Straight
            <4>3. \A i \in 1 .. l : path[i] \in STRING
                BY <4>2
            <4>4. /\ q \in Seq(STRING)
                  /\ Len(q) = IF 1 <= l THEN l - 1 + 1 ELSE 0
                  /\ \A i \in 1 .. l - 1 + 1 : q[i] = path[1 + i - 1]
                BY <4>1, <4>2, <4>3, SubSeqProperties
            <4>5. Len(q) = IF 1 <= l THEN l - 1 + 1 ELSE 0
                BY <4>4
            <4>6. Len(q) = l
                BY <4>1, <4>2, <4>5
            <4>7. /\ Len(q) \in Nat \ {0} /\ Len(Front(q)) = Len(q) - 1
                  /\ \A i \in 1 .. Len(q) - 1 : Front(q)[i] = q[i]
                BY <2>1, FrontExact
            <4>8. l - 1 \in 0 .. Len(path) /\ l - 1 \in 0 .. l
                BY <4>1, <4>2, <4>6, <4>7
            <4> DEFINE f == SubSeq(path, 1, l - 1)
            <4>9. /\ f \in Seq(STRING)
                  /\ Len(f) = IF 1 <= l - 1 THEN l - 1 - 1 + 1 ELSE 0
                  /\ \A i \in 1 .. l - 1 - 1 + 1 : f[i] = path[1 + i - 1]
                <5>1. l - 1 \in Int /\ \A i \in 1 .. l - 1 : path[i] \in STRING
                    BY <4>1, <4>2, <4>3
                <5> QED
                    BY <5>1, SubSeqProperties
            <4>10. Len(f) = IF 1 <= l - 1 THEN l - 1 - 1 + 1 ELSE 0
                BY <4>9
            <4>11. Len(f) = l - 1
                BY <4>8, <4>10
            <4> HIDE DEF f
            <4>12. ASSUME NEW i \in 1 .. l - 1 PROVE f[i] = Front(q)[i]
                <5>1. l \in Nat /\ i \in 1 .. l - 1 - 1 + 1 /\ i \in 1 .. l - 1 + 1 /\ 1 + i - 1 = i
                    BY <4>1, <4>2
                <5>2. f[i] = path[1 + i - 1] /\ q[i] = path[1 + i - 1]
                    BY <4>4, <4>9, <5>1
                <5>3. Front(q)[i] = q[i]
                    BY <4>6, <4>7
                <5> QED
                    BY <5>2, <5>3
            <4>13. Front(q) = f
                <5>1. Front(q) \in Seq(STRING) /\ Len(Front(q)) = l - 1
                    BY <2>1, <4>6, <4>7 DEF Straight
                <5> QED
                    BY <4>9, <4>11, <4>12, <5>1, SeqEqual
            <4>14. Len(Front(q)) < Len(q)
                BY <4>7
            <4> QED
                BY <4>8, <4>13, <4>14 DEF Prefixes, f
        <3>2. EntryAt(Front(q)).kind # "file"
            BY <2>3, <3>1
        <3>3. EntryAt(Front(q)) = disk[Front(q)] /\ Front(q) \in Paths
            BY <2>1, <2>3, EntryOf
        <3>4. disk[Front(q)] = Absent \/ disk[Front(q)] = Dir
            BY <1>1, <3>2, <3>3 DEF IsEntry, File
        <3>5. disk[Front(q)] = Absent => Front(q) \in made
            BY <2>3, <3>1, <3>3
        <3> QED
            BY <1>2, <3>3, <3>4, <3>5
    <2> QED
        BY <2>2, <2>3
<1> QED
    BY <1>2, <1>3, <1>4 DEF DiskOK, IsEntry, File, Absent, Dir

(* What others do takes with it what was below.                            *)
LEMMA MeddleKeepsDisk ==
    ASSUME DiskOK, Meddle
    PROVE  DiskOK'
<1>1. /\ disk = [q \in Paths |-> disk[q]]
      /\ \A q \in Paths : IsEntry(disk[q])
      /\ \A q \in Paths : disk[q] # Absent => Front(q) = <<>> \/ disk[Front(q)] = Dir
    BY DEF DiskOK
<1>2. PICK o \in Others :
         /\ EntryAt(Front(o.path)) = Dir
         /\ disk' = [p \in Paths |-> IF p = o.path THEN o.entry
                                     ELSE IF IsPrefix(o.path, p) THEN Absent ELSE disk[p]]
    BY DEF Meddle
<1>3. o.path \in Paths /\ IsEntry(o.entry)
    BY RouterAssumption
<1>4. /\ disk' = [q \in Paths |-> disk'[q]]
      /\ \A q \in Paths : disk'[q] = IF q = o.path THEN o.entry
                                     ELSE IF IsPrefix(o.path, q) THEN Absent ELSE disk[q]
    BY <1>2
<1>5. \A q \in Paths : IsEntry(disk'[q])
    BY <1>1, <1>3, <1>4 DEF IsEntry
<1>6. \A q \in Paths : Len(q) \in Nat /\ q \in Seq(STRING)
    BY ParentOf, LenProperties DEF Straight
<1>7. ASSUME NEW q \in Paths, disk'[q] # Absent
      PROVE  Front(q) = <<>> \/ disk'[Front(q)] = Dir
    <2>1. /\ Straight(q) /\ q # <<>> /\ (Front(q) \in Paths \/ Front(q) = <<>>)
          /\ EntryAt(Front(q)) = Dir <=> Front(q) = <<>> \/ disk[Front(q)] = Dir
        BY ParentOf
    <2>2. Straight(Front(q)) /\ IsPrefix(Front(q), q) /\ Len(Front(q)) < Len(q)
        BY <1>6, <2>1, FrontExact
    <2>3. Front(q) = <<>> \/ disk[Front(q)] = Dir
        BY <1>1, <1>2, <1>4, <1>7, <2>1
    <2>4. CASE q = o.path
        <3>1. ~IsPrefix(o.path, Front(q)) /\ o.path # Front(q)
            BY <1>6, <2>2, <2>4 DEF IsPrefix
        <3> QED
            BY <1>4, <2>1, <2>3, <3>1
    <2>5. CASE q # o.path
        <3>1. ~IsPrefix(o.path, q)
            BY <1>4, <1>7, <2>5
        <3>2. o.path \in Seq(STRING) /\ q \in Seq(STRING) /\ Front(q) \in Seq(STRING)
            BY <1>3, <1>6, <2>2 DEF Straight
        <3>3. ~IsPrefix(o.path, Front(q))
            BY <2>2, <3>1, <3>2, PrefixTransitive
        <3>4. o.path # Front(q)
            BY <2>2, <3>1
        <3> QED
            BY <1>4, <2>1, <2>3, <3>3, <3>4
    <2> QED
        BY <2>4, <2>5
<1> QED
    BY <1>4, <1>5, <1>7 DEF DiskOK, IsEntry, File, Absent, Dir

-----------------------------------------------------------------------------
(***************************************************************************)
(* The steps of a request.                                                 *)
(***************************************************************************)

(* As long as the request is the same, so is its route.                    *)
LEMMA SameRoute ==
    ASSUME req' = req
    PROVE  Entitled' = Entitled /\ Root' = Root /\ R' = R
BY DEF Entitled, Root, R

(* What leaves files alone leaves what is said of them.                    *)
LEMMA UntouchedHolds ==
    ASSUME RInv, req' = req, Untouched
    PROVE  ActsOK' /\ DiskOK'
<1>1. ActsOK'
    BY SameRoute DEF RInv, ActsOK, Inside, Untouched
<1>2. DiskOK'
    BY DEF RInv, DiskOK, Untouched, IsEntry, File, Absent, Dir
<1> QED
    BY <1>1, <1>2

(* An entry of the history about a path in the root.                       *)
LEMMA NoteHolds ==
    ASSUME RInv, req' = req, Entitled, NEW op, NEW path, NEW entry, Within(Root, path),
           op \in {"write", "torn", "remove"} => path # Root,
           Note(op, path, entry)
    PROVE  ActsOK'
<1> DEFINE a == [op |-> op, path |-> path, entry |-> entry]
           S == ToSet(acts) \cup {a}
<1>1. acts' = Append(acts, a)
    BY ResolveStraight DEF Note, Within
<1>2. acts \in Seq(ToSet(acts)) /\ \A k \in DOMAIN acts : Inside(acts[k])
    BY DEF RInv, ActsOK, IsSeq
<1>3. acts \in Seq(S)
    BY <1>2, SeqMonotonic
<1>4. acts' \in Seq(S)
    BY <1>1, <1>3, AppendProperties
<1>5. IsSeq(acts)' /\ \A k \in DOMAIN acts' : acts'[k] \in S
    BY <1>4, SequenceOf DEF IsSeq
<1>6. \A b \in ToSet(acts) : Inside(b)
    BY <1>2 DEF ToSet
<1>7. Inside(a)
    BY DEF Inside, Within
<1>8. \A b \in S : Inside(b)
    BY <1>6, <1>7
<1> HIDE DEF S
<1>9. \A k \in DOMAIN acts' : Inside(acts'[k])
    BY <1>5, <1>8
<1> QED
    BY <1>5, <1>9, SameRoute DEF ActsOK, Inside

(* A request that has been answered names no path any more.                *)
LEMMA AnswerHolds ==
    ASSUME RInv, req' = req, pc # "idle", pc' = "answered", ActsOK', DiskOK'
    PROVE  RInv'
<1>1. TargetOK'
    BY DEF TargetOK, AboutTarget
<1> QED
    BY <1>1 DEF RInv, Places

(* What an answer says of itself.                                          *)
LEMMA AnswerIs ==
    /\ \A status : Reply(status) => pc' = "answered" /\ req' = req
    /\ \A status, body : Answer(status, body) => pc' = "answered" /\ req' = req
    /\ \A next : Call(next) => pc' = next /\ req' = req
BY DEF Reply, Answer, Call

(* A request is routed: what it names from then on is in the root of a     *)
(* route that allows it.                                                   *)
LEMMA RoutedHolds ==
    ASSUME RInv,
           NoRoute \/ Redirect \/ NotAllowed \/ TryCgi \/ Unservable \/ ServeGet
           \/ HandlePost \/ HandleDelete
    PROVE  RInv'
<1>1. pc = "route" /\ Untouched /\ req \in Requests
    BY DEF RInv, NoRoute, Redirect, NotAllowed, TryCgi, Unservable, ServeGet, HandlePost,
           HandleDelete, Found, Admitted, Static, Servable
<1>2. ASSUME NEW status, Reply(status) PROVE RInv'
    <2>1. pc' = "answered" /\ req' = req
        BY <1>2, AnswerIs
    <2>2. ActsOK' /\ DiskOK'
        BY <1>1, <2>1, UntouchedHolds
    <2> QED
        BY <1>1, <2>1, <2>2, AnswerHolds
<1>3. Admitted /\ R.root # {} => Entitled
    BY <1>1 DEF Admitted, Found, Entitled
<1>4. Servable => Entitled /\ ~HasTraversal /\ Admitted
    BY <1>3 DEF Servable, Static
<1>5. ASSUME NEW next, Call(next), TargetOK', next \in Places \ {"idle"} PROVE RInv'
    <2>1. pc' = next /\ req' = req
        BY <1>5, AnswerIs
    <2>2. ActsOK' /\ DiskOK'
        BY <1>1, <2>1, UntouchedHolds
    <2> QED
        BY <1>1, <1>5, <2>1, <2>2 DEF RInv
<1>6. CASE NoRoute \/ Redirect \/ NotAllowed \/ Unservable
    <2>1. \E status : Reply(status)
        BY <1>6, Zenon DEF NoRoute, Redirect, NotAllowed, Unservable
    <2> QED
        BY <1>2, <2>1
<1>7. CASE TryCgi
    <2>1. CASE Reply(403)
        BY <1>2, <2>1
    <2>2. CASE IsScript /\ ~HasTraversal /\ target' = Root \o Rel /\ Call("canonicalize")
        <3>1. Entitled
            BY <1>3, <1>7, <2>2 DEF TryCgi, IsScript, ScriptRoute
        <3>2. pc' = "canonicalize" /\ req' = req
            BY <2>2, AnswerIs
        <3>3. Within(Root, target')
            BY <2>2, <3>1, AskedWithin
        <3>4. TargetOK'
            BY <3>1, <3>2, <3>3, SameRoute DEF TargetOK
        <3> QED
            BY <1>5, <2>2, <3>4 DEF Places, AboutTarget
    <2> QED
        BY <1>7, <2>1, <2>2 DEF TryCgi
<1>8. CASE ServeGet
    <2>1. /\ Servable /\ req.method = "GET" /\ target' = Root \o Rel /\ Call("metadata")
          /\ pc' = "metadata" /\ req' = req
        BY <1>8, AnswerIs DEF ServeGet
    <2>2. Entitled /\ Within(Root, target')
        BY <1>4, <2>1, AskedWithin
    <2>3. TargetOK'
        BY <2>1, <2>2, SameRoute DEF TargetOK
    <2> QED
        BY <1>5, <2>1, <2>3 DEF Places, AboutTarget
<1>9. CASE HandleDelete
    <2>1. /\ Servable /\ target' = Root \o Rel
          /\ Reply(403) \/ (Rel # <<>> /\ Call("metadata"))
        BY <1>9, Zenon DEF HandleDelete
    <2>2. CASE Reply(403)
        BY <1>2, <2>2
    <2>3. CASE Rel # <<>> /\ Call("metadata")
        <3>1. pc' = "metadata" /\ req' = req
            BY <2>3, AnswerIs
        <3>2. Entitled /\ Below(Root, target') /\ Within(Root, target')
            BY <1>4, <2>1, <2>3, AskedWithin
        <3>3. TargetOK'
            BY <3>1, <3>2, SameRoute DEF TargetOK
        <3> QED
            BY <1>5, <2>3, <3>3 DEF Places, AboutTarget
    <2> QED
        BY <2>1, <2>2, <2>3
<1>10. CASE HandlePost
    <2>1. Servable /\ Entitled /\ ~HasTraversal /\ Straight(Root)
        BY <1>4, <1>10, RouteFound DEF HandlePost, Entitled
    <2>2. CASE req.multipart
        <3>1. /\ todo' = PartFiles(req.body, Root)
              /\ Reply(400) \/ (todo' # <<>> /\ Call("write"))
            BY <1>10, <2>2, Zenon DEF HandlePost
        <3>2. CASE Reply(400)
            BY <1>2, <3>2
        <3>3. CASE todo' # <<>> /\ Call("write")
            <4>1. pc' = "write" /\ req' = req
                BY <3>3, AnswerIs
            <4>2. req.body \in Seq(ToSet(req.body))
                BY <1>1, RouterAssumption DEF IsSeq
            <4>3. IsSeq(todo') /\ \A k \in DOMAIN todo' : Below(Root, todo'[k].path)
                BY <2>1, <3>1, <4>2, PartFilesBelow
            <4>4. TargetOK'
                BY <2>1, <3>3, <4>1, <4>3, SameRoute DEF TargetOK, AboutTarget, IsSeq
            <4> QED
                BY <1>5, <3>3, <4>4 DEF Places
        <3> QED
            BY <3>1, <3>2, <3>3
    <2>3. CASE ~req.multipart
        <3>1. /\ target' = Root \o Rel
              /\ todo' = <<[path |-> target', data |-> req.body]>>
              /\ Reply(400) \/ (Rel # <<>> /\ Call("create_dir_all"))
            BY <1>10, <2>3, Zenon DEF HandlePost
        <3>2. CASE Reply(400)
            BY <1>2, <3>2
        <3>3. CASE Rel # <<>> /\ Call("create_dir_all")
            <4>1. pc' = "create_dir_all" /\ req' = req
                BY <3>3, AnswerIs
            <4>2. Below(Root, target') /\ Within(Root, target')
                BY <2>1, <3>1, <3>3, AskedWithin
            <4> DEFINE file == [path |-> target', data |-> req.body]
            <4>3. todo' \in Seq({file}) /\ todo' # <<>>
                BY <3>1
            <4>4. IsSeq(todo') /\ \A k \in DOMAIN todo' : todo'[k] \in {file}
                BY <4>3, SequenceOf
            <4>5. \A k \in DOMAIN todo' : Below(Root, todo'[k].path)
                BY <4>2, <4>4
            <4>6. TargetOK'
                BY <2>1, <4>1, <4>2, <4>3, <4>4, <4>5, SameRoute DEF TargetOK, AboutTarget, IsSeq
            <4> QED
                BY <1>5, <3>3, <4>6 DEF Places, AboutTarget
        <3> QED
            BY <3>1, <3>2, <3>3
    <2> QED
        BY <2>2, <2>3
<1> QED
    BY <1>6, <1>7, <1>8, <1>9, <1>10

(* The calls that only look.                                               *)
LEMMA LookedHolds ==
    ASSUME RInv, GetMetadata \/ GetIndex \/ Canonicalize \/ DeleteMetadata
    PROVE  RInv'
<1>1. /\ pc \in {"metadata", "index", "canonicalize"} /\ Untouched /\ req \in Requests
      /\ pc \in AboutTarget
    BY DEF RInv, GetMetadata, GetIndex, Canonicalize, DeleteMetadata, AboutTarget
<1>2. Entitled /\ Within(Root, target)
    BY <1>1 DEF RInv, TargetOK
<1>3. ASSUME NEW status, Reply(status) PROVE RInv'
    <2>1. pc' = "answered" /\ req' = req
        BY <1>3, AnswerIs
    <2>2. ActsOK' /\ DiskOK'
        BY <1>1, <2>1, UntouchedHolds
    <2> QED
        BY <1>1, <2>1, <2>2, AnswerHolds
<1>4. ASSUME NEW next, Call(next), Within(Root, target'),
             next \in {"read", "read_dir", "index", "execute", "remove_file"},
             next = "remove_file" => Below(Root, target'),
             next = "index" => R.index # {}
      PROVE  RInv'
    <2>1. pc' = next /\ req' = req
        BY <1>4, AnswerIs
    <2>2. ActsOK' /\ DiskOK'
        BY <1>1, <2>1, UntouchedHolds
    <2>3. TargetOK'
        BY <1>2, <1>4, <2>1, SameRoute DEF TargetOK
    <2>4. next \in Places
        BY <1>4 DEF Places, AboutTarget
    <2> QED
        BY <1>1, <1>4, <2>1, <2>2, <2>3, <2>4 DEF RInv
<1>5. CASE GetMetadata
    <2>1. target' = target
        BY <1>5 DEF GetMetadata
    <2>2. \/ \E status : Reply(status)
          \/ Call("read") \/ Call("read_dir")
          \/ R.index # {} /\ Call("index")
        BY <1>5, Zenon DEF GetMetadata, ListOrRefuse
    <2> QED
        BY <1>2, <1>3, <1>4, <2>1, <2>2
<1>6. CASE GetIndex
    <2> DEFINE index == CHOOSE f \in R.index : TRUE
    <2>1. R.index # {}
        BY <1>6 DEF GetIndex, RInv, TargetOK
    <2>2. index \in R.index
        BY <2>1
    <2>3. \/ target' = target \o index /\ Call("read")
          \/ target' = target /\ (Call("read_dir") \/ Reply(403))
        BY <1>6, Zenon DEF GetIndex, ListOrRefuse
    <2> HIDE DEF index
    <2>4. Within(Root, target \o index)
        BY <1>2, <2>2, IndexWithin
    <2> QED
        BY <1>2, <1>3, <1>4, <2>3, <2>4
<1>7. CASE Canonicalize
    <2>1. target' = target /\ (Call("execute") \/ Reply(404))
        BY <1>7, Zenon DEF Canonicalize
    <2> QED
        BY <1>2, <1>3, <1>4, <2>1
<1>8. CASE DeleteMetadata
    <2>1. target' = target /\ (Call("remove_file") \/ \E status : Reply(status))
        BY <1>8, Zenon DEF DeleteMetadata
    <2>2. Below(Root, target)
        BY <1>8 DEF DeleteMetadata, RInv, TargetOK
    <2> QED
        BY <1>2, <1>3, <1>4, <2>1, <2>2
<1> QED
    BY <1>5, <1>6, <1>7, <1>8

(* The calls that read, list or run.                                       *)
LEMMA ReadHolds ==
    ASSUME RInv, ServeFile \/ AutoIndex \/ Execute
    PROVE  RInv'
<1>1. /\ pc \in AboutTarget /\ disk' = disk /\ req' = req /\ pc' = "answered"
      /\ acts' = acts \/ \E op \in {"read", "list", "run"} : \E entry : Note(op, target, entry)
    <2>1. CASE ServeFile
        BY <2>1, AnswerIs DEF ServeFile, AboutTarget
    <2>2. CASE AutoIndex
        BY <2>2, AnswerIs DEF AutoIndex, AboutTarget
    <2>3. CASE Execute
        BY <2>3, AnswerIs DEF Execute, AboutTarget
    <2> QED
        BY <2>1, <2>2, <2>3
<1>2. Entitled /\ Within(Root, target) /\ pc # "idle"
    BY <1>1 DEF RInv, TargetOK, AboutTarget
<1>3. DiskOK'
    BY <1>1 DEF RInv, DiskOK, IsEntry, File, Absent, Dir
<1>4. ActsOK'
    <2>1. CASE acts' = acts
        BY <1>1, <2>1, UntouchedHolds DEF Untouched
    <2>2. ASSUME NEW op \in {"read", "list", "run"}, NEW entry, Note(op, target, entry)
          PROVE  ActsOK'
        BY <1>1, <1>2, <2>2, NoteHolds
    <2> QED
        BY <1>1, <2>1, <2>2
<1> QED
    BY <1>1, <1>2, <1>3, <1>4, AnswerHolds

(* create_dir_all of the parent.                                           *)
LEMMA CreateDirsHolds ==
    ASSUME RInv, CreateDirs
    PROVE  RInv'
<1> DEFINE parent == Front(target)
           missing == {p \in Prefixes(parent) : EntryAt(p) = Absent}
           blocked == \E p \in Prefixes(parent) : EntryAt(p).kind = "file"
<1>1. pc = "create_dir_all" /\ target' = target /\ todo' = todo
    BY DEF CreateDirs
<1>2. PICK made \in SUBSET missing :
         /\ \A p \in made, q \in missing : Len(q) < Len(p) => q \in made
         /\ blocked => made = {}
         /\ disk' = [p \in Paths |-> IF p \in made THEN Dir ELSE disk[p]]
         /\ IF made = {} THEN UNCHANGED acts ELSE Note("mkdir", parent, Dir)
         /\ \/ made = missing /\ ~blocked /\ Call("write")
            \/ (made # missing \/ missing = {}) /\ Reply(500)
    BY Zenon DEF CreateDirs
<1>3. /\ Entitled /\ Below(Root, target) /\ IsSeq(todo) /\ todo # <<>>
      /\ \A k \in DOMAIN todo : Below(Root, todo[k].path)
    BY <1>1 DEF RInv, TargetOK
<1>4. Within(Root, parent) /\ Straight(parent)
    <2>1. Straight(Root)
        BY <1>3, RouteFound DEF Entitled
    <2> QED
        BY <1>3, <2>1, ParentWithin DEF Within
<1>5. req' = req /\ (pc' = "write" \/ pc' = "answered")
    <2>1. Call("write") \/ Reply(500)
        BY <1>2, Zenon
    <2> QED
        BY <2>1, AnswerIs
<1>6. DiskOK'
    <2>1. DiskOK
        BY DEF RInv
    <2>2. \A p \in made, q \in Prefixes(parent) :
             EntryAt(q) = Absent /\ Len(q) < Len(p) => q \in made
        BY <1>2
    <2>3. made # {} => \A p \in Prefixes(parent) : EntryAt(p).kind # "file"
        BY <1>2
    <2> HIDE DEF parent
    <2> QED
        BY <1>2, <1>4, <2>1, <2>2, <2>3, DirsMade
<1>7. ActsOK'
    <2>1. CASE acts' = acts
        BY <1>5, <2>1, SameRoute DEF RInv, ActsOK, Inside
    <2>2. CASE Note("mkdir", parent, Dir)
        BY <1>3, <1>4, <1>5, <2>2, NoteHolds
    <2> QED
        BY <1>2, <2>1, <2>2, Zenon
<1>8. CASE pc' = "answered"
    BY <1>1, <1>5, <1>6, <1>7, <1>8, AnswerHolds
<1>9. CASE pc' = "write"
    <2>1. TargetOK'
        BY <1>1, <1>3, <1>5, <1>9, SameRoute DEF TargetOK, AboutTarget, IsSeq
    <2> QED
        BY <1>1, <1>5, <1>6, <1>7, <1>9, <2>1 DEF RInv, Places
<1> QED
    BY <1>5, <1>8, <1>9

(* Something is written to a file in the root.                             *)
LEMMA ChangeHolds ==
    ASSUME RInv, req' = req, Entitled, NEW path, Below(Root, path), NEW e, IsEntry(e),
           NEW op, Change(op, path, e),
           Writable(path) \/ (EntryAt(path).kind = "file" /\ e = Absent)
    PROVE  ActsOK' /\ DiskOK'
<1>1. Straight(path) /\ Resolve(path) = path /\ Within(Root, path) /\ path # Root
    BY ResolveStraight DEF Below, Within
<1>2. disk' = [disk EXCEPT ![path] = e] /\ Note(op, path, e)
    BY <1>1 DEF Change
<1>3. EntryAt(path) = IF path = <<>> THEN Dir ELSE IF path \in Paths THEN disk[path] ELSE Absent
    BY <1>1, EntryOf
<1>4. path \in Paths /\ disk[path] # Dir /\ (e # Absent => EntryAt(Front(path)) = Dir)
    <2>1. CASE Writable(path)
        <3>1. path \in Paths /\ EntryAt(path) # Dir /\ EntryAt(Front(path)) = Dir
            BY <1>1, <2>1 DEF Writable
        <3> QED
            BY <1>3, <3>1
    <2>2. CASE EntryAt(path).kind = "file" /\ e = Absent
        BY <1>3, <2>2 DEF Dir, Absent
    <2> QED
        BY <2>1, <2>2
<1>5. DiskOK'
    BY <1>2, <1>4, DiskPut DEF RInv
<1>6. ActsOK'
    BY <1>1, <1>2, NoteHolds
<1> QED
    BY <1>5, <1>6

(* fs::write, whether it succeeds or fails.                                *)
LEMMA WriteHolds ==
    ASSUME RInv, WriteFile \/ WriteFails
    PROVE  RInv'
<1>1. pc = "write" /\ target' = target
    BY DEF WriteFile, WriteFails
<1>2. /\ Entitled /\ todo \in Seq(ToSet(todo)) /\ todo # <<>>
      /\ \A f \in ToSet(todo) : Below(Root, f.path)
    BY <1>1 DEF RInv, TargetOK, IsSeq, ToSet
<1>3. Below(Root, Head(todo).path)
    BY <1>2, HeadTailProperties
<1>4. \A data : IsEntry(File(data))
    BY DEF IsEntry, File
<1>5. CASE WriteFile
    <2>1. /\ Writable(Head(todo).path)
          /\ Change("write", Head(todo).path, File(Head(todo).data))
          /\ todo' = Tail(todo)
          /\ Reply(201) \/ (todo' # <<>> /\ Call("write"))
        BY <1>5, Zenon DEF WriteFile
    <2>2. req' = req /\ (pc' = "answered" \/ (pc' = "write" /\ todo' # <<>>))
        BY <2>1, AnswerIs
    <2>3. ActsOK' /\ DiskOK'
        BY <1>2, <1>3, <1>4, <2>1, <2>2, ChangeHolds
    <2>4. CASE pc' = "answered"
        BY <1>1, <2>2, <2>3, <2>4, AnswerHolds
    <2>5. CASE pc' = "write" /\ todo' # <<>>
        <3>1. todo' \in Seq(ToSet(todo))
            BY <1>2, <2>1, HeadTailProperties
        <3>2. IsSeq(todo') /\ \A k \in DOMAIN todo' : todo'[k] \in ToSet(todo)
            BY <3>1, SequenceOf
        <3>3. \A k \in DOMAIN todo' : Below(Root, todo'[k].path)
            BY <1>2, <3>2
        <3>4. TargetOK'
            BY <1>2, <2>2, <2>5, <3>2, <3>3, SameRoute DEF TargetOK, AboutTarget, IsSeq
        <3> QED
            BY <1>1, <2>2, <2>3, <2>5, <3>4 DEF RInv, Places
    <2> QED
        BY <2>2, <2>4, <2>5
<1>6. CASE WriteFails
    <2>1. pc' = "answered" /\ req' = req
        BY <1>6, AnswerIs DEF WriteFails
    <2>2. \/ Untouched
          \/ \E data : Writable(Head(todo).path) /\ Change("torn", Head(todo).path, File(data))
        BY <1>6, Zenon DEF WriteFails
    <2>3. CASE Untouched
        BY <1>1, <2>1, <2>3, UntouchedHolds, AnswerHolds
    <2>4. ASSUME NEW data, Writable(Head(todo).path), Change("torn", Head(todo).path, File(data))
          PROVE  RInv'
        <3>1. ActsOK' /\ DiskOK'
            BY <1>2, <1>3, <1>4, <2>1, <2>4, ChangeHolds
        <3> QED
            BY <1>1, <2>1, <3>1, AnswerHolds
    <2> QED
        BY <2>2, <2>3, <2>4
<1> QED
    BY <1>5, <1>6

(* remove_file.                                                            *)
LEMMA RemoveHolds ==
    ASSUME RInv, RemoveFile
    PROVE  RInv'
<1>1. /\ pc = "remove_file" /\ pc' = "answered" /\ req' = req
      /\ Untouched \/ (EntryAt(target).kind = "file" /\ Change("remove", target, Absent))
    BY AnswerIs DEF RemoveFile
<1>2. Entitled /\ Below(Root, target)
    BY <1>1 DEF RInv, TargetOK, AboutTarget
<1>3. IsEntry(Absent)
    BY DEF IsEntry
<1>4. ActsOK' /\ DiskOK'
    <2>1. CASE Untouched
        BY <1>1, <2>1, UntouchedHolds
    <2>2. CASE EntryAt(target).kind = "file" /\ Change("remove", target, Absent)
        BY <1>1, <1>2, <1>3, <2>2, ChangeHolds
    <2> QED
        BY <1>1, <2>1, <2>2
<1> QED
    BY <1>1, <1>4, AnswerHolds

(* Another process changes a file.                                         *)
LEMMA MeddleHolds ==
    ASSUME RInv, Meddle
    PROVE  RInv'
<1>1. UNCHANGED <<pc, req, target, todo, acts>>
    BY DEF Meddle
<1>2. ActsOK' /\ TargetOK'
    BY <1>1, SameRoute DEF RInv, ActsOK, Inside, TargetOK, IsSeq
<1>3. DiskOK'
    BY MeddleKeepsDisk DEF RInv
<1> QED
    BY <1>1, <1>2, <1>3 DEF RInv

(* Before the first request nothing is named or done, and the disk is in   *)
(* order.                                                                  *)
LEMMA RouterInitOK == Init => RInv
<1> SUFFICES ASSUME Init PROVE RInv
    OBVIOUS
<1>1. /\ disk = FirstDisk /\ pc = "idle" /\ acts = <<>>
    BY DEF Init, RouterInit
<1>2. TargetOK /\ ActsOK
    BY <1>1 DEF TargetOK, ActsOK, AboutTarget, IsSeq, ToSet
<1>3. DiskOK
    BY <1>1, RouterAssumption DEF DiskOK
<1> QED
    BY <1>1, <1>2, <1>3 DEF RInv, Places

(* Every step of the application keeps requests within their roots.        *)
LEMMA RouterNextOK == RInv /\ [Next]_vars => RInv'
<1> SUFFICES ASSUME RInv, [Next]_vars PROVE RInv'
    OBVIOUS
<1>1. ASSUME NEW q \in Requests, Ask(q) PROVE RInv'
    <2>1. /\ pc' = "route" /\ req' = q /\ acts' = <<>> /\ disk' = disk
        BY <1>1 DEF Ask, Arrive
    <2>2. TargetOK' /\ ActsOK'
        BY <2>1 DEF TargetOK, ActsOK, AboutTarget, IsSeq, ToSet
    <2>3. DiskOK'
        BY <2>1 DEF RInv, DiskOK, IsEntry, File, Absent, Dir
    <2> QED
        BY <2>1, <2>2, <2>3 DEF RInv, Places
<1>2. CASE Handle
    <2>1. RouterStep
        BY <1>2 DEF Handle
    <2>2. CASE NoRoute \/ Redirect \/ NotAllowed \/ TryCgi \/ Unservable \/ ServeGet
               \/ HandlePost \/ HandleDelete
        BY <2>2, RoutedHolds
    <2>3. CASE GetMetadata \/ GetIndex \/ Canonicalize \/ DeleteMetadata
        BY <2>3, LookedHolds
    <2>4. CASE ServeFile \/ AutoIndex \/ Execute
        BY <2>4, ReadHolds
    <2>5. CASE CreateDirs
        BY <2>5, CreateDirsHolds
    <2>6. CASE WriteFile \/ WriteFails
        BY <2>6, WriteHolds
    <2>7. CASE RemoveFile
        BY <2>7, RemoveHolds
    <2>8. CASE Meddle
        BY <2>8, MeddleHolds
    <2> QED
        BY <2>1, <2>2, <2>3, <2>4, <2>5, <2>6, <2>7, <2>8 DEF RouterStep
<1>3. ASSUME NEW c \in Clients, NEW sent \in {NoCookie, jar[c]}, NEW arrives \in BOOLEAN,
             CountVisit(c, sent, arrives)
      PROVE  RInv'
    <2>1. pc' = "idle" /\ acts' = <<>> /\ disk' = disk
        BY <1>3 DEF CountVisit, Done
    <2>2. TargetOK' /\ ActsOK'
        BY <2>1 DEF TargetOK, ActsOK, AboutTarget, IsSeq, ToSet
    <2>3. DiskOK'
        BY <2>1 DEF RInv, DiskOK, IsEntry, File, Absent, Dir
    <2> QED
        BY <2>1, <2>2, <2>3 DEF RInv, Places
<1>4. CASE Tick \/ UNCHANGED vars
    <2>1. UNCHANGED <<pc, req, target, todo, acts, disk>>
        BY <1>4 DEF Tick, vars, routerVars
    <2>2. ActsOK' /\ TargetOK'
        BY <2>1, SameRoute DEF RInv, ActsOK, Inside, TargetOK, IsSeq
    <2>3. DiskOK'
        BY <2>1 DEF RInv, DiskOK, IsEntry, File, Absent, Dir
    <2> QED
        BY <2>1, <2>2, <2>3 DEF RInv
<1> QED
    BY <1>1, <1>2, <1>3, <1>4 DEF Next

(* Requests stay within their roots, and the disk stays in order.          *)
THEOREM RouterInvariance == Spec => []RInv
<1>1. RInv /\ [Next]_vars => RInv'
    BY RouterNextOK
<1> QED
    BY <1>1, RouterInitOK, PTL DEF Spec

(* Whatever a request does to files, it does in the root of the most       *)
(* specific route for its path, which allows its method.                   *)
THEOREM RequestsConfined == Spec => []Confined
<1>1. RInv => Confined
    <2> SUFFICES ASSUME RInv, NEW k \in DOMAIN acts
                 PROVE  \E i \in DOMAIN Routes : \E root \in Routes[i].root :
                           /\ RoutesTo(i, req.path)
                           /\ Routes[i].redirect = {}
                           /\ req.method \in AllowedMethods(Routes[i])
                           /\ IsPrefix(root, acts[k].path)
                           /\ acts[k].op \in {"write", "torn", "remove"} => acts[k].path # root
        BY DEF Confined
    <2>1. Inside(acts[k])
        BY DEF RInv, ActsOK
    <2>2. /\ BestRoute(req.path) \in DOMAIN Routes /\ RoutesTo(BestRoute(req.path), req.path)
          /\ Root \in R.root
        BY <2>1, RouteFound DEF Inside, Entitled
    <2> QED
        BY <2>1, <2>2 DEF Inside, Entitled, R
<1> QED
    BY <1>1, RouterInvariance, PTL

(* The disk keeps its shape under requests and what others do, and the     *)
(* sessions and cookies are what they should be.                           *)
THEOREM TypeCorrect == Spec => []TypeOK
<1>1. SInv /\ RInv => TypeOK
    <2> SUFFICES ASSUME SInv, RInv PROVE TypeOK
        OBVIOUS
    <2>1. \A p \in Paths : IsEntry(disk[p]) /\ (disk[p] # Absent => EntryAt(Front(p)) = Dir)
        BY ParentOf DEF RInv, DiskOK
    <2>2. pc \in {"idle", "route", "metadata", "index", "read", "read_dir", "canonicalize",
                  "execute", "create_dir_all", "write", "remove_file", "answered"}
        BY DEF RInv, Places, AboutTarget
    <2>3. (pc = "write") => todo # <<>>
        BY DEF RInv, TargetOK
    <2>4. \A id \in DOMAIN sessions : id \in Ids /\ sessions[id] \in Session
        BY DEF SInv, SessionsHeld
    <2>5. DOMAIN sessions \subseteq given /\ \A c \in Clients : jar[c] \subseteq given
        BY DEF SInv, SessionsHeld, JarsApart
    <2> QED
        BY <2>1, <2>2, <2>3, <2>4, <2>5 DEF TypeOK
<1> QED
    BY <1>1, SessionInvariance, RouterInvariance, PTL

-----------------------------------------------------------------------------
(***************************************************************************)
(* What the answer says about files.                                       *)
(***************************************************************************)

(* The files of a POST, as the router sees them.                           *)
Files ==
    IF req.multipart THEN PartFiles(req.body, Root)
    ELSE <<[path |-> Root \o Rel, data |-> req.body]>>

(* The first few have been stored, and the others are still to be written. *)
StoredSome ==
    \E made \in Mkdirs, n \in 0 .. Len(Files) - 1 :
        /\ acts = made \o Stored(Files, n)
        /\ todo = SubSeq(Files, n + 1, Len(Files))

StoredAll == \E made \in Mkdirs : acts = made \o Stored(Files, Len(Files))

(* The first few were stored, and the next at most begun.                  *)
StoredFirst ==
    \E made \in Mkdirs, n \in 0 .. Len(Files) - 1 :
        \E torn \in Torn(Files[n + 1]) : acts = made \o Stored(Files, n) \o torn

(* What an answer says: the answers of scripts and redirects say nothing.  *)
Told ==
    \/ Ran
    \/ BestRoute(req.path) # 0 /\ R.redirect # {}
    \/ /\ resp.status = 201 => Entitled /\ StoredAll
       /\ resp.status = 500 /\ acts # <<>> => Entitled /\ StoredFirst
       /\ resp.status = 204 =>
            /\ acts = <<[op |-> "remove", path |-> target, entry |-> Absent]>>
            /\ req.method = "DELETE"

EInv ==
    /\ pc = "create_dir_all" => ~req.multipart /\ todo = Files
    /\ pc = "write" => StoredSome
    /\ pc = "remove_file" => req.method = "DELETE"
    /\ pc = "answered" => Told

(* The files of a request that may be served.                              *)
LEMMA FilesTyped ==
    ASSUME Entitled
    PROVE  IsSeq(Files)
<1>1. CASE req.multipart
    <2>1. Straight(Root)
        BY RouteFound DEF Entitled
    <2>2. req.body \in Seq(ToSet(req.body))
        BY RouterAssumption DEF Entitled, IsSeq
    <2> QED
        BY <1>1, <2>1, <2>2, PartFilesBelow DEF Files
<1>2. CASE ~req.multipart
    <2> DEFINE f == [path |-> Root \o Rel, data |-> req.body]
    <2>1. Files = <<f>>
        BY <1>2 DEF Files
    <2> HIDE DEF f
    <2>2. <<f>> \in Seq({f})
        OBVIOUS
    <2> QED
        BY <2>1, <2>2, SequenceOf
<1> QED
    BY <1>1, <1>2

(* What is done after n files were stored.                                 *)
LEMMA StoredThen ==
    ASSUME NEW files, IsSeq(files), NEW n \in 0 .. Len(files) - 1,
           NEW made \in Mkdirs, NEW e
    PROVE  /\ Append(made \o Stored(files, n), e) = (made \o Stored(files, n)) \o <<e>>
           /\ e = [op |-> "write", path |-> files[n + 1].path, entry |-> File(files[n + 1].data)]
                => Append(made \o Stored(files, n), e) = made \o Stored(files, n + 1)
           /\ (made \o Stored(files, n)) \o <<>> = made \o Stored(files, n)
<1> DEFINE W(k) == [op |-> "write", path |-> files[k].path, entry |-> File(files[k].data)]
           u == Stored(files, n)
           w == Stored(files, n + 1)
           dir == [op |-> "mkdir", path |-> Front(target), entry |-> Dir]
           S == {W(k) : k \in 1 .. Len(files)} \cup {dir, e}
<1>1. Len(files) \in Nat /\ n \in Nat /\ n + 1 \in 1 .. Len(files)
    <2>1. Len(files) \in Nat
        BY LenProperties DEF IsSeq
    <2> QED
        BY <2>1
<1>2. u = [k \in 1 .. n |-> W(k)] /\ w = [k \in 1 .. n + 1 |-> W(k)]
    BY DEF Stored
<1>3. e \in S /\ dir \in S /\ \A k \in 1 .. Len(files) : W(k) \in S
    OBVIOUS
<1>4. made = <<>> \/ made = <<dir>>
    BY DEF Mkdirs
<1> HIDE DEF S, W, u, w, dir
<1>5. made \in Seq(S)
    <2>1. <<>> \in Seq(S) /\ <<dir>> \in Seq(S)
        BY <1>3
    <2> QED
        BY <1>4, <2>1
<1>6. u \in Seq(S) /\ Len(u) = n /\ \A k \in 1 .. n : u[k] = W(k)
    <2>1. \A k \in 1 .. n : W(k) \in S
        BY <1>1, <1>3
    <2> QED
        BY <1>1, <1>2, <2>1
<1>7. w \in Seq(S) /\ Len(w) = n + 1 /\ \A k \in 1 .. n + 1 : w[k] = W(k)
    <2>1. \A k \in 1 .. n + 1 : W(k) \in S
        BY <1>1, <1>3
    <2>2. n + 1 \in Nat
        BY <1>1
    <2> QED
        BY <1>2, <2>1, <2>2
<1>8. made \o u \in Seq(S)
    BY <1>5, <1>6, ConcatProperties
<1>9. Append(made \o u, e) = (made \o u) \o <<e>>
    BY <1>3, <1>8, AppendIsConcat
<1>10. ASSUME e = W(n + 1) PROVE Append(made \o u, e) = made \o w
    <2> DEFINE v == Append(u, e)
    <2>1. /\ v \in Seq(S) /\ Len(v) = Len(u) + 1 /\ v[Len(u) + 1] = e
          /\ \A k \in 1 .. Len(u) : v[k] = u[k]
        <3>1. u \in Seq(S) /\ e \in S
            BY <1>3, <1>6
        <3> QED
            BY <3>1, AppendProperties
    <2> HIDE DEF v
    <2>2. ASSUME NEW k \in 1 .. Len(v) PROVE v[k] = w[k]
        <3>1. CASE k = n + 1
            BY <1>1, <1>6, <1>7, <1>10, <2>1, <3>1
        <3>2. CASE k # n + 1
            <4>1. k \in 1 .. n /\ k \in 1 .. n + 1 /\ k \in 1 .. Len(u)
                BY <1>1, <1>6, <2>1, <3>2
            <4> QED
                BY <1>6, <1>7, <2>1, <4>1
        <3> QED
            BY <3>1, <3>2
    <2>3. v = w
        BY <1>6, <1>7, <2>1, <2>2, SeqEqual
    <2>4. v = u \o <<e>>
        BY <1>3, <1>6, AppendIsConcat DEF v
    <2> DEFINE one == <<e>>
    <2>5. made \in Seq(S) /\ u \in Seq(S) /\ one \in Seq(S)
        BY <1>3, <1>5, <1>6
    <2> HIDE DEF one
    <2>6. (made \o u) \o one = made \o (u \o one)
        BY <2>5, ConcatAssociative, SMTT(30)
    <2> QED
        BY <1>9, <2>3, <2>4, <2>6 DEF one
<1>11. (made \o u) \o <<>> = made \o u
    BY <1>8, ConcatEmptySeq
<1> QED
    BY <1>9, <1>10, <1>11 DEF W, u, w

(* Before the first of them nothing has been stored.                       *)
LEMMA StoredNothing ==
    ASSUME NEW files, IsSeq(files), files # <<>>, NEW made \in Mkdirs
    PROVE  /\ 0 \in 0 .. Len(files) - 1
           /\ made \o Stored(files, 0) = made
           /\ (made \o Stored(files, 0)) \o <<>> = made
           /\ files = SubSeq(files, 0 + 1, Len(files))
<1> DEFINE dir == [op |-> "mkdir", path |-> Front(target), entry |-> Dir]
<1>1. Len(files) \in Nat \ {0} /\ files = SubSeq(files, 1, Len(files))
    BY EmptySeq, SubSeqFull DEF IsSeq
<1>2. Stored(files, 0) = <<>>
    BY DEF Stored
<1>3. made \in Seq({dir})
    <2>1. made = <<>> \/ made = <<dir>>
        BY DEF Mkdirs
    <2> HIDE DEF dir
    <2>2. <<>> \in Seq({dir}) /\ <<dir>> \in Seq({dir})
        OBVIOUS
    <2> QED
        BY <2>1, <2>2
<1>4. made \o <<>> = made
    BY <1>3, ConcatEmptySeq
<1>5. 0 \in 0 .. Len(files) - 1 /\ 0 + 1 = 1
    BY <1>1
<1>6. /\ made \o Stored(files, 0) = made
      /\ (made \o Stored(files, 0)) \o <<>> = made
    BY <1>2, <1>4
<1> QED
    BY <1>1, <1>5, <1>6

(* As long as the request and its target are the same, so are its files.   *)
LEMMA SameFiles ==
    ASSUME req' = req, target' = target
    PROVE  Files' = Files /\ Mkdirs' = Mkdirs /\ Entitled' = Entitled
<1>1. Rel' = Rel /\ Root' = Root /\ Entitled' = Entitled
    BY SameRoute DEF Rel
<1>2. Files' = Files
    BY <1>1 DEF Files
<1>3. Mkdirs' = Mkdirs
    BY DEF Mkdirs
<1> QED
    BY <1>1, <1>2, <1>3

(* Most answers say nothing about files.                                   *)
LEMMA SilentTold ==
    /\ \A status : Reply(status) /\ status \notin {201, 204} /\ acts' = <<>> => EInv'
    /\ \A status, body : Answer(status, body) /\ status \notin {201, 204, 500} => EInv'
    /\ \A next : Call(next) /\ next \notin {"create_dir_all", "write", "remove_file", "answered"}
         => EInv'
<1>1. ASSUME NEW status, Reply(status), status \notin {201, 204}, acts' = <<>> PROVE EInv'
    <2>1. pc' = "answered" /\ resp'.status = status
        BY <1>1 DEF Reply, Answer
    <2>2. Told'
        BY <1>1, <2>1 DEF Told
    <2> QED
        BY <2>1, <2>2 DEF EInv
<1>2. ASSUME NEW status, NEW body, Answer(status, body), status \notin {201, 204, 500} PROVE EInv'
    <2>1. pc' = "answered" /\ resp'.status = status
        BY <1>2 DEF Answer
    <2>2. Told'
        BY <1>2, <2>1 DEF Told
    <2> QED
        BY <2>1, <2>2 DEF EInv
<1>3. ASSUME NEW next, Call(next),
             next \notin {"create_dir_all", "write", "remove_file", "answered"}
      PROVE  EInv'
    BY <1>3 DEF EInv, Call
<1> QED
    BY <1>1, <1>2, <1>3

(* The steps that leave files alone, or only look at them.                 *)
LEMMA LookedTold ==
    ASSUME TracesKept, EInv,
           NoRoute \/ Redirect \/ NotAllowed \/ TryCgi \/ Unservable \/ ServeGet
           \/ GetMetadata \/ GetIndex \/ Canonicalize \/ HandleDelete \/ DeleteMetadata
    PROVE  EInv'
<1>1. pc \in {"route", "metadata", "index", "canonicalize"} /\ acts' = acts /\ acts = <<>>
    <2>1. pc \in {"route", "metadata", "index", "canonicalize"} /\ acts' = acts
        BY DEF NoRoute, Redirect, NotAllowed, TryCgi, Unservable, ServeGet, GetMetadata,
               GetIndex, Canonicalize, HandleDelete, DeleteMetadata, Found, Admitted, Static,
               Servable, Untouched
    <2> QED
        BY <2>1 DEF TracesKept
<1>2. \A status : Reply(status) /\ status \notin {201, 204} => EInv'
    BY <1>1, SilentTold
<1>3. \A next : Call(next) /\ next \notin {"create_dir_all", "write", "remove_file", "answered"}
         => EInv'
    BY SilentTold
<1>4. ListOrRefuse => EInv'
    <2>1. ListOrRefuse => Call("read_dir") \/ Reply(403)
        BY Zenon DEF ListOrRefuse
    <2> QED
        BY <1>2, <1>3, <2>1
<1>5. CASE NoRoute \/ NotAllowed \/ Unservable
    BY <1>2, <1>5 DEF NoRoute, NotAllowed, Unservable
<1>6. CASE Redirect
    <2>1. PICK code \in R.redirect : Reply(code)
        BY <1>6 DEF Redirect
    <2>2. pc' = "answered" /\ req' = req
        BY <2>1, AnswerIs
    <2>3. BestRoute(req.path) # 0 /\ R.redirect # {}
        BY <1>6 DEF Redirect, Found
    <2>4. Told'
        BY <2>2, <2>3, SameRoute DEF Told
    <2> QED
        BY <2>2, <2>4 DEF EInv
<1>7. CASE TryCgi \/ ServeGet \/ Canonicalize
    <2>1. Call("canonicalize") \/ Call("metadata") \/ Call("execute") \/ Reply(403) \/ Reply(404)
        BY <1>7 DEF TryCgi, ServeGet, Canonicalize
    <2> QED
        BY <1>2, <1>3, <2>1
<1>8. CASE GetMetadata \/ GetIndex
    <2>1. Reply(404) \/ Call("read") \/ Call("index") \/ ListOrRefuse
        BY <1>8, Zenon DEF GetMetadata, GetIndex
    <2> QED
        BY <1>2, <1>3, <1>4, <2>1
<1>9. CASE HandleDelete
    <2>1. Reply(403) \/ Call("metadata")
        BY <1>9, Zenon DEF HandleDelete
    <2> QED
        BY <1>2, <1>3, <2>1
<1>10. CASE DeleteMetadata
    <2>1. Reply(404) \/ Reply(403) \/ (Call("remove_file") /\ req.method = "DELETE")
        BY <1>10, Zenon DEF DeleteMetadata
    <2>2. ASSUME Call("remove_file"), req.method = "DELETE" PROVE EInv'
        BY <2>2 DEF Call, EInv
    <2> QED
        BY <1>2, <2>1, <2>2
<1> QED
    BY <1>5, <1>6, <1>7, <1>8, <1>9, <1>10

(* The steps that read, list or run.                                       *)
LEMMA ReadTold ==
    ASSUME TracesKept, EInv, ServeFile \/ AutoIndex \/ Execute
    PROVE  EInv'
<1>1. pc \in {"read", "read_dir", "execute"} /\ acts = <<>>
    BY DEF ServeFile, AutoIndex, Execute, TracesKept
<1>2. ASSUME Reply(500), acts' = acts PROVE EInv'
    BY <1>1, <1>2, SilentTold
<1>3. ASSUME NEW body, Answer(200, body) PROVE EInv'
    BY <1>3, SilentTold
<1>4. CASE ServeFile
    <2>1. Answer(200, EntryAt(target).data) \/ (Reply(500) /\ acts' = acts)
        BY <1>4, Zenon DEF ServeFile
    <2> QED
        BY <1>2, <1>3, <2>1
<1>5. CASE AutoIndex
    <2>1. Answer(200, <<>>) \/ (Reply(500) /\ acts' = acts)
        <3>1. Reply(200) \/ (Reply(500) /\ UNCHANGED acts)
            BY <1>5, Zenon DEF AutoIndex
        <3> QED
            BY <3>1 DEF Reply
    <2> QED
        BY <1>2, <1>3, <2>1
<1>6. CASE Execute
    <2>1. ASSUME NEW out \in Outputs, pc' = "answered", Note("run", target, out) PROVE EInv'
        <3>1. acts' = <<[op |-> "run", path |-> Resolve(target), entry |-> out]>>
            BY <1>1, <2>1 DEF Note
        <3>2. 1 \in DOMAIN acts' /\ acts'[1].op = "run"
            BY <3>1
        <3>3. Told'
            BY <3>2 DEF Told, Ran
        <3> QED
            BY <2>1, <3>3 DEF EInv
    <2> QED
        BY <1>2, <1>6, <2>1 DEF Execute
<1> QED
    BY <1>4, <1>5, <1>6

(* handle_post lists the files of the request.                             *)
LEMMA HandlePostTold ==
    ASSUME TracesKept, RInv, EInv, HandlePost
    PROVE  EInv'
<1>1. pc = "route" /\ acts' = <<>> /\ Servable
    BY DEF HandlePost, Servable, Static, Admitted, Found, Untouched, TracesKept
<1>2. ASSUME Reply(400) PROVE EInv'
    BY <1>1, <1>2, SilentTold
<1>3. CASE req.multipart
    <2>1. /\ todo' = PartFiles(req.body, Root) /\ target' = target
          /\ Reply(400) \/ (todo' # <<>> /\ Call("write"))
        BY <1>3, Zenon DEF HandlePost
    <2>2. ASSUME todo' # <<>>, Call("write") PROVE EInv'
        <3>1. pc' = "write" /\ req' = req
            BY <2>2, AnswerIs
        <3>2. Entitled
            BY <1>1 DEF RInv, Servable, Static, Admitted, Found, Entitled
        <3>3. Files' = Files /\ Mkdirs' = Mkdirs
            BY <2>1, <3>1, SameFiles
        <3>4. IsSeq(Files) /\ todo' = Files
            BY <1>3, <2>1, <3>2, FilesTyped DEF Files
        <3> DEFINE none == <<>>
        <3>5. none \in Mkdirs
            BY DEF Mkdirs
        <3>6. acts' = none /\ Files # <<>>
            BY <1>1, <2>2, <3>4
        <3> HIDE DEF none
        <3>7. /\ 0 \in 0 .. Len(Files) - 1
              /\ none \o Stored(Files, 0) = none
              /\ Files = SubSeq(Files, 0 + 1, Len(Files))
            BY <3>4, <3>5, <3>6, StoredNothing
        <3>8. StoredSome'
            BY <3>3, <3>4, <3>5, <3>6, <3>7 DEF StoredSome
        <3> QED
            BY <3>1, <3>8 DEF EInv
    <2> QED
        BY <1>2, <2>1, <2>2
<1>4. CASE ~req.multipart
    <2>1. /\ todo' = <<[path |-> Root \o Rel, data |-> req.body]>>
          /\ Reply(400) \/ Call("create_dir_all")
        BY <1>4, Zenon DEF HandlePost
    <2>2. ASSUME Call("create_dir_all") PROVE EInv'
        <3>1. pc' = "create_dir_all" /\ req' = req
            BY <2>2, AnswerIs
        <3>2. todo' = Files'
            BY <1>4, <2>1, <3>1, SameRoute DEF Files, Rel
        <3> QED
            BY <1>4, <3>1, <3>2 DEF EInv
    <2> QED
        BY <1>2, <2>1, <2>2
<1> QED
    BY <1>3, <1>4

(* create_dir_all is the first that may leave a trace.                     *)
LEMMA CreateDirsTold ==
    ASSUME TracesKept, RInv, EInv, CreateDirs
    PROVE  EInv'
<1> DEFINE parent == Front(target)
           missing == {p \in Prefixes(parent) : EntryAt(p) = Absent}
           blocked == \E p \in Prefixes(parent) : EntryAt(p).kind = "file"
<1>1. pc = "create_dir_all" /\ acts = <<>> /\ target' = target /\ todo' = todo /\ todo = Files
    BY DEF CreateDirs, TracesKept, EInv
<1>2. PICK made \in SUBSET missing :
         /\ IF made = {} THEN UNCHANGED acts ELSE Note("mkdir", parent, Dir)
         /\ \/ made = missing /\ ~blocked /\ Call("write")
            \/ (made # missing \/ missing = {}) /\ Reply(500)
    BY Zenon DEF CreateDirs
<1> HIDE DEF missing, blocked
<1>3. Entitled /\ Below(Root, target) /\ todo # <<>>
    BY <1>1 DEF RInv, TargetOK
<1>4. Resolve(parent) = parent
    <2>1. Straight(Root)
        BY <1>3, RouteFound DEF Entitled
    <2>2. Within(Root, parent)
        BY <1>3, <2>1, ParentWithin DEF Within
    <2> QED
        BY <2>2, ResolveStraight DEF Within
<1>5. acts' \in Mkdirs
    <2>1. CASE Note("mkdir", parent, Dir)
        BY <1>1, <1>4, <2>1 DEF Note, Mkdirs
    <2>2. CASE acts' = acts
        BY <1>1, <2>2 DEF Mkdirs
    <2> QED
        BY <1>2, <2>1, <2>2, Zenon
<1>6. Call("write") \/ Reply(500)
    BY <1>2, Zenon
<1>7. req' = req
    BY <1>6, AnswerIs
<1>8. Files' = Files /\ Mkdirs' = Mkdirs /\ Entitled'
    BY <1>1, <1>3, <1>7, SameFiles
<1> DEFINE first == acts'
<1>9. /\ 0 \in 0 .. Len(Files) - 1
      /\ first \o Stored(Files, 0) = first
      /\ (first \o Stored(Files, 0)) \o <<>> = first
      /\ Files = SubSeq(Files, 0 + 1, Len(Files))
    <2>1. IsSeq(Files) /\ Files # <<>> /\ first \in Mkdirs
        BY <1>1, <1>3, <1>5, FilesTyped
    <2> HIDE DEF first
    <2> QED
        BY <2>1, StoredNothing
<1>10. CASE Call("write")
    <2>1. StoredSome'
        BY <1>1, <1>5, <1>8, <1>9 DEF StoredSome
    <2>2. pc' = "write"
        BY <1>10, AnswerIs
    <2> QED
        BY <2>1, <2>2 DEF EInv
<1>11. CASE Reply(500)
    <2> DEFINE torn == <<>>
    <2>1. torn \in Torn(Files[0 + 1]) /\ first = first \o Stored(Files, 0) \o torn
        BY <1>9 DEF Torn
    <2> HIDE DEF torn
    <2>2. StoredFirst'
        BY <1>5, <1>8, <1>9, <2>1 DEF StoredFirst
    <2>3. pc' = "answered" /\ resp'.status = 500
        BY <1>11, RepliesAre
    <2>4. Told'
        BY <1>8, <2>2, <2>3 DEF Told
    <2> QED
        BY <2>3, <2>4 DEF EInv
<1> QED
    BY <1>6, <1>10, <1>11

(* fs::write stores the next file, or fails.                               *)
LEMMA WriteTold ==
    ASSUME RInv, EInv, WriteFile \/ WriteFails
    PROVE  EInv'
<1>1. pc = "write" /\ target' = target /\ StoredSome
    BY DEF WriteFile, WriteFails, EInv
<1>2. PICK made \in Mkdirs, n \in 0 .. Len(Files) - 1 :
         acts = made \o Stored(Files, n) /\ todo = SubSeq(Files, n + 1, Len(Files))
    BY <1>1 DEF StoredSome
<1>3. /\ Entitled /\ IsSeq(todo) /\ todo # <<>>
      /\ \A k \in DOMAIN todo : Below(Root, todo[k].path)
    BY <1>1 DEF RInv, TargetOK
<1>4. IsSeq(Files)
    BY <1>3, FilesTyped
<1> DEFINE file == Files[n + 1]
<1>5. Len(Files) \in Nat /\ n \in Nat /\ n + 1 \in 1 .. Len(Files)
    <2>1. Len(Files) \in Nat
        BY <1>4, LenProperties DEF IsSeq
    <2> QED
        BY <2>1
<1>6. /\ Head(todo) = file
      /\ Tail(todo) = SubSeq(Files, (n + 1) + 1, Len(Files))
    <2>1. Files \in Seq(ToSet(Files)) /\ Len(Files) \in (n + 1) .. Len(Files)
        BY <1>4, <1>5 DEF IsSeq
    <2> QED
        BY <1>2, <1>5, <2>1, HeadTailOfSubSeq
<1>7. Resolve(file.path) = file.path
    <2>1. todo \in Seq(ToSet(todo)) /\ \A f \in ToSet(todo) : Below(Root, f.path)
        BY <1>3 DEF IsSeq, ToSet
    <2>2. Below(Root, file.path)
        BY <1>3, <1>6, <2>1, HeadTailProperties
    <2> QED
        BY <2>2, ResolveStraight DEF Below, Within
<1> HIDE DEF file
<1>8. ASSUME req' = req PROVE Files' = Files /\ Mkdirs' = Mkdirs /\ Entitled'
    BY <1>1, <1>3, <1>8, SameFiles
<1>9. CASE WriteFile
    <2>1. /\ Change("write", file.path, File(file.data)) /\ todo' = Tail(todo)
          /\ (todo' = <<>> /\ Reply(201)) \/ (todo' # <<>> /\ Call("write"))
        BY <1>6, <1>9, Zenon DEF WriteFile
    <2>2. req' = req
        BY <2>1, AnswerIs
    <2>3. acts' = made \o Stored(Files, n + 1)
        <3> DEFINE e == [op |-> "write", path |-> file.path, entry |-> File(file.data)]
        <3>1. acts' = Append(acts, e)
            BY <1>7, <2>1 DEF Change, Note
        <3>2. e = [op |-> "write", path |-> Files[n + 1].path, entry |-> File(Files[n + 1].data)]
            BY DEF file
        <3> HIDE DEF e
        <3>3. Append(made \o Stored(Files, n), e) = made \o Stored(Files, n + 1)
            BY <1>4, <3>2, StoredThen
        <3> QED
            BY <1>2, <3>1, <3>3
    <2>4. CASE todo' = <<>> /\ Reply(201)
        <3>1. n + 1 = Len(Files)
            <4>1. SubSeq(Files, (n + 1) + 1, Len(Files)) = <<>>
                BY <1>6, <2>1, <2>4
            <4>2. ASSUME n + 1 # Len(Files) PROVE FALSE
                <5>1. /\ (n + 1) + 1 \in Nat \ {0} /\ (n + 1) + 1 <= Len(Files)
                      /\ (n + 1) + 1 \in Int /\ Len(Files) \in Int
                    BY <1>5, <4>2
                <5>2. \A i \in (n + 1) + 1 .. Len(Files) : Files[i] \in ToSet(Files)
                    <6> SUFFICES ASSUME NEW i \in (n + 1) + 1 .. Len(Files)
                                 PROVE  Files[i] \in ToSet(Files)
                        OBVIOUS
                    <6>1. i \in 1 .. Len(Files)
                        BY <1>5
                    <6> QED
                        BY <1>4, <6>1, ElementOfSeq DEF IsSeq
                <5>3. Len(SubSeq(Files, (n + 1) + 1, Len(Files)))
                        = IF (n + 1) + 1 <= Len(Files) THEN Len(Files) - ((n + 1) + 1) + 1 ELSE 0
                    BY <5>1, <5>2, SubSeqProperties
                <5>4. Len(SubSeq(Files, (n + 1) + 1, Len(Files))) = 0
                    BY <4>1, EmptySeq
                <5> QED
                    BY <1>5, <5>1, <5>3, <5>4
            <4> QED
                BY <4>2
        <3>2. StoredAll'
            BY <1>8, <2>2, <2>3, <3>1 DEF StoredAll
        <3>3. pc' = "answered" /\ resp'.status = 201
            BY <2>4, RepliesAre
        <3>4. Told'
            BY <1>8, <2>2, <3>2, <3>3 DEF Told
        <3> QED
            BY <3>3, <3>4 DEF EInv
    <2>5. CASE todo' # <<>> /\ Call("write")
        <3>1. pc' = "write"
            BY <2>5, AnswerIs
        <3>2. n + 1 \in 0 .. Len(Files) - 1
            <4>1. ASSUME n + 1 = Len(Files) PROVE FALSE
                <5>1. (n + 1) + 1 \in Int /\ Len(Files) \in Int /\ Len(Files) < (n + 1) + 1
                    BY <1>5, <4>1
                <5>2. SubSeq(Files, (n + 1) + 1, Len(Files)) = <<>>
                    BY <5>1, SubSeqEmpty
                <5> QED
                    BY <1>6, <2>1, <2>5, <5>2
            <4> QED
                BY <1>5, <4>1
        <3>3. todo' = SubSeq(Files, (n + 1) + 1, Len(Files))
            BY <1>6, <2>1
        <3>4. StoredSome'
            BY <1>8, <2>2, <2>3, <3>2, <3>3 DEF StoredSome
        <3> QED
            BY <3>1, <3>4 DEF EInv
    <2> QED
        BY <2>1, <2>4, <2>5
<1>10. CASE WriteFails
    <2>1. pc' = "answered" /\ resp'.status = 500 /\ req' = req
        <3>1. Reply(500)
            BY <1>10 DEF WriteFails
        <3> QED
            BY <3>1, RepliesAre, AnswerIs
    <2>2. acts' = acts \/ \E m \in 0 .. Len(file.data) - 1 :
             Change("torn", file.path, File(SubSeq(file.data, 1, m)))
        BY <1>6, <1>10, Zenon DEF WriteFails, Untouched
    <2>3. \E torn \in Torn(file) : acts' = (made \o Stored(Files, n)) \o torn
        <3>1. CASE acts' = acts
            <4>1. (made \o Stored(Files, n)) \o <<>> = made \o Stored(Files, n)
                BY <1>4, StoredThen
            <4>2. <<>> \in Torn(file)
                BY DEF Torn
            <4> QED
                BY <1>2, <3>1, <4>1, <4>2
        <3>2. ASSUME NEW m \in 0 .. Len(file.data) - 1,
                     Change("torn", file.path, File(SubSeq(file.data, 1, m)))
              PROVE  \E torn \in Torn(file) : acts' = (made \o Stored(Files, n)) \o torn
            <4> DEFINE e == [op |-> "torn", path |-> file.path,
                             entry |-> File(SubSeq(file.data, 1, m))]
            <4>1. acts' = Append(acts, e)
                BY <1>7, <3>2 DEF Change, Note
            <4>2. <<e>> \in Torn(file)
                BY DEF Torn
            <4> HIDE DEF e
            <4>3. Append(made \o Stored(Files, n), e) = (made \o Stored(Files, n)) \o <<e>>
                BY <1>4, StoredThen
            <4> QED
                BY <1>2, <4>1, <4>2, <4>3
        <3> QED
            BY <2>2, <3>1, <3>2
    <2>4. StoredFirst'
        BY <1>8, <2>1, <2>3 DEF StoredFirst, file
    <2>5. Told'
        BY <1>8, <2>1, <2>4 DEF Told
    <2> QED
        BY <2>1, <2>5 DEF EInv
<1> QED
    BY <1>9, <1>10

(* remove_file removes the target or nothing.                              *)
LEMMA RemoveTold ==
    ASSUME TracesKept, RInv, EInv, RemoveFile
    PROVE  EInv'
<1>1. pc = "remove_file" /\ acts = <<>> /\ req.method = "DELETE" /\ target' = target
    BY DEF RemoveFile, TracesKept, EInv
<1>2. Resolve(target) = target
    BY <1>1, ResolveStraight DEF RInv, TargetOK, AboutTarget, Within
<1>3. \/ Change("remove", target, Absent) /\ Reply(204)
      \/ Reply(500) /\ acts' = acts
    BY DEF RemoveFile, Untouched
<1>4. CASE Change("remove", target, Absent) /\ Reply(204)
    <2>1. acts' = <<[op |-> "remove", path |-> target, entry |-> Absent]>>
        BY <1>1, <1>2, <1>4 DEF Change, Note
    <2>2. pc' = "answered" /\ resp'.status = 204 /\ req' = req
        BY <1>4, RepliesAre, AnswerIs
    <2>3. Told'
        BY <1>1, <2>1, <2>2 DEF Told
    <2> QED
        BY <2>2, <2>3 DEF EInv
<1>5. CASE Reply(500) /\ acts' = acts
    BY <1>1, <1>5, SilentTold
<1> QED
    BY <1>3, <1>4, <1>5

(* Before the first request there is no answer.                            *)
LEMMA ToldInitOK == Init => EInv
BY DEF Init, RouterInit, EInv

(* Every step of the application keeps what the answer says true.          *)
LEMMA ToldNextOK == TracesKept /\ RInv /\ EInv /\ [Next]_vars => EInv'
<1> SUFFICES ASSUME TracesKept, RInv, EInv, [Next]_vars PROVE EInv'
    OBVIOUS
<1>1. ASSUME NEW q \in Requests, Ask(q) PROVE EInv'
    BY <1>1 DEF Ask, Arrive, EInv
<1>2. ASSUME NEW c \in Clients, NEW sent \in {NoCookie, jar[c]}, NEW arrives \in BOOLEAN,
             CountVisit(c, sent, arrives)
      PROVE  EInv'
    BY <1>2 DEF CountVisit, Done, EInv
<1>3. ASSUME UNCHANGED <<pc, req, target, todo, resp, acts>> PROVE EInv'
    <2>1. Files' = Files /\ Mkdirs' = Mkdirs /\ Entitled' = Entitled /\ R' = R
        BY <1>3, SameFiles, SameRoute
    <2>2. StoredSome' = StoredSome /\ StoredAll' = StoredAll /\ StoredFirst' = StoredFirst
        BY <1>3, <2>1 DEF StoredSome, StoredAll, StoredFirst
    <2>3. Told' = Told
        BY <1>3, <2>1, <2>2 DEF Told, Ran
    <2> QED
        BY <1>3, <2>1, <2>2, <2>3 DEF EInv
<1>4. CASE Tick \/ UNCHANGED vars
    BY <1>3, <1>4 DEF Tick, vars, routerVars
<1>5. CASE Handle
    <2>1. RouterStep
        BY <1>5 DEF Handle
    <2>2. CASE NoRoute \/ Redirect \/ NotAllowed \/ TryCgi \/ Unservable \/ ServeGet
               \/ GetMetadata \/ GetIndex \/ Canonicalize \/ HandleDelete \/ DeleteMetadata
        BY <2>2, LookedTold
    <2>3. CASE ServeFile \/ AutoIndex \/ Execute
        BY <2>3, ReadTold
    <2>4. CASE HandlePost
        BY <2>4, HandlePostTold
    <2>5. CASE CreateDirs
        BY <2>5, CreateDirsTold
    <2>6. CASE WriteFile \/ WriteFails
        BY <2>6, WriteTold
    <2>7. CASE RemoveFile
        BY <2>7, RemoveTold
    <2>8. CASE Meddle
        BY <1>3, <2>8 DEF Meddle
    <2> QED
        BY <2>1, <2>2, <2>3, <2>4, <2>5, <2>6, <2>7, <2>8 DEF RouterStep
<1> QED
    BY <1>1, <1>2, <1>4, <1>5 DEF Next

(* A path belongs to one route.                                            *)
LEMMA OneRoute ==
    ASSUME NEW path \in Seq(STRING), NEW i \in DOMAIN Routes, NEW j \in DOMAIN Routes,
           RoutesTo(i, path), RoutesTo(j, path)
    PROVE  i = j
<1> DEFINE a == Routes[i].path
           b == Routes[j].path
<1>1. a \in Seq(STRING) /\ b \in Seq(STRING) /\ i \in Nat /\ j \in Nat
    <2>1. DOMAIN Routes = 1 .. Len(Routes) /\ Len(Routes) \in Nat
        BY RouterAssumption, LenProperties DEF IsSeq
    <2> QED
        BY <2>1, RouterAssumption
<1>2. /\ IsPrefix(a, path) /\ IsPrefix(b, path)
      /\ ~IsStrictPrefix(a, b) /\ ~IsStrictPrefix(b, a)
      /\ b = a => i <= j /\ j <= i
    BY DEF RoutesTo
<1> HIDE DEF a, b
<1>3. /\ Len(a) \in Nat /\ Len(b) \in Nat /\ Len(path) \in Nat
      /\ \A k \in 1 .. Len(a) : a[k] = path[k]
      /\ \A k \in 1 .. Len(b) : b[k] = path[k]
    BY <1>1, <1>2, PrefixAgrees, LenProperties
<1>4. CASE Len(a) <= Len(b)
    <2>1. \A k \in 1 .. Len(a) : a[k] = b[k]
        BY <1>3, <1>4
    <2>2. IsPrefix(a, b)
        BY <1>1, <1>4, <2>1, PrefixAgrees
    <2> QED
        BY <1>1, <1>2, <2>2 DEF IsStrictPrefix
<1>5. CASE Len(b) <= Len(a)
    <2>1. \A k \in 1 .. Len(b) : b[k] = a[k]
        BY <1>3, <1>5
    <2>2. IsPrefix(b, a)
        BY <1>1, <1>5, <2>1, PrefixAgrees
    <2> QED
        BY <1>1, <1>2, <2>2 DEF IsStrictPrefix
<1> QED
    BY <1>3, <1>4, <1>5

(* The files that the router sees are the files that the client asked for. *)
LEMMA AskedFiles ==
    ASSUME Entitled, IsMade(req)
    PROVE  Asked = Files
<1> DEFINE best == BestRoute(req.path)
           i == CHOOSE j \in DOMAIN Routes : RoutesTo(j, req.path)
           root == CHOOSE r \in Routes[i].root : TRUE
           rel == SubSeq(req.path, Len(Routes[i].path) + 1, Len(req.path))
<1>1. best \in DOMAIN Routes /\ RoutesTo(best, req.path) /\ Straight(Root)
    BY RouteFound DEF Entitled
<1>2. req.path \in Seq(STRING)
    BY RouterAssumption DEF Entitled
<1> HIDE DEF best
<1>3. i \in DOMAIN Routes /\ RoutesTo(i, req.path)
    BY <1>1
<1> HIDE DEF i
<1>4. i = best
    BY <1>1, <1>2, <1>3, OneRoute
<1>5. root = Root /\ rel = Rel
    BY <1>4 DEF best, Root, Rel, R
<1>6. Asked = IF req.multipart THEN Wanted(req.sent, root)
              ELSE <<[path |-> root \o rel, data |-> req.body]>>
    BY DEF Asked, i
<1> HIDE DEF root, rel
<1>7. CASE req.multipart
    <2>1. /\ IsSeq(req.sent) /\ \A k \in DOMAIN req.sent : IsPart(req.sent[k])
          /\ req.body = Encode(req.sent)
        BY <1>7 DEF IsMade
    <2>2. Root \in Seq(STRING)
        BY <1>1 DEF Straight
    <2>3. PartFiles(Encode(req.sent), Root) = Wanted(req.sent, Root)
        BY <2>1, <2>2, UploadUnderstood
    <2> QED
        BY <1>5, <1>6, <1>7, <2>1, <2>3 DEF Files
<1>8. CASE ~req.multipart
    BY <1>5, <1>6, <1>8 DEF Files
<1> QED
    BY <1>7, <1>8

(* The answer tells what happened to the files that were asked for, for    *)
(* any upload that a client makes, whatever fails and whatever others do.  *)
THEOREM AnswersTellEffects == Spec => []EffectsAsAnswered
<1>1. RInv /\ EInv => EffectsAsAnswered
    <2> SUFFICES ASSUME RInv, EInv, pc = "answered", ~Ran, ~Redirected, IsMade(req)
                 PROVE  /\ resp.status = 201 =>
                             \E made \in Mkdirs : acts = made \o Stored(Asked, Len(Asked))
                        /\ resp.status = 500 /\ acts # <<>> =>
                             \E made \in Mkdirs, n \in 0 .. Len(Asked) - 1 :
                                \E torn \in Torn(Asked[n + 1]) :
                                   acts = made \o Stored(Asked, n) \o torn
                        /\ resp.status = 204 =>
                             /\ acts = <<[op |-> "remove", path |-> target, entry |-> Absent]>>
                             /\ req.method = "DELETE"
        BY DEF EffectsAsAnswered
    <2>1. req \in Requests
        BY DEF RInv
    <2>2. ASSUME BestRoute(req.path) # 0, R.redirect # {} PROVE FALSE
        <3>1. BestRoute(req.path) \in DOMAIN Routes /\ RoutesTo(BestRoute(req.path), req.path)
            BY <2>1, <2>2, RouteFound
        <3> QED
            BY <2>2, <3>1 DEF Redirected, R
    <2>3. /\ resp.status = 201 => Entitled /\ StoredAll
          /\ resp.status = 500 /\ acts # <<>> => Entitled /\ StoredFirst
          /\ resp.status = 204 =>
               /\ acts = <<[op |-> "remove", path |-> target, entry |-> Absent]>>
               /\ req.method = "DELETE"
        BY <2>2 DEF EInv, Told
    <2>4. Entitled => Asked = Files
        BY AskedFiles
    <2> QED
        BY <2>3, <2>4 DEF StoredAll, StoredFirst
<1>2. SInv /\ RInv /\ EInv /\ [Next]_vars => EInv'
    BY ToldNextOK DEF SInv
<1> QED
    BY <1>1, <1>2, ToldInitOK, SessionInvariance, RouterInvariance, PTL DEF Spec

-----------------------------------------------------------------------------
(***************************************************************************)
(* What scripts print.                                                     *)
(***************************************************************************)

Grown(kept, e, S) == IF e \in S THEN Append(kept, e) ELSE kept

(* What is kept of a sequence grows with it.                               *)
LEMMA OnlyLaws ==
    ASSUME NEW E, NEW S
    PROVE  /\ Only(<<>>, S) = <<>>
           /\ \A s \in Seq(E) : Only(s, S) \in Seq(E)
           /\ \A s \in Seq(E), e \in E :
                 Only(Append(s, e), S) = Grown(Only(s, S), e, S)
<1> DEFINE T == Seq(E)
           step == [v \in T |-> [e \in E |-> Grown(v, e, S)]]
<1>0. ASSUME NEW v \in T, NEW e \in E PROVE Grown(v, e, S) \in T
    BY AppendProperties DEF Grown
<1>1. IsStep(step, E, T) /\ <<>> \in T
    <2>1. <<>> \in T
        OBVIOUS
    <2> HIDE DEF T
    <2> QED
        BY <1>0, <2>1 DEF IsStep
<1>2. \A v \in T, e \in E : Grown(v, e, S) \in T /\ step[v][e] = Grown(v, e, S)
    BY <1>0
<1>3. ASSUME NEW s \in Seq(E) PROVE Only(s, S) = FoldOf(T, step, <<>>, s)
    <2> DEFINE n == Len(s)
               X == SUBSET (1 .. n)
               Turn(g, t) == IF t = {} THEN <<>>
                             ELSE Grown(g[t \ {Greatest(t)}], s[Greatest(t)], S)
               iter == CHOOSE g : g = [t \in X |-> Turn(g, t)]
    <2>1. n \in Nat /\ DOMAIN s = 1 .. n /\ \A i \in 1 .. n : s[i] \in E
        BY LenProperties, ElementOfSeq
    <2>2. Only(s, S) = iter[1 .. n]
        BY <2>1 DEF Only, Grown, FoldLeft, MapThenFoldSet, Max, Greatest
    <2>3. \A t \in X : t # {} => Greatest(t) \in 1 .. n /\ t \ {Greatest(t)} \in X
        BY <2>1, GreatestLowers
    <2> HIDE DEF step, T
    <2>4. PICK f \in [X -> T] : Table(f, step, <<>>, s)
        BY <1>1, TableExists
    <2>5. ASSUME NEW t \in X PROVE f[t] = Turn(f, t)
        <3>1. CASE t = {}
            BY <2>4, <3>1 DEF Table
        <3>2. CASE t # {}
            <4>1. f[t] = step[f[t \ {Greatest(t)}]][s[Greatest(t)]]
                BY <2>4, <3>2 DEF Table
            <4>2. f[t \ {Greatest(t)}] \in T /\ s[Greatest(t)] \in E
                BY <2>1, <2>3, <2>4, <3>2
            <4> QED
                BY <1>2, <3>2, <4>1, <4>2
        <3> QED
            BY <3>1, <3>2
    <2>6. iter = [t \in X |-> Turn(iter, t)]
        <3>1. f = [t \in X |-> f[t]]
            OBVIOUS
        <3> HIDE DEF X, Turn
        <3>2. f = [t \in X |-> Turn(f, t)]
            BY <2>5, <3>1
        <3> QED
            BY <3>2
    <2> HIDE DEF iter
    <2>7. /\ iter[{}] = <<>>
          /\ \A t \in X : t # {} => iter[t] = Grown(iter[t \ {Greatest(t)}], s[Greatest(t)], S)
        BY <2>6
    <2>8. ASSUME NEW t \in X, t # {}, iter[t \ {Greatest(t)}] \in T
          PROVE  iter[t] \in T /\ iter[t] = step[iter[t \ {Greatest(t)}]][s[Greatest(t)]]
        <3>1. s[Greatest(t)] \in E
            BY <2>1, <2>3, <2>8
        <3> QED
            BY <1>2, <2>7, <2>8, <3>1
    <2> HIDE DEF Turn
    <2>9. \A t \in X : iter[t] \in T
        <3>1. Keeps(iter, n, T)
            BY <1>1, <2>7, <2>8 DEF Keeps
        <3> QED
            BY <2>1, <3>1, FoldInduction
    <2>10. Table(iter, step, <<>>, s)
        BY <2>3, <2>7, <2>8, <2>9 DEF Table
    <2> QED
        BY <1>1, <2>2, <2>10, FoldIs
<1> HIDE DEF step, T
<1>4. /\ FoldOf(T, step, <<>>, <<>>) = <<>>
      /\ \A s \in Seq(E) : FoldOf(T, step, <<>>, s) \in T
      /\ \A s \in Seq(E), e \in E :
            FoldOf(T, step, <<>>, Append(s, e)) = step[FoldOf(T, step, <<>>, s)][e]
    BY <1>1, FoldLaws
<1>5. <<>> \in Seq(E) /\ \A s \in Seq(E), e \in E : Append(s, e) \in Seq(E)
    BY EmptySeq, AppendProperties
<1>6. Only(<<>>, S) = <<>>
    BY <1>3, <1>4, <1>5
<1>7. ASSUME NEW s \in Seq(E)
      PROVE  /\ Only(s, S) \in T
             /\ \A e \in E : Only(Append(s, e), S) = Grown(Only(s, S), e, S)
    <2>1. Only(s, S) = FoldOf(T, step, <<>>, s) /\ FoldOf(T, step, <<>>, s) \in T
        BY <1>3, <1>4
    <2>2. ASSUME NEW e \in E
          PROVE  Only(Append(s, e), S) = Grown(Only(s, S), e, S)
        <3>1. Only(Append(s, e), S) = FoldOf(T, step, <<>>, Append(s, e))
            BY <1>3, <1>5
        <3>2. FoldOf(T, step, <<>>, Append(s, e)) = step[FoldOf(T, step, <<>>, s)][e]
            BY <1>4
        <3> QED
            BY <1>2, <2>1, <3>1, <3>2
    <2> QED
        BY <2>1, <2>2
<1> QED
    BY <1>6, <1>7 DEF T

LinesGrow(E, B, eol) ==
    /\ Lines(<<>>, eol) = <<>>
    /\ \A s \in Seq(B) : Lines(s, eol) \in Seq(E)
    /\ \A s \in Seq(B), e \in B : Lines(Append(s, e), eol) = Lines(s, eol) \o <<e>> \o eol

(* Lines are printed one by one.                                           *)
LEMMA LinesLaws ==
    ASSUME NEW E, NEW B \in SUBSET E, NEW eol \in Seq(E)
    PROVE  LinesGrow(E, B, eol)
<1> DEFINE T == Seq(E)
           step == [v \in T |-> [e \in B |-> v \o <<e>> \o eol]]
<1>0. ASSUME NEW v \in T, NEW e \in B PROVE v \o <<e>> \o eol \in T
    <2>1. <<e>> \in Seq(E)
        OBVIOUS
    <2>2. v \o <<e>> \in Seq(E)
        BY <2>1, ConcatProperties
    <2> QED
        BY <2>2, ConcatProperties
<1>1. IsStep(step, B, T) /\ <<>> \in T
    <2>1. <<>> \in T
        OBVIOUS
    <2> HIDE DEF T
    <2> QED
        BY <1>0, <2>1 DEF IsStep
<1>2. \A v \in T, e \in B : v \o <<e>> \o eol \in T /\ step[v][e] = v \o <<e>> \o eol
    BY <1>0
<1>3. ASSUME NEW s \in Seq(B) PROVE Lines(s, eol) = FoldOf(T, step, <<>>, s)
    <2> DEFINE n == Len(s)
               X == SUBSET (1 .. n)
               Turn(g, t) == IF t = {} THEN <<>>
                             ELSE g[t \ {Greatest(t)}] \o <<s[Greatest(t)]>> \o eol
               iter == CHOOSE g : g = [t \in X |-> Turn(g, t)]
    <2>1. n \in Nat /\ DOMAIN s = 1 .. n /\ \A i \in 1 .. n : s[i] \in B
        BY LenProperties, ElementOfSeq
    <2>2. Lines(s, eol) = iter[1 .. n]
        BY <2>1 DEF Lines, FoldLeft, MapThenFoldSet, Max, Greatest
    <2>3. \A t \in X : t # {} => Greatest(t) \in 1 .. n /\ t \ {Greatest(t)} \in X
        BY <2>1, GreatestLowers
    <2> HIDE DEF step, T
    <2>4. PICK f \in [X -> T] : Table(f, step, <<>>, s)
        BY <1>1, TableExists
    <2>5. ASSUME NEW t \in X PROVE f[t] = Turn(f, t)
        <3>1. CASE t = {}
            BY <2>4, <3>1 DEF Table
        <3>2. CASE t # {}
            <4>1. f[t] = step[f[t \ {Greatest(t)}]][s[Greatest(t)]]
                BY <2>4, <3>2 DEF Table
            <4>2. f[t \ {Greatest(t)}] \in T /\ s[Greatest(t)] \in B
                BY <2>1, <2>3, <2>4, <3>2
            <4> QED
                BY <1>2, <3>2, <4>1, <4>2
        <3> QED
            BY <3>1, <3>2
    <2>6. iter = [t \in X |-> Turn(iter, t)]
        <3>1. f = [t \in X |-> f[t]]
            OBVIOUS
        <3> HIDE DEF X, Turn
        <3>2. f = [t \in X |-> Turn(f, t)]
            BY <2>5, <3>1
        <3> QED
            BY <3>2
    <2> HIDE DEF iter
    <2>7. /\ iter[{}] = <<>>
          /\ \A t \in X : t # {} => iter[t] = iter[t \ {Greatest(t)}] \o <<s[Greatest(t)]>> \o eol
        BY <2>6
    <2>8. ASSUME NEW t \in X, t # {}, iter[t \ {Greatest(t)}] \in T
          PROVE  iter[t] \in T /\ iter[t] = step[iter[t \ {Greatest(t)}]][s[Greatest(t)]]
        <3>1. s[Greatest(t)] \in B
            BY <2>1, <2>3, <2>8
        <3> QED
            BY <1>2, <2>7, <2>8, <3>1
    <2> HIDE DEF Turn
    <2>9. \A t \in X : iter[t] \in T
        <3>1. Keeps(iter, n, T)
            BY <1>1, <2>7, <2>8 DEF Keeps
        <3> QED
            BY <2>1, <3>1, FoldInduction
    <2>10. Table(iter, step, <<>>, s)
        BY <2>3, <2>7, <2>8, <2>9 DEF Table
    <2> QED
        BY <1>1, <2>2, <2>10, FoldIs
<1> HIDE DEF step, T
<1>4. /\ FoldOf(T, step, <<>>, <<>>) = <<>>
      /\ \A s \in Seq(B) : FoldOf(T, step, <<>>, s) \in T
      /\ \A s \in Seq(B), e \in B :
            FoldOf(T, step, <<>>, Append(s, e)) = step[FoldOf(T, step, <<>>, s)][e]
    BY <1>1, FoldLaws
<1>5. <<>> \in Seq(B) /\ \A s \in Seq(B), e \in B : Append(s, e) \in Seq(B)
    BY EmptySeq, AppendProperties
<1>6. Lines(<<>>, eol) = <<>>
    BY <1>3, <1>4, <1>5
<1>7. ASSUME NEW s \in Seq(B)
      PROVE  /\ Lines(s, eol) \in T
             /\ \A e \in B : Lines(Append(s, e), eol) = Lines(s, eol) \o <<e>> \o eol
    <2>1. Lines(s, eol) = FoldOf(T, step, <<>>, s) /\ FoldOf(T, step, <<>>, s) \in T
        BY <1>3, <1>4
    <2>2. ASSUME NEW e \in B
          PROVE  Lines(Append(s, e), eol) = Lines(s, eol) \o <<e>> \o eol
        <3>1. Lines(Append(s, e), eol) = FoldOf(T, step, <<>>, Append(s, e))
            BY <1>3, <1>5
        <3>2. FoldOf(T, step, <<>>, Append(s, e)) = step[FoldOf(T, step, <<>>, s)][e]
            BY <1>4
        <3> QED
            BY <1>2, <2>1, <3>1, <3>2
    <2> QED
        BY <2>1, <2>2
<1> QED
    BY <1>6, <1>7 DEF T, LinesGrow

(* The elements of two sequences in a row.                                 *)
Joined(t, E, a, b) ==
    /\ t \in Seq(E)
    /\ Len(a) \in Nat /\ Len(b) \in Nat /\ Len(t) = Len(a) + Len(b)
    /\ \A k \in 1 .. Len(a) : t[k] = a[k]
    /\ \A k \in 1 .. Len(b) : t[Len(a) + k] = b[k]

(* ... and each of them, cut out again.                                    *)
LEMMA JoinExact ==
    ASSUME NEW E, NEW a \in Seq(E), NEW b \in Seq(E), NEW t, t = a \o b
    PROVE  /\ Joined(t, E, a, b)
           /\ SubSeq(t, 1, Len(a)) = a
           /\ SubSeq(t, Len(a) + 1, Len(t)) = b
<1>1. Len(a) \in Nat /\ Len(b) \in Nat
    BY LenProperties
<1>2. /\ t \in Seq(E) /\ Len(t) = Len(a) + Len(b)
      /\ \A k \in 1 .. Len(a) + Len(b) : t[k] = IF k <= Len(a) THEN a[k] ELSE b[k - Len(a)]
    BY ConcatProperties
<1>3. ASSUME NEW k \in 1 .. Len(a) PROVE t[k] = a[k]
    <2>1. k \in 1 .. Len(a) + Len(b) /\ k <= Len(a)
        BY <1>1
    <2> QED
        BY <1>2, <2>1
<1>4. ASSUME NEW k \in 1 .. Len(b) PROVE t[Len(a) + k] = b[k]
    <2>1. Len(a) + k \in 1 .. Len(a) + Len(b) /\ ~(Len(a) + k <= Len(a)) /\ Len(a) + k - Len(a) = k
        BY <1>1
    <2> QED
        BY <1>2, <2>1
<1>5. Joined(t, E, a, b)
    BY <1>1, <1>2, <1>3, <1>4 DEF Joined
<1>6. SubSeq(t, 1, Len(a)) = a
    <2> DEFINE s == SubSeq(t, 1, Len(a))
    <2>1. \A i \in 1 .. Len(a) : t[i] \in E
        BY <1>3, ElementOfSeq
    <2>2. /\ s \in Seq(E)
          /\ Len(s) = IF 1 <= Len(a) THEN Len(a) - 1 + 1 ELSE 0
          /\ \A i \in 1 .. Len(a) - 1 + 1 : s[i] = t[1 + i - 1]
        BY <1>1, <2>1, SubSeqProperties
    <2> HIDE DEF s
    <2>3. Len(s) = Len(a)
        BY <1>1, <2>2
    <2>4. ASSUME NEW i \in 1 .. Len(a) PROVE s[i] = a[i]
        <3>1. i \in 1 .. Len(a) - 1 + 1 /\ 1 + i - 1 = i
            BY <1>1
        <3> QED
            BY <1>3, <2>2, <3>1
    <2>5. s = a
        BY <2>2, <2>3, <2>4, SeqEqual
    <2> QED
        BY <2>5 DEF s
<1>7. SubSeq(t, Len(a) + 1, Len(t)) = b
    <2> DEFINE s == SubSeq(t, Len(a) + 1, Len(a) + Len(b))
    <2>1. \A i \in Len(a) + 1 .. Len(a) + Len(b) : t[i] \in E
        <3> SUFFICES ASSUME NEW i \in Len(a) + 1 .. Len(a) + Len(b) PROVE t[i] \in E
            OBVIOUS
        <3>1. i \in 1 .. Len(t)
            BY <1>1, <1>2
        <3> QED
            BY <1>2, <3>1, ElementOfSeq
    <2>2. /\ s \in Seq(E)
          /\ Len(s) = IF Len(a) + 1 <= Len(a) + Len(b) THEN Len(a) + Len(b) - (Len(a) + 1) + 1 ELSE 0
          /\ \A i \in 1 .. Len(a) + Len(b) - (Len(a) + 1) + 1 : s[i] = t[Len(a) + 1 + i - 1]
        BY <1>1, <2>1, SubSeqProperties
    <2> HIDE DEF s
    <2>3. Len(s) = Len(b)
        BY <1>1, <2>2
    <2>4. ASSUME NEW i \in 1 .. Len(b) PROVE s[i] = b[i]
        <3>1. i \in 1 .. Len(a) + Len(b) - (Len(a) + 1) + 1 /\ Len(a) + 1 + i - 1 = Len(a) + i
            BY <1>1
        <3> QED
            BY <1>4, <2>2, <3>1
    <2>5. s = b
        BY <2>2, <2>3, <2>4, SeqEqual
    <2> QED
        BY <1>2, <2>5 DEF s
<1> QED
    BY <1>5, <1>6, <1>7

LineEnds == {"cr", "lf"}
Eols == {CRLF, <<"lf">>}

(* Line ends are no fields.                                                *)
LEMMA OnlyWithoutEol ==
    ASSUME NEW E, LineEnds \subseteq E, NEW S, LineEnds \cap S = {}, NEW x \in Seq(E), NEW eol \in Eols
    PROVE  x \o eol \in Seq(E) /\ Only(x \o eol, S) = Only(x, S)
<1>1. "cr" \in E /\ "lf" \in E /\ "cr" \notin S /\ "lf" \notin S
    BY DEF LineEnds
<1>2. ASSUME NEW s \in Seq(E), NEW e \in {"cr", "lf"}
      PROVE  Append(s, e) = s \o <<e>> /\ Append(s, e) \in Seq(E) /\ Only(Append(s, e), S) = Only(s, S)
    <2>1. e \in E /\ e \notin S
        BY <1>1
    <2>2. Append(s, e) = s \o <<e>> /\ Append(s, e) \in Seq(E)
        BY <2>1, AppendIsConcat, AppendProperties
    <2>3. Only(Append(s, e), S) = Grown(Only(s, S), e, S)
        BY <2>1, OnlyLaws
    <2> QED
        BY <2>1, <2>2, <2>3 DEF Grown
<1>3. CASE eol = <<"lf">>
    BY <1>2, <1>3
<1>4. CASE eol = CRLF
    <2> DEFINE y == Append(x, "cr")
               z == Append(y, "lf")
    <2>1. y = x \o <<"cr">> /\ y \in Seq(E) /\ Only(y, S) = Only(x, S)
        BY <1>2
    <2> HIDE DEF y
    <2>2. z = y \o <<"lf">> /\ z \in Seq(E) /\ Only(z, S) = Only(y, S)
        BY <1>2, <2>1
    <2> HIDE DEF z
    <2> DEFINE cr == <<"cr">>
               lf == <<"lf">>
    <2>3. cr \in Seq(E) /\ lf \in Seq(E) /\ CRLF = cr \o lf
        BY <1>1 DEF CRLF
    <2> HIDE DEF cr, lf
    <2>4. (x \o cr) \o lf = x \o (cr \o lf)
        BY <2>3, ConcatAssociative
    <2>5. z = x \o eol
        BY <1>4, <2>1, <2>2, <2>3, <2>4 DEF cr, lf
    <2> QED
        BY <2>1, <2>2, <2>5
<1> QED
    BY <1>3, <1>4 DEF Eols

(* Printed lines: nowhere but at the end is a line end followed by one.    *)
Broken(text, eol) ==
    /\ \A k \in 1 .. Len(text) - 1 : text[k] = "lf" => text[k + 1] \notin LineEnds
    /\ eol = <<"lf">> => \A k \in 1 .. Len(text) : text[k] # "cr"

LineMore(t, E, x, line, eol) ==
    /\ t \in Seq(E)
    /\ Len(t) = Len(x) + 1 + Len(eol)
    /\ \A k \in 1 .. Len(x) : t[k] = x[k]
    /\ t[Len(x) + 1] = line
    /\ eol = <<"lf">> => t[Len(x) + 2] = "lf"
    /\ eol = CRLF => t[Len(x) + 2] = "cr" /\ t[Len(x) + 3] = "lf"

(* The elements of a text with one more line.                              *)
LEMMA LineAdded ==
    ASSUME NEW E, LineEnds \subseteq E, NEW x \in Seq(E), NEW line \in E, NEW eol \in Eols,
           NEW t, t = x \o <<line>> \o eol
    PROVE  LineMore(t, E, x, line, eol)
<1> DEFINE y == x \o <<line>>
<1>1. /\ Len(x) \in Nat /\ eol \in Seq(E)
      /\ \/ eol = <<"lf">> /\ Len(eol) = 1 /\ eol[1] = "lf"
         \/ eol = CRLF /\ Len(eol) = 2 /\ eol[1] = "cr" /\ eol[2] = "lf"
    <2>1. Len(x) \in Nat
        BY LenProperties
    <2>2. eol \in Seq(E)
        <3>1. "cr" \in E /\ "lf" \in E
            BY DEF LineEnds
        <3>2. <<"lf">> \in Seq(E) /\ CRLF \in Seq(E)
            BY <3>1 DEF CRLF
        <3> QED
            BY <3>2 DEF Eols
    <2> QED
        BY <2>1, <2>2 DEF Eols, CRLF
<1>2. y \in Seq(E)
    <2>1. <<line>> \in Seq(E)
        OBVIOUS
    <2> QED
        BY <2>1, ConcatProperties
<1>3. Len(y) = Len(x) + 1 /\ y[Len(x) + 1] = line /\ \A k \in 1 .. Len(x) : y[k] = x[k]
    <2>1. y = Append(x, line)
        BY AppendIsConcat
    <2> HIDE DEF y
    <2> QED
        BY <2>1, AppendProperties
<1>4. t = y \o eol
    OBVIOUS
<1> HIDE DEF y
<1>5. Joined(t, E, y, eol)
    BY <1>1, <1>2, <1>4, JoinExact
<1>6. /\ t \in Seq(E) /\ Len(t) = Len(x) + 1 + Len(eol)
      /\ \A k \in 1 .. Len(y) : t[k] = y[k]
      /\ \A k \in 1 .. Len(eol) : t[Len(x) + 1 + k] = eol[k]
    BY <1>3, <1>5 DEF Joined
<1>7. \A k \in 1 .. Len(x) : t[k] = x[k]
    BY <1>1, <1>3, <1>6
<1>8. t[Len(x) + 1] = line
    BY <1>1, <1>3, <1>6
<1>9. Len(x) + 1 + 1 = Len(x) + 2 /\ Len(x) + 1 + 2 = Len(x) + 3
    BY <1>1
<1>10. eol = <<"lf">> => t[Len(x) + 2] = "lf"
    <2>1. eol = <<"lf">> => 1 \in 1 .. Len(eol) /\ eol[1] = "lf"
        OBVIOUS
    <2> QED
        BY <1>6, <1>9, <2>1
<1>11. eol = CRLF => t[Len(x) + 2] = "cr" /\ t[Len(x) + 3] = "lf"
    <2>1. eol = CRLF => 1 \in 1 .. Len(eol) /\ 2 \in 1 .. Len(eol) /\ eol[1] = "cr" /\ eol[2] = "lf"
        BY DEF CRLF
    <2> QED
        BY <1>6, <1>9, <2>1
<1> QED
    BY <1>6, <1>7, <1>8, <1>10, <1>11 DEF LineMore

PrintedWhole(text, lines, eol, B) ==
    /\ Broken(text, eol)
    /\ \A S : LineEnds \cap S = {} => Only(text, S) = Only(lines, S)
    /\ lines # <<>> => \E x \in Seq(B \cup LineEnds) : text = x \o eol

(* Lines are printed whole, each with its line end, and only they are      *)
(* fields.                                                                 *)
LEMMA LinesPrinted ==
    ASSUME NEW B, LineEnds \cap B = {}, NEW eol \in Eols
    PROVE  \A lines \in Seq(B) : PrintedWhole(Lines(lines, eol), lines, eol, B)
<1> DEFINE E == B \cup LineEnds
           Same(lines) == \A S : LineEnds \cap S = {} => Only(Lines(lines, eol), S) = Only(lines, S)
           Ended(lines) == lines # <<>> => \E x \in Seq(E) : Lines(lines, eol) = x \o eol
           Q == {lines \in Seq(B) : Broken(Lines(lines, eol), eol) /\ Same(lines) /\ Ended(lines)}
<1>1. LineEnds \subseteq E /\ B \in SUBSET E /\ eol \in Seq(E)
    <2>1. "cr" \in E /\ "lf" \in E
        BY DEF LineEnds
    <2> HIDE DEF E
    <2>2. <<"lf">> \in Seq(E) /\ CRLF \in Seq(E)
        BY <2>1 DEF CRLF
    <2> QED
        BY <2>2 DEF Eols, E
<1> HIDE DEF E
<1>2. /\ Lines(<<>>, eol) = <<>>
      /\ \A s \in Seq(B) : Lines(s, eol) \in Seq(E)
      /\ \A s \in Seq(B), e \in B : Lines(Append(s, e), eol) = Lines(s, eol) \o <<e>> \o eol
    <2>1. LinesGrow(E, B, eol)
        BY <1>1, LinesLaws
    <2> QED
        BY <2>1 DEF LinesGrow
<1>3. <<>> \in Q
    <2>1. Broken(<<>>, eol)
        BY DEF Broken
    <2>2. <<>> \in Seq(B)
        BY EmptySeq
    <2> QED
        BY <1>2, <2>1, <2>2
<1>4. ASSUME NEW s \in Seq(B), NEW e \in B, s \in Q
      PROVE  Append(s, e) \in Q
    <2> DEFINE x == Lines(s, eol)
               y == x \o <<e>>
               t == x \o <<e>> \o eol
    <2>1. /\ x \in Seq(E) /\ e \in E /\ e \notin LineEnds /\ Lines(Append(s, e), eol) = t
          /\ Broken(x, eol) /\ Same(s)
        BY <1>1, <1>2, <1>4
    <2>2. Append(s, e) \in Seq(B) /\ s \in Seq(E)
        BY <1>1, AppendProperties, SeqMonotonic
    <2> HIDE DEF x
    <2>3. y = Append(x, e) /\ y \in Seq(E)
        BY <2>1, AppendIsConcat, AppendProperties
    <2>4. Ended(Append(s, e))
        BY <2>1, <2>3
    <2>5. Same(Append(s, e))
        <3> SUFFICES ASSUME NEW S, LineEnds \cap S = {} PROVE Only(t, S) = Only(Append(s, e), S)
            BY <2>1
        <3>1. Only(t, S) = Only(y, S)
            <4> HIDE DEF y
            <4>1. Only(y \o eol, S) = Only(y, S)
                BY <1>1, <2>3, OnlyWithoutEol
            <4> QED
                BY <4>1 DEF y
        <3>5. \A z \in Seq(E), a \in E : Only(Append(z, a), S) = Grown(Only(z, S), a, S)
            BY OnlyLaws
        <3>6. x \in Seq(E) /\ s \in Seq(E) /\ e \in E
            BY <2>1, <2>2
        <3>2. Only(y, S) = Grown(Only(x, S), e, S)
            BY <2>3, <3>5, <3>6
        <3>3. Only(Append(s, e), S) = Grown(Only(s, S), e, S)
            BY <3>5, <3>6
        <3>4. Only(x, S) = Only(s, S)
            BY <2>1 DEF x
        <3> QED
            BY <3>1, <3>2, <3>3, <3>4
    <2>6. Broken(t, eol)
        <3>1. /\ t \in Seq(E)
              /\ Len(t) = Len(x) + 1 + Len(eol)
              /\ \A k \in 1 .. Len(x) : t[k] = x[k]
              /\ t[Len(x) + 1] = e
              /\ eol = <<"lf">> => t[Len(x) + 2] = "lf"
              /\ eol = CRLF => t[Len(x) + 2] = "cr" /\ t[Len(x) + 3] = "lf"
            <4>1. LineEnds \subseteq E /\ x \in Seq(E) /\ e \in E
                BY <1>1, <2>1
            <4>2. t = x \o <<e>> \o eol
                OBVIOUS
            <4> HIDE DEF t, y
            <4>3. LineMore(t, E, x, e, eol)
                BY <4>1, <4>2, LineAdded
            <4> QED
                BY <4>3 DEF LineMore
        <3> HIDE DEF t
        <3>5. Len(t) = Len(x) + 1 + Len(eol)
            BY <3>1
        <3>2. /\ Len(x) \in Nat
              /\ \/ eol = <<"lf">> /\ Len(eol) = 1 /\ eol # CRLF
                 \/ eol = CRLF /\ Len(eol) = 2 /\ eol # <<"lf">>
            BY <2>1, LenProperties DEF Eols, CRLF
        <3>3. ASSUME NEW k \in 1 .. Len(t) - 1, t[k] = "lf" PROVE t[k + 1] \notin LineEnds
            <4>1. CASE k \in 1 .. Len(x) - 1
                <5>1. k \in 1 .. Len(x) /\ k + 1 \in 1 .. Len(x)
                    BY <3>2, <4>1
                <5>2. x[k] = "lf" /\ t[k + 1] = x[k + 1]
                    BY <3>1, <3>3, <5>1
                <5> QED
                    BY <2>1, <4>1, <5>2 DEF Broken
            <4>2. CASE k = Len(x)
                BY <2>1, <3>1, <4>2
            <4>3. CASE k = Len(x) + 1
                BY <2>1, <3>1, <3>3, <4>3 DEF LineEnds
            <4>4. CASE k >= Len(x) + 2
                <5> DEFINE m == Len(x)
                           l == Len(eol)
                <5>2. m \in Nat /\ l \in {1, 2} /\ Len(t) = m + 1 + l /\ k \in Int
                      /\ k >= m + 2
                    BY <3>2, <3>5, <4>4
                <5>3. k <= Len(t) - 1
                    BY <5>2
                <5> HIDE DEF m, l
                <5>4. k = m + 2 /\ l = 2
                    BY <5>2, <5>3
                <5>1. k = Len(x) + 2 /\ eol = CRLF
                    BY <3>2, <5>4 DEF m, l
                <5> QED
                    BY <3>1, <3>3, <5>1
            <4>5. k \in 1 .. Len(x) - 1 \/ k = Len(x) \/ k = Len(x) + 1 \/ k >= Len(x) + 2
                BY <3>2
            <4> QED
                BY <4>1, <4>2, <4>3, <4>4, <4>5
        <3>4. ASSUME eol = <<"lf">>, NEW k \in 1 .. Len(t) PROVE t[k] # "cr"
            <4>1. CASE k \in 1 .. Len(x)
                <5>1. t[k] = x[k]
                    BY <3>1, <4>1
                <5> QED
                    BY <2>1, <3>4, <4>1, <5>1 DEF Broken
            <4>2. CASE k = Len(x) + 1
                BY <2>1, <3>1, <4>2 DEF LineEnds
            <4>3. CASE k = Len(x) + 2
                BY <3>1, <3>4, <4>3
            <4>4. k \in 1 .. Len(x) \/ k = Len(x) + 1 \/ k = Len(x) + 2
                BY <3>1, <3>2, <3>4
            <4> QED
                BY <4>1, <4>2, <4>3, <4>4
        <3> QED
            BY <3>3, <3>4 DEF Broken
    <2> QED
        BY <2>1, <2>2, <2>4, <2>5, <2>6
<1> HIDE DEF Q
<1>5. \A lines \in Seq(B) : lines \in Q
    BY <1>3, <1>4, SequenceInduction
<1> QED
    BY <1>5 DEF Q, E, PrintedWhole

(* Where empty lines are.                                                  *)
LEMMA EmptyLines ==
    ASSUME NEW E, LineEnds \subseteq E, NEW s \in Seq(E)
    PROVE  /\ Hits(s, CRLF \o CRLF) =
                 {i \in 1 .. Len(s) - 3 : /\ s[i] = "cr" /\ s[i + 1] = "lf"
                                          /\ s[i + 2] = "cr" /\ s[i + 3] = "lf"}
           /\ Hits(s, <<"lf", "lf">>) =
                 {i \in 1 .. Len(s) - 1 : s[i] = "lf" /\ s[i + 1] = "lf"}
<1> DEFINE four == CRLF \o CRLF
           two == <<"lf", "lf">>
<1>1. /\ Len(s) \in Nat
      /\ four \in Seq(E) /\ Len(four) = 4
      /\ four[1] = "cr" /\ four[2] = "lf" /\ four[3] = "cr" /\ four[4] = "lf"
      /\ two \in Seq(E) /\ Len(two) = 2 /\ two[1] = "lf" /\ two[2] = "lf"
    <2>1. "cr" \in E /\ "lf" \in E
        BY DEF LineEnds
    <2>2. /\ CRLF \in Seq(E) /\ Len(CRLF) = 2 /\ CRLF[1] = "cr" /\ CRLF[2] = "lf"
          /\ two \in Seq(E) /\ Len(two) = 2 /\ two[1] = "lf" /\ two[2] = "lf"
        BY <2>1 DEF CRLF
    <2> HIDE DEF four
    <2>4. Joined(four, E, CRLF, CRLF)
        BY <2>2, JoinExact DEF four
    <2>5. /\ four \in Seq(E) /\ Len(four) = 4
          /\ \A k \in 1 .. 2 : four[k] = CRLF[k] /\ four[2 + k] = CRLF[k]
        BY <2>2, <2>4 DEF Joined
    <2>6. four[1] = "cr" /\ four[2] = "lf" /\ four[2 + 1] = "cr" /\ four[2 + 2] = "lf"
        BY <2>2, <2>5
    <2>3. Len(s) \in Nat
        BY LenProperties
    <2> QED
        BY <2>2, <2>3, <2>5, <2>6
<1> HIDE DEF four, two
<1>2. ASSUME NEW n \in {2, 4}, NEW i \in 1 .. Len(s) + 1 - n
      PROVE  /\ SubSeq(s, i, i + n - 1) \in Seq(E)
             /\ Len(SubSeq(s, i, i + n - 1)) = n
             /\ \A k \in 1 .. n : SubSeq(s, i, i + n - 1)[k] = s[i + k - 1]
    <2> DEFINE m == i + n - 1
    <2>1. i \in Int /\ m \in Int /\ i <= m /\ m - i + 1 = n
        BY <1>1
    <2>2. \A j \in i .. m : s[j] \in E
        <3> SUFFICES ASSUME NEW j \in i .. m PROVE s[j] \in E
            OBVIOUS
        <3>1. j \in 1 .. Len(s)
            BY <1>1
        <3> QED
            BY <3>1, ElementOfSeq
    <2> HIDE DEF m
    <2>3. /\ SubSeq(s, i, m) \in Seq(E)
          /\ Len(SubSeq(s, i, m)) = IF i <= m THEN m - i + 1 ELSE 0
          /\ \A k \in 1 .. m - i + 1 : SubSeq(s, i, m)[k] = s[i + k - 1]
        BY <2>1, <2>2, SubSeqProperties
    <2>4. /\ SubSeq(s, i, m) \in Seq(E)
          /\ Len(SubSeq(s, i, m)) = n
          /\ \A k \in 1 .. n : SubSeq(s, i, m)[k] = s[i + k - 1]
        BY <2>1, <2>3
    <2> QED
        BY <2>4 DEF m
<1>3. ASSUME NEW i \in 1 .. Len(s) - 3
      PROVE  SubSeq(s, i, i + 4 - 1) = four <=>
                 s[i] = "cr" /\ s[i + 1] = "lf" /\ s[i + 2] = "cr" /\ s[i + 3] = "lf"
    <2> DEFINE t == SubSeq(s, i, i + 4 - 1)
    <2>1. i \in 1 .. Len(s) + 1 - 4
        BY <1>1
    <2>2. /\ t \in Seq(E) /\ Len(t) = 4
          /\ \A k \in 1 .. 4 : t[k] = s[i + k - 1]
        BY <1>2, <2>1
    <2> HIDE DEF t
    <2>3. 1 .. 4 = {1, 2, 3, 4} /\ i + 1 - 1 = i /\ i + 2 - 1 = i + 1 /\ i + 3 - 1 = i + 2 /\ i + 4 - 1 = i + 3
        BY <1>1
    <2>4. t[1] = s[i] /\ t[2] = s[i + 1] /\ t[3] = s[i + 2] /\ t[4] = s[i + 3]
        BY <2>2, <2>3
    <2>5. ASSUME s[i] = "cr" /\ s[i + 1] = "lf" /\ s[i + 2] = "cr" /\ s[i + 3] = "lf"
          PROVE  t = four
        <3>1. \A k \in 1 .. 4 : t[k] = four[k]
            BY <1>1, <2>3, <2>4, <2>5
        <3> QED
            BY <1>1, <2>2, <3>1, SeqEqual
    <2>6. t = four => s[i] = "cr" /\ s[i + 1] = "lf" /\ s[i + 2] = "cr" /\ s[i + 3] = "lf"
        BY <1>1, <2>4
    <2>7. t = four <=> s[i] = "cr" /\ s[i + 1] = "lf" /\ s[i + 2] = "cr" /\ s[i + 3] = "lf"
        BY <2>5, <2>6
    <2> QED
        BY <2>7 DEF t
<1>4. ASSUME NEW i \in 1 .. Len(s) - 1
      PROVE  SubSeq(s, i, i + 2 - 1) = two <=> s[i] = "lf" /\ s[i + 1] = "lf"
    <2> DEFINE t == SubSeq(s, i, i + 2 - 1)
    <2>1. i \in 1 .. Len(s) + 1 - 2
        BY <1>1
    <2>2. /\ t \in Seq(E) /\ Len(t) = 2
          /\ \A k \in 1 .. 2 : t[k] = s[i + k - 1]
        BY <1>2, <2>1
    <2> HIDE DEF t
    <2>3. 1 .. 2 = {1, 2} /\ i + 1 - 1 = i /\ i + 2 - 1 = i + 1
        BY <1>1
    <2>4. t[1] = s[i] /\ t[2] = s[i + 1]
        BY <2>2, <2>3
    <2>5. ASSUME s[i] = "lf" /\ s[i + 1] = "lf"
          PROVE  t = two
        <3>1. \A k \in 1 .. 2 : t[k] = two[k]
            BY <1>1, <2>3, <2>4, <2>5
        <3> QED
            BY <1>1, <2>2, <3>1, SeqEqual
    <2>6. t = two => s[i] = "lf" /\ s[i + 1] = "lf"
        BY <1>1, <2>4
    <2>7. t = two <=> s[i] = "lf" /\ s[i + 1] = "lf"
        BY <2>5, <2>6
    <2> QED
        BY <2>7 DEF t
<1>5. Len(s) + 1 - 4 = Len(s) - 3 /\ Len(s) + 1 - 2 = Len(s) - 1
    BY <1>1
<1>6. Hits(s, four) = {i \in 1 .. Len(s) - 3 : SubSeq(s, i, i + 4 - 1) = four}
    BY <1>1, <1>5 DEF Hits
<1>7. Hits(s, two) = {i \in 1 .. Len(s) - 1 : SubSeq(s, i, i + 2 - 1) = two}
    BY <1>1, <1>5 DEF Hits
<1>8. Hits(s, four) = {i \in 1 .. Len(s) - 3 : /\ s[i] = "cr" /\ s[i + 1] = "lf"
                                              /\ s[i + 2] = "cr" /\ s[i + 3] = "lf"}
    BY <1>3, <1>6
<1>9. Hits(s, two) = {i \in 1 .. Len(s) - 1 : s[i] = "lf" /\ s[i + 1] = "lf"}
    BY <1>4, <1>7
<1> QED
    BY <1>8, <1>9 DEF four, two

(* What lines mean depends on their fields alone.                          *)
LEMMA FieldsTell ==
    ASSUME LineEnds \cap DOMAIN Field = {}, NEW x, NEW lines,
           \A S : LineEnds \cap S = {} => Only(x, S) = Only(lines, S)
    PROVE  StatusOf(x) = StatusOf(lines) /\ ForwardedOf(x) = ForwardedOf(lines)
<1>1. ASSUME NEW kinds PROVE FieldsOf(x, kinds) = FieldsOf(lines, kinds)
    <2> DEFINE S == {f \in DOMAIN Field : Field[f].kind \in kinds}
    <2>1. LineEnds \cap S = {}
        OBVIOUS
    <2> HIDE DEF S
    <2>2. Only(x, S) = Only(lines, S)
        BY <2>1
    <2> QED
        BY <2>2 DEF FieldsOf, S
<1>2. /\ FieldsOf(x, {"status"}) = FieldsOf(lines, {"status"})
      /\ FieldsOf(x, {"type"}) = FieldsOf(lines, {"type"})
      /\ FieldsOf(x, {"type", "other"}) = FieldsOf(lines, {"type", "other"})
    BY <1>1
<1> QED
    BY <1>2 DEF StatusOf, ForwardedOf

(* What is not found is nowhere.                                           *)
LEMMA NotFound ==
    ASSUME NEW E, NEW s \in Seq(E), NEW needle \in Seq(E), Find(s, needle) = 0
    PROVE  Hits(s, needle) = {}
<1> SUFFICES ASSUME Hits(s, needle) # {} PROVE FALSE
    OBVIOUS
<1>1. Hits(s, needle) \in SUBSET (Nat \ {0})
    BY LenProperties DEF Hits
<1>2. PICK k \in Hits(s, needle) : \A y \in Hits(s, needle) : k <= y
    BY <1>1, LeastNatural
<1>3. Find(s, needle) = k
    BY <1>2, FindExact
<1> QED
    BY <1>1, <1>3

(* What is where in fields x, the last line end, an empty line and a body. *)
PrintedAs(raw, E, x, eol, body) ==
    /\ raw \in Seq(E) /\ Len(x) \in Nat /\ Len(body) \in Nat /\ Len(eol) \in {1, 2}
    /\ Len(raw) = Len(x) + 2 * Len(eol) + Len(body)
    /\ \A k \in 1 .. Len(x) + Len(eol) : raw[k] = (x \o eol)[k]
    /\ Len(x \o eol) = Len(x) + Len(eol)
    /\ \A k \in 1 .. Len(eol) : raw[Len(x) + k] = eol[k] /\ raw[Len(x) + Len(eol) + k] = eol[k]
    /\ \A k \in 1 .. Len(body) : raw[Len(x) + 2 * Len(eol) + k] = body[k]
    /\ SubSeq(raw, 1, Len(x)) = x
    /\ SubSeq(raw, Len(x) + 2 * Len(eol) + 1, Len(raw)) = body

(* What a script prints is such a text.                                    *)
LEMMA PrintedExact ==
    ASSUME NEW E, NEW x \in Seq(E), NEW eol \in Seq(E), Len(eol) \in {1, 2}, NEW body \in Seq(E),
           NEW raw, raw = ((x \o eol) \o eol) \o body
    PROVE  PrintedAs(raw, E, x, eol, body)
<1> DEFINE l == x \o eol
           h == l \o eol
           r == h \o body
           t == eol \o body
           u == eol \o t
           m == Len(x)
           n == Len(eol)
<1>1. Joined(l, E, x, eol)
    BY JoinExact
<1>2. l \in Seq(E)
    BY <1>1 DEF Joined
<1>3. Joined(t, E, eol, body)
    BY JoinExact
<1>4. t \in Seq(E)
    BY <1>3 DEF Joined
<1>5. l \o t = h \o body
    <2> HIDE DEF l
    <2>1. l \in Seq(E) /\ eol \in Seq(E) /\ body \in Seq(E)
        BY <1>2
    <2>2. (l \o eol) \o body = l \o (eol \o body)
        BY <2>1, ConcatAssociative
    <2> QED
        BY <2>2
<1>6. x \o u = l \o t
    <2> HIDE DEF t
    <2>1. x \in Seq(E) /\ eol \in Seq(E) /\ t \in Seq(E)
        BY <1>4
    <2>2. (x \o eol) \o t = x \o (eol \o t)
        BY <2>1, ConcatAssociative
    <2> QED
        BY <2>2 DEF l
<1> HIDE DEF l
<1>7. Joined(h, E, l, eol)
    BY <1>2, JoinExact
<1>8. h \in Seq(E)
    BY <1>7 DEF Joined
<1> HIDE DEF h
<1>9. Joined(r, E, h, body) /\ SubSeq(r, Len(h) + 1, Len(r)) = body
    <2>1. r = h \o body
        OBVIOUS
    <2> HIDE DEF r
    <2>2. h \in Seq(E) /\ body \in Seq(E)
        BY <1>8
    <2>3. Joined(r, E, h, body)
        BY <2>1, <2>2, JoinExact
    <2>4. SubSeq(r, Len(h) + 1, Len(r)) = body
        BY <2>1, <2>2, JoinExact
    <2> QED
        BY <2>3, <2>4
<1> HIDE DEF t
<1>10. u \in Seq(E)
    <2>1. Joined(u, E, eol, t)
        BY <1>4, JoinExact
    <2> QED
        BY <2>1 DEF Joined
<1> HIDE DEF u
<1>11. SubSeq(r, 1, m) = x
    <2>1. r = x \o u
        BY <1>5, <1>6
    <2> HIDE DEF r
    <2> QED
        BY <1>10, <2>1, JoinExact
<1> HIDE DEF r, m, n
<1>12. /\ m \in Nat /\ n \in {1, 2} /\ Len(l) = m + n /\ Len(h) = m + n + n
       /\ Len(body) \in Nat /\ Len(r) = m + n + n + Len(body)
       /\ r \in Seq(E) /\ n + n = 2 * n
    BY <1>1, <1>7, <1>9 DEF Joined, m, n
<1>13. ASSUME NEW k \in 1 .. m + n PROVE r[k] = l[k]
    <2>1. k \in 1 .. Len(h) /\ k \in 1 .. Len(l)
        BY <1>12
    <2> QED
        BY <1>7, <1>9, <2>1 DEF Joined
<1>14. ASSUME NEW k \in 1 .. n PROVE r[m + k] = eol[k] /\ r[m + n + k] = eol[k]
    <2>1. m + k \in 1 .. m + n /\ m + n + k \in 1 .. Len(h) /\ k \in 1 .. Len(eol)
        BY <1>12 DEF n
    <2>2. l[m + k] = eol[k]
        BY <1>1, <2>1 DEF Joined, m
    <2>3. h[m + n + k] = eol[k]
        BY <1>7, <1>12, <2>1 DEF Joined
    <2>4. r[m + n + k] = h[m + n + k]
        BY <1>9, <2>1 DEF Joined
    <2> QED
        BY <1>13, <2>1, <2>2, <2>3, <2>4
<1>15. ASSUME NEW k \in 1 .. Len(body) PROVE r[m + 2 * n + k] = body[k]
    <2>1. Len(h) + k = m + 2 * n + k
        BY <1>12
    <2> QED
        BY <1>9, <2>1 DEF Joined
<1>16. SubSeq(r, m + 2 * n + 1, Len(r)) = body
    <2>1. Len(h) + 1 = m + 2 * n + 1
        BY <1>12
    <2> QED
        BY <1>9, <2>1
<1>17. raw = r
    BY DEF r, h, l
<1>18. Len(r) = m + 2 * n + Len(body)
    BY <1>12
<1> QED
    BY <1>11, <1>12, <1>13, <1>14, <1>15, <1>16, <1>17, <1>18 DEF PrintedAs, m, n, l

(* The first empty line is the one that ends the fields, unless lines end  *)
(* with LF and the body has an empty line of the other kind.               *)
LEMMA SeparatorFound ==
    ASSUME NEW E, LineEnds \subseteq E, NEW x \in Seq(E), NEW eol \in Eols, NEW body \in Seq(E),
           NEW raw, PrintedAs(raw, E, x, eol, body), Broken(x \o eol, eol)
    PROVE  \/ Separator(raw) = [at |-> Len(x) + 1, len |-> 2 * Len(eol)]
           \/ eol # CRLF /\ Find(body, CRLF \o CRLF) # 0
<1> DEFINE four == CRLF \o CRLF
           two == <<"lf", "lf">>
           m == Len(x)
           n == Len(eol)
           l == x \o eol
<1>1. four \in Seq(E) /\ two \in Seq(E)
    <2>1. "cr" \in E /\ "lf" \in E
        BY DEF LineEnds
    <2>2. CRLF \in Seq(E) /\ two \in Seq(E)
        BY <2>1 DEF CRLF
    <2> QED
        BY <2>2, ConcatProperties
<1>2. /\ Hits(raw, four) = {i \in 1 .. Len(raw) - 3 : /\ raw[i] = "cr" /\ raw[i + 1] = "lf"
                                                      /\ raw[i + 2] = "cr" /\ raw[i + 3] = "lf"}
      /\ Hits(raw, two) = {i \in 1 .. Len(raw) - 1 : raw[i] = "lf" /\ raw[i + 1] = "lf"}
      /\ Hits(body, four) = {i \in 1 .. Len(body) - 3 : /\ body[i] = "cr" /\ body[i + 1] = "lf"
                                                       /\ body[i + 2] = "cr" /\ body[i + 3] = "lf"}
    <2>1. raw \in Seq(E)
        BY DEF PrintedAs
    <2> QED
        BY <2>1, EmptyLines
<1>3. Separator(raw) = IF Find(raw, four) # 0 THEN [at |-> Find(raw, four), len |-> 4]
                       ELSE IF Find(raw, two) # 0 THEN [at |-> Find(raw, two), len |-> 2]
                       ELSE [at |-> 1, len |-> 0]
    BY DEF Separator
<1> HIDE DEF four, two, l
<1>4. /\ raw \in Seq(E) /\ m \in Nat /\ n \in {1, 2} /\ Len(body) \in Nat
      /\ Len(raw) = m + 2 * n + Len(body) /\ Len(l) = m + n
      /\ \A k \in 1 .. m + n : raw[k] = l[k]
      /\ \A k \in 1 .. n : raw[m + k] = eol[k] /\ raw[m + n + k] = eol[k]
      /\ \A k \in 1 .. Len(body) : raw[m + 2 * n + k] = body[k]
    BY DEF PrintedAs, l
<1>5. /\ \A k \in 1 .. Len(l) - 1 : l[k] = "lf" => l[k + 1] \notin LineEnds
      /\ eol = <<"lf">> => \A k \in 1 .. Len(l) : l[k] # "cr"
    BY DEF Broken, l
<1>6. ASSUME NEW k \in 1 .. m + n - 1, raw[k] = "lf" PROVE raw[k + 1] \notin LineEnds
    <2>1. k \in 1 .. m + n /\ k + 1 \in 1 .. m + n /\ k \in 1 .. Len(l) - 1
        BY <1>4
    <2>2. raw[k] = l[k] /\ raw[k + 1] = l[k + 1]
        BY <1>4, <2>1
    <2> QED
        BY <1>5, <1>6, <2>1, <2>2
<1> HIDE DEF m, n
<1>7. CASE eol = CRLF
    <2>1. n = 2 /\ eol[1] = "cr" /\ eol[2] = "lf" /\ 1 .. 2 = {1, 2}
        BY <1>7 DEF CRLF, n
    <2>2. raw[m + 1] = "cr" /\ raw[m + 2] = "lf" /\ raw[m + 2 + 1] = "cr" /\ raw[m + 2 + 2] = "lf"
        BY <1>4, <2>1
    <2>3. m + 1 \in Hits(raw, four)
        <3>1. /\ m + 1 \in 1 .. Len(raw) - 3 /\ m + 1 + 1 = m + 2
              /\ m + 1 + 2 = m + 2 + 1 /\ m + 1 + 3 = m + 2 + 2
            BY <1>4, <2>1
        <3> QED
            BY <1>2, <2>2, <3>1
    <2>4. ASSUME NEW y \in Hits(raw, four) PROVE m + 1 <= y
        <3>1. y \in 1 .. Len(raw) - 3 /\ raw[y + 1] = "lf" /\ raw[y + 2] = "cr"
            BY <1>2
        <3>2. y \in Nat /\ y >= 1 /\ y + 1 + 1 = y + 2
            BY <1>4, <3>1
        <3> SUFFICES ASSUME ~(m + 1 <= y) PROVE FALSE
            OBVIOUS
        <3>3. y + 1 \in 1 .. m + n - 1
            BY <1>4, <2>1, <3>2
        <3>4. raw[y + 2] \notin LineEnds
            BY <1>6, <3>1, <3>2, <3>3
        <3> QED
            BY <3>1, <3>4 DEF LineEnds
    <2>5. Find(raw, four) = m + 1
        BY <1>1, <1>4, <2>3, <2>4, FindExact
    <2>6. m + 1 # 0 /\ 2 * n = 4
        BY <1>4, <2>1
    <2>7. Separator(raw) = [at |-> m + 1, len |-> 2 * n]
        BY <1>3, <2>5, <2>6
    <2> QED
        BY <2>7 DEF m, n
<1>8. CASE eol = <<"lf">>
    <2>1. n = 1 /\ eol[1] = "lf" /\ 1 \in 1 .. n /\ eol # CRLF
        BY <1>8 DEF CRLF, n
    <2>2. raw[m + 1] = "lf" /\ raw[m + 2] = "lf"
        <3>1. raw[m + 1] = eol[1] /\ raw[m + n + 1] = eol[1] /\ m + n + 1 = m + 2
            BY <1>4, <2>1
        <3> QED
            BY <2>1, <3>1
    <2>3. CASE Hits(raw, four) # {}
        <3>1. PICK y \in Hits(raw, four) : TRUE
            BY <2>3
        <3>2. y \in 1 .. Len(raw) - 3 /\ raw[y] = "cr" /\ raw[y + 1] = "lf"
              /\ raw[y + 2] = "cr" /\ raw[y + 3] = "lf"
            BY <1>2, <3>1
        <3>3. y \in Nat /\ y >= 1 /\ y <= Len(raw) - 3 /\ Len(raw) = m + 2 + Len(body)
            BY <1>4, <2>1, <3>2
        <3>4. ~(y <= m + 1)
            <4> SUFFICES ASSUME y <= m + 1 PROVE FALSE
                OBVIOUS
            <4>1. y \in 1 .. m + n /\ y \in 1 .. Len(l)
                BY <1>4, <2>1, <3>3
            <4>2. raw[y] = l[y]
                BY <1>4, <4>1
            <4> QED
                BY <1>5, <1>8, <3>2, <4>1, <4>2
        <3>5. y # m + 2
            BY <2>2, <3>2
        <3> DEFINE z == y - (m + 2)
        <3>6. /\ z \in 1 .. Len(body) - 3
              /\ m + 2 * n + z = y /\ m + 2 * n + (z + 1) = y + 1
              /\ m + 2 * n + (z + 2) = y + 2 /\ m + 2 * n + (z + 3) = y + 3
            BY <1>4, <2>1, <3>3, <3>4, <3>5
        <3> HIDE DEF z
        <3>7. z \in 1 .. Len(body) /\ z + 1 \in 1 .. Len(body) /\ z + 2 \in 1 .. Len(body)
              /\ z + 3 \in 1 .. Len(body)
            BY <1>4, <3>6, SMTT(30)
        <3>8. body[z] = raw[y] /\ body[z + 1] = raw[y + 1] /\ body[z + 2] = raw[y + 2]
              /\ body[z + 3] = raw[y + 3]
            BY <1>4, <3>6, <3>7
        <3>9. z \in Hits(body, four)
            BY <1>2, <3>2, <3>6, <3>8
        <3>10. Find(body, four) # 0
            BY <1>1, <3>9, NotFound
        <3> QED
            BY <2>1, <3>10 DEF four
    <2>4. CASE Hits(raw, four) = {}
        <3>1. Find(raw, four) = 0
            BY <1>1, <1>4, <2>4, FindExact
        <3>2. m + 1 \in Hits(raw, two)
            <4>1. m + 1 \in 1 .. Len(raw) - 1 /\ m + 1 + 1 = m + 2
                BY <1>4, <2>1
            <4> QED
                BY <1>2, <2>2, <4>1
        <3>3. ASSUME NEW y \in Hits(raw, two) PROVE m + 1 <= y
            <4>1. y \in 1 .. Len(raw) - 1 /\ raw[y] = "lf" /\ raw[y + 1] = "lf"
                BY <1>2
            <4>2. y \in Nat /\ y >= 1
                BY <1>4, <4>1
            <4> SUFFICES ASSUME ~(m + 1 <= y) PROVE FALSE
                OBVIOUS
            <4>3. y \in 1 .. m + n - 1
                BY <1>4, <2>1, <4>2
            <4>4. raw[y + 1] \notin LineEnds
                BY <1>6, <4>1, <4>3
            <4> QED
                BY <4>1, <4>4 DEF LineEnds
        <3>4. Find(raw, two) = m + 1
            BY <1>1, <1>4, <3>2, <3>3, FindExact
        <3>5. m + 1 # 0 /\ 2 * n = 2
            BY <1>4, <2>1
        <3>6. Separator(raw) = [at |-> m + 1, len |-> 2 * n]
            BY <1>3, <3>1, <3>4, <3>5
        <3> QED
            BY <3>6 DEF m, n
    <2> QED
        BY <2>3, <2>4
<1> QED
    BY <1>7, <1>8 DEF Eols

(* A script's output is understood as the script means it.                 *)
THEOREM OutputUnderstood ==
    ASSUME NEW out, IsMeant(out)
    PROVE  \/ ParseCgiOutput(out.raw) =
                [status |-> out.status, fields |-> out.fields, body |-> out.body]
           \/ out.eol # CRLF /\ Find(out.body, CRLF \o CRLF) # 0
<1> DEFINE raw == out.raw
           lines == out.lines
           eol == out.eol
           body == out.body
           B == ToSet(lines)
           E == (B \cup ToSet(body)) \cup LineEnds
           sep == Separator(raw)
           head == SubSeq(raw, 1, sep.at - 1)
           rest == SubSeq(raw, sep.at + sep.len, Len(raw))
<1>1. /\ lines \in Seq(B) /\ body \in Seq(E) /\ LineEnds \cap B = {} /\ LineEnds \subseteq E
      /\ LineEnds \cap DOMAIN Field = {} /\ B \cup LineEnds \subseteq E
    <2>1. lines \in Seq(B) /\ body \in Seq(ToSet(body))
        BY DEF IsMeant, IsSeq
    <2>2. body \in Seq(E)
        BY <2>1, SeqMonotonic
    <2>3. LineEnds \cap B = {} /\ LineEnds \cap DOMAIN Field = {}
        BY DEF IsMeant, LineEnds
    <2> QED
        BY <2>1, <2>2, <2>3
<1>2. out.status = StatusOf(lines) /\ out.fields = ForwardedOf(lines)
    BY DEF IsMeant
<1>3. \/ lines # <<>> /\ eol \in Eols /\ raw = Lines(lines, eol) \o eol \o body
      \/ /\ lines = <<>> /\ raw = body
         /\ Find(body, CRLF \o CRLF) = 0 /\ Find(body, <<"lf", "lf">>) = 0
    BY DEF IsMeant, Eols
<1>4. ParseCgiOutput(raw) = [status |-> StatusOf(head), fields |-> ForwardedOf(head), body |-> rest]
    BY DEF ParseCgiOutput
<1> HIDE DEF raw, lines, eol, body, B, E, sep
<1>5. CASE /\ lines = <<>> /\ raw = body
           /\ Find(body, CRLF \o CRLF) = 0 /\ Find(body, <<"lf", "lf">>) = 0
    <2>1. sep = [at |-> 1, len |-> 0]
        BY <1>5 DEF Separator, sep
    <2>2. head = <<>>
        BY <2>1, SubSeqEmpty
    <2>3. rest = body
        <3>1. SubSeq(body, 1, Len(body)) = body
            BY <1>1, SubSeqFull
        <3>2. sep.at + sep.len = 1
            BY <2>1
        <3> QED
            BY <1>5, <3>1, <3>2
    <2> HIDE DEF head, rest
    <2>4. ParseCgiOutput(raw) = [status |-> out.status, fields |-> out.fields, body |-> body]
        BY <1>2, <1>4, <1>5, <2>2, <2>3
    <2> QED
        BY <2>4 DEF raw, body
<1>6. CASE lines # <<>> /\ eol \in Eols /\ raw = Lines(lines, eol) \o eol \o body
    <2> DEFINE l == Lines(lines, eol)
    <2>1. /\ Broken(l, eol)
          /\ \A S : LineEnds \cap S = {} => Only(l, S) = Only(lines, S)
          /\ \E x \in Seq(B \cup LineEnds) : l = x \o eol
        <3>1. LineEnds \cap B = {} /\ eol \in Eols /\ lines \in Seq(B)
            BY <1>1, <1>6
        <3>2. PrintedWhole(Lines(lines, eol), lines, eol, B)
            BY <3>1, LinesPrinted
        <3> QED
            BY <1>6, <3>2 DEF PrintedWhole
    <2> HIDE DEF l
    <2>2. PICK x \in Seq(B \cup LineEnds) : l = x \o eol
        BY <2>1
    <2>3. x \in Seq(E)
        BY <1>1, SeqMonotonic
    <2>4. eol \in Seq(E) /\ Len(eol) \in {1, 2}
        <3>1. "cr" \in E /\ "lf" \in E
            BY <1>1 DEF LineEnds
        <3>2. <<"lf">> \in Seq(E) /\ Len(<<"lf">>) = 1 /\ CRLF \in Seq(E) /\ Len(CRLF) = 2
            BY <3>1 DEF CRLF
        <3> QED
            BY <1>6, <3>2 DEF Eols
    <2>5. raw = ((x \o eol) \o eol) \o body
        BY <1>6, <2>2 DEF l
    <2>6. PrintedAs(raw, E, x, eol, body)
        BY <1>1, <2>3, <2>4, <2>5, PrintedExact
    <2>7. Broken(x \o eol, eol)
        BY <2>1, <2>2
    <2>8. \/ sep = [at |-> Len(x) + 1, len |-> 2 * Len(eol)]
          \/ eol # CRLF /\ Find(body, CRLF \o CRLF) # 0
        BY <1>1, <1>6, <2>3, <2>6, <2>7, SeparatorFound DEF sep
    <2>9. CASE sep = [at |-> Len(x) + 1, len |-> 2 * Len(eol)]
        <3>1. Len(x) \in Nat /\ Len(eol) \in Nat
            BY <2>4, <2>6 DEF PrintedAs
        <3>2. sep.at - 1 = Len(x) /\ sep.at + sep.len = Len(x) + 2 * Len(eol) + 1
            BY <2>9, <3>1
        <3>3. head = x /\ rest = body
            BY <2>6, <3>2 DEF PrintedAs
        <3> HIDE DEF head, rest
        <3>4. \A S : LineEnds \cap S = {} => Only(x, S) = Only(lines, S)
            <4> SUFFICES ASSUME NEW S, LineEnds \cap S = {} PROVE Only(x, S) = Only(lines, S)
                OBVIOUS
            <4>1. Only(x \o eol, S) = Only(x, S)
                BY <1>1, <1>6, <2>3, OnlyWithoutEol
            <4>2. Only(l, S) = Only(lines, S)
                BY <2>1
            <4> QED
                BY <2>2, <4>1, <4>2
        <3>5. StatusOf(x) = StatusOf(lines) /\ ForwardedOf(x) = ForwardedOf(lines)
            BY <1>1, <3>4, FieldsTell
        <3>6. ParseCgiOutput(raw) = [status |-> out.status, fields |-> out.fields, body |-> body]
            BY <1>2, <1>4, <3>3, <3>5
        <3> QED
            BY <3>6 DEF raw, body
    <2>10. CASE eol # CRLF /\ Find(body, CRLF \o CRLF) # 0
        BY <2>10 DEF eol, body
    <2> QED
        BY <2>8, <2>9, <2>10
<1> QED
    BY <1>3, <1>5, <1>6

(* At most one script runs for a request, and its output is the answer.    *)
OneRun ==
    Ran => /\ pc = "answered"
           /\ Len(acts) = 1
           /\ resp = ParseCgiOutput(acts[1].entry.raw)

(* Other notes are about files.                                            *)
LEMMA NotRun ==
    ASSUME ActsOK, OneRun, pc # "answered",
           \/ acts' = acts
           \/ \E op, path, entry : op # "run" /\ Note(op, path, entry)
    PROVE  OneRun'
<1>1. ~Ran
    BY DEF OneRun
<1>2. CASE acts' = acts
    BY <1>1, <1>2 DEF Ran, OneRun
<1>3. CASE \E op, path, entry : op # "run" /\ Note(op, path, entry)
    <2>1. PICK op, path, entry : op # "run" /\ Note(op, path, entry)
        BY <1>3
    <2> DEFINE a == [op |-> op, path |-> Resolve(path), entry |-> entry]
               S == ToSet(acts) \cup {a}
    <2>2. acts' = Append(acts, a) /\ a.op # "run" /\ a \in S
        BY <2>1 DEF Note
    <2>3. acts \in Seq(S) /\ DOMAIN acts = 1 .. Len(acts)
        <3>1. acts \in Seq(ToSet(acts))
            BY DEF ActsOK, IsSeq
        <3> QED
            BY <3>1, SeqMonotonic, LenProperties
    <2> HIDE DEF a, S
    <2>4. /\ DOMAIN acts' = 1 .. Len(acts) + 1 /\ Len(acts) \in Nat
          /\ acts'[Len(acts) + 1] = a
          /\ \A k \in 1 .. Len(acts) : acts'[k] = acts[k]
        <3>0. acts \in Seq(S) /\ a \in S
            BY <2>2, <2>3
        <3>1. /\ Append(acts, a) \in Seq(S) /\ Len(Append(acts, a)) = Len(acts) + 1
              /\ Append(acts, a)[Len(acts) + 1] = a
              /\ \A k \in 1 .. Len(acts) : Append(acts, a)[k] = acts[k]
            BY <3>0, AppendProperties
        <3>2. DOMAIN Append(acts, a) = 1 .. Len(Append(acts, a)) /\ Len(acts) \in Nat
            BY <2>3, <3>1, LenProperties
        <3> QED
            BY <2>2, <3>1, <3>2
    <2>5. ASSUME NEW k \in DOMAIN acts' PROVE acts'[k].op # "run"
        <3>1. CASE k \in 1 .. Len(acts)
            BY <1>1, <2>3, <2>4, <3>1 DEF Ran
        <3>2. CASE k = Len(acts) + 1
            BY <2>2, <2>4, <3>2
        <3> QED
            BY <2>4, <2>5, <3>1, <3>2
    <2>6. ~Ran'
        BY <2>5 DEF Ran
    <2> QED
        BY <2>6 DEF OneRun
<1> QED
    BY <1>2, <1>3

(* Every step keeps it so.                                                 *)
LEMMA OneRunNext == TracesKept /\ RInv /\ OneRun /\ [Next]_vars => OneRun'
<1> SUFFICES ASSUME TracesKept, RInv, OneRun, [Next]_vars PROVE OneRun'
    OBVIOUS
<1>1. ActsOK
    BY DEF RInv
<1>2. ASSUME acts' = <<>> PROVE OneRun'
    BY <1>2 DEF OneRun, Ran
<1>3. ASSUME NEW q \in Requests, Ask(q) PROVE OneRun'
    BY <1>2, <1>3 DEF Ask, Arrive
<1>4. ASSUME NEW c \in Clients, NEW sent \in {NoCookie, jar[c]}, NEW arrives \in BOOLEAN,
             CountVisit(c, sent, arrives)
      PROVE  OneRun'
    BY <1>2, <1>4 DEF CountVisit, Done
<1>5. ASSUME UNCHANGED <<pc, resp, acts>> PROVE OneRun'
    BY <1>5 DEF OneRun, Ran
<1>6. CASE Tick \/ UNCHANGED vars
    BY <1>5, <1>6 DEF Tick, vars, routerVars
<1>7. CASE Handle
    <2>1. RouterStep
        BY <1>7 DEF Handle
    <2>2. CASE NoRoute \/ Redirect \/ NotAllowed \/ TryCgi \/ Unservable \/ ServeGet
               \/ GetMetadata \/ GetIndex \/ Canonicalize \/ HandlePost \/ HandleDelete
               \/ DeleteMetadata
        <3>1. pc \in {"route", "metadata", "index", "canonicalize"} /\ acts' = acts
            BY <2>2 DEF NoRoute, Redirect, NotAllowed, TryCgi, Unservable, ServeGet, GetMetadata,
                   GetIndex, Canonicalize, HandlePost, HandleDelete, DeleteMetadata, Found,
                   Admitted, Static, Servable, Untouched
        <3> QED
            BY <1>1, <3>1, NotRun
    <2>3. CASE ServeFile
        <3>1. pc = "read" /\ (acts' = acts \/ Note("read", target, EntryAt(target)))
            BY <2>3, Zenon DEF ServeFile
        <3> QED
            BY <1>1, <3>1, NotRun
    <2>4. CASE AutoIndex
        <3>1. pc = "read_dir" /\ (acts' = acts \/ Note("list", target, Dir))
            BY <2>4, Zenon DEF AutoIndex
        <3> QED
            BY <1>1, <3>1, NotRun
    <2>5. CASE Execute
        <3>1. pc = "execute" /\ acts = <<>>
            BY <2>5 DEF Execute, TracesKept
        <3>2. CASE acts' = acts
            BY <1>2, <3>1, <3>2
        <3>3. ASSUME NEW out \in Outputs, pc' = "answered", resp' = ParseCgiOutput(out.raw),
                     Note("run", target, out)
              PROVE  OneRun'
            <4>1. acts' = <<[op |-> "run", path |-> Resolve(target), entry |-> out]>>
                BY <3>1, <3>3 DEF Note
            <4>2. Len(acts') = 1 /\ acts'[1].entry = out
                BY <4>1
            <4> QED
                BY <3>3, <4>2 DEF OneRun
        <3> QED
            BY <2>5, <3>2, <3>3, Zenon DEF Execute
    <2>6. CASE CreateDirs
        <3>1. pc = "create_dir_all" /\ (acts' = acts \/ Note("mkdir", Front(target), Dir))
            BY <2>6, Zenon DEF CreateDirs
        <3> QED
            BY <1>1, <3>1, NotRun
    <2>7. CASE WriteFile
        <3>1. pc = "write" /\ Note("write", Head(todo).path, File(Head(todo).data))
            BY <2>7, Zenon DEF WriteFile, Change
        <3> QED
            BY <1>1, <3>1, NotRun
    <2>8. CASE WriteFails
        <3>1. /\ pc = "write"
              /\ \/ acts' = acts
                 \/ \E n \in 0 .. Len(Head(todo).data) - 1 :
                       Note("torn", Head(todo).path, File(SubSeq(Head(todo).data, 1, n)))
            BY <2>8, Zenon DEF WriteFails, Change, Untouched
        <3> QED
            BY <1>1, <3>1, NotRun
    <2>9. CASE RemoveFile
        <3>1. pc = "remove_file" /\ (acts' = acts \/ Note("remove", target, Absent))
            BY <2>9, Zenon DEF RemoveFile, Change, Untouched
        <3> QED
            BY <1>1, <3>1, NotRun
    <2>10. CASE Meddle
        BY <1>5, <2>10 DEF Meddle
    <2> QED
        BY <2>1, <2>2, <2>3, <2>4, <2>5, <2>6, <2>7, <2>8, <2>9, <2>10 DEF RouterStep
<1> QED
    BY <1>3, <1>4, <1>6, <1>7 DEF Next

(* What a script prints reaches the client as the script meant it,         *)
(* whatever it prints, but for the one exception.                          *)
THEOREM ScriptsAnswerTheClient == Spec => []CgiAnswerExact
<1>1. OneRun => CgiAnswerExact
    <2> SUFFICES ASSUME OneRun, pc = "answered", Ran, IsMeant(Last(acts).entry)
                 PROVE  LET out == Last(acts).entry
                        IN  \/ resp = [status |-> out.status, fields |-> out.fields,
                                       body |-> out.body]
                            \/ out.eol # CRLF /\ Find(out.body, CRLF \o CRLF) # 0
        BY Zenon DEF CgiAnswerExact
    <2> DEFINE out == Last(acts).entry
    <2>1. Last(acts) = acts[1] /\ resp = ParseCgiOutput(out.raw)
        BY DEF OneRun, Last
    <2>2. IsMeant(out)
        OBVIOUS
    <2> HIDE DEF out
    <2>3. \/ ParseCgiOutput(out.raw) =
               [status |-> out.status, fields |-> out.fields, body |-> out.body]
          \/ out.eol # CRLF /\ Find(out.body, CRLF \o CRLF) # 0
        BY <2>2, OutputUnderstood
    <2> QED
        BY <2>1, <2>3 DEF out
<1>2. Init => OneRun
    BY DEF Init, RouterInit, OneRun, Ran
<1>3. SInv /\ RInv /\ OneRun /\ [Next]_vars => OneRun'
    BY OneRunNext DEF SInv
<1> QED
    BY <1>1, <1>2, <1>3, SessionInvariance, RouterInvariance, PTL DEF Spec
=============================================================================
