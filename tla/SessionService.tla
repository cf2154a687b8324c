--------------------------- MODULE SessionService ---------------------------
(***************************************************************************)
(* What the session cookie promises (lc/src/cookies/mod.rs): a request     *)
(* that names a session idle for less than SESSION_TTL is one more visit   *)
(* of that session; every other request begins a session of its own.  A    *)
(* session ends the moment its time is up, and no id is given out twice,   *)
(* unless it was made from the clock.                                      *)
(***************************************************************************)
EXTENDS Naturals

CONSTANTS
    Ids,        \* session ids
    ClockIds,   \* those that random_id makes from the clock
    Ttl         \* SESSION_TTL, in ticks

VARIABLES
    live,     \* the sessions that have not expired
    given,    \* ids given out so far
    answer    \* the last visit: the id sent, if any, and what it led to

vars == <<live, given, answer>>

NewSession == [visits |-> 1, idle |-> 0]

Init == /\ live = <<>>
        /\ given = {}
        /\ answer = [sent |-> {}, id |-> {}, visits |-> 0]

Return(id) ==
    /\ id \in DOMAIN live
    /\ live' = [live EXCEPT ![id] = [visits |-> @.visits + 1, idle |-> 0]]
    /\ answer' = [sent |-> {id}, id |-> {id}, visits |-> live[id].visits + 1]
    /\ UNCHANGED given

Begin(sent, id) ==
    /\ sent \cap DOMAIN live = {}
    /\ id \notin given \/ id \in ClockIds
    /\ live' = [i \in DOMAIN live \cup {id} |-> IF i = id THEN NewSession ELSE live[i]]
    /\ given' = given \cup {id}
    /\ answer' = [sent |-> sent, id |-> {id}, visits |-> 1]

Pass ==
    /\ live' = [id \in {i \in DOMAIN live : live[i].idle + 1 < Ttl} |->
                  [live[id] EXCEPT !.idle = @ + 1]]
    /\ UNCHANGED <<given, answer>>

Next == \/ \E id \in Ids : Return(id)
        \/ \E id \in Ids, sent \in {{}} \cup {{i} : i \in Ids} : Begin(sent, id)
        \/ Pass

Spec == Init /\ [][Next]_vars
=============================================================================
