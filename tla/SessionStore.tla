---------------------------- MODULE SessionStore ----------------------------
(***************************************************************************)
(* SessionStore (lc/src/cookies/mod.rs): a map that nothing looks at       *)
(* between requests, so that expired sessions stay in it until touch       *)
(* evicts them.  It implements SessionService, in which they end at once.  *)
(*                                                                         *)
(* An id is random, and then new, or made from the clock when the device   *)
(* cannot be read, and then whatever the clock says.  A Cookie header is   *)
(* the session id in it, if there is one.                                  *)
(***************************************************************************)
EXTENDS Naturals, Functions

CONSTANTS Ids, ClockIds, Ttl

ASSUME StoreAssumption == ClockIds \subseteq Ids /\ Ttl \in Nat \ {0}

VARIABLES
    sessions,   \* SessionStore.sessions; age is now - last_seen, up to Ttl
    given,      \* history: the ids given out
    answer      \* history: the cookie of the last request and the SessionInfo

sessionVars == <<sessions, given, answer>>

NoCookie == {}
Session == [visits : Nat, age : 0 .. Ttl]

SessionInit ==
    /\ sessions = <<>>
    /\ given = {}
    /\ answer = [sent |-> NoCookie, id |-> {}, visits |-> 0]

Live == {id \in DOMAIN sessions : sessions[id].age < Ttl}

(* evict_expired: what is left of the map.                                 *)
EvictExpired == Restrict(sessions, Live)

(* Mutant: any id, taken or not.                                           *)
AnyId == Ids

(* random_id: random ids have not been drawn before.                       *)
RandomId == (Ids \ given) \cup ClockIds

(* Mutant: last_seen keeps the time of the first request.                  *)
VisitUnrefreshed(s) == [s EXCEPT !.visits = @ + 1]

Visit(s) == [visits |-> s.visits + 1, age |-> 0]

(* touch.  A new session replaces one whose id is drawn again.             *)
Touch(sent) ==
    LET left == EvictExpired
        existing == sent \cap DOMAIN left
    IN  \/ \E id \in existing :
             /\ sessions' = [left EXCEPT ![id] = Visit(@)]
             /\ answer' = [sent |-> sent, id |-> {id}, visits |-> left[id].visits + 1]
             /\ UNCHANGED given
        \/ /\ existing = {}
           /\ \E id \in RandomId :
                /\ sessions' = [i \in DOMAIN left \cup {id} |->
                                 IF i = id THEN [visits |-> 1, age |-> 0] ELSE left[i]]
                /\ given' = given \cup {id}
                /\ answer' = [sent |-> sent, id |-> {id}, visits |-> 1]

(* Time passes; ages beyond Ttl tell nothing apart.                        *)
SessionTick ==
    /\ sessions' = [id \in DOMAIN sessions |->
                      [sessions[id] EXCEPT !.age = IF @ < Ttl THEN @ + 1 ELSE @]]
    /\ UNCHANGED <<given, answer>>

-----------------------------------------------------------------------------
Promise == INSTANCE SessionService WITH
    live <- [id \in Live |-> [visits |-> sessions[id].visits, idle |-> sessions[id].age]]

(* To a client, expiry is exact although eviction is lazy: touch counts a  *)
(* visit of the session named, if its time is not up, and otherwise begins *)
(* one under an id that is new unless it was made from the clock.          *)
ImplementsSessions == Promise!Spec
=============================================================================
