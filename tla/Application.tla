----------------------------- MODULE Application -----------------------------
(***************************************************************************)
(* What try_dispatch does with a decoded request (lc/src/server/mod.rs,    *)
(* steps 4 and 5): the router answers it, then the session store counts    *)
(* the visit, whatever the answer was.  Clients keep the cookie they are   *)
(* given, if the answer reaches them, and send it or not.                  *)
(***************************************************************************)
EXTENDS Router, SessionStore

CONSTANTS
    Clients,
    MaxVisits   \* bound: requests in a run

ASSUME ApplicationAssumption == MaxVisits \in Nat

VARIABLES
    jar,      \* the session cookie that each client keeps, if any
    visited   \* requests so far

vars == <<routerVars, sessionVars, jar, visited>>

Init ==
    /\ RouterInit
    /\ SessionInit
    /\ jar = [c \in Clients |-> NoCookie]
    /\ visited = 0

Ask(q) ==
    /\ visited < MaxVisits
    /\ Arrive(q)
    /\ visited' = visited + 1
    /\ UNCHANGED <<sessionVars, jar>>

Handle == RouterStep /\ UNCHANGED <<sessionVars, jar, visited>>

(* touch, with Set-Cookie for a new session.  Who asked makes a difference *)
(* only here.                                                              *)
CountVisit(c, sent, arrives) ==
    /\ Done
    /\ Touch(sent)
    /\ jar' = IF arrives /\ answer'.visits = 1 THEN [jar EXCEPT ![c] = answer'.id] ELSE jar
    /\ UNCHANGED visited

(* Time is read by touch alone, so it may as well pass just before.        *)
Tick ==
    /\ pc = "answered"
    /\ SessionTick
    /\ UNCHANGED <<routerVars, jar, visited>>

Next ==
    \/ \E q \in Requests : Ask(q)
    \/ Handle
    \/ \E c \in Clients : \E sent \in {NoCookie, jar[c]}, arrives \in BOOLEAN :
          CountVisit(c, sent, arrives)
    \/ Tick

Spec == Init /\ [][Next]_vars

-----------------------------------------------------------------------------
(* Types, and the shape of the disk: what is there is in a directory.      *)
TypeOK ==
    /\ \A p \in Paths : /\ IsEntry(disk[p])
                        /\ disk[p] # Absent => EntryAt(Front(p)) = Dir
    /\ pc \in {"idle", "route", "metadata", "index", "read", "read_dir", "canonicalize",
               "execute", "create_dir_all", "write", "remove_file", "answered"}
    /\ (pc = "write") => todo # <<>>
    /\ \A id \in DOMAIN sessions : id \in Ids /\ sessions[id] \in Session
    /\ DOMAIN sessions \subseteq given
    /\ \A c \in Clients : jar[c] \subseteq given

(* No two clients are ever in one session, so that no visit of one counts  *)
(* for the other, unless its id came from the clock.                       *)
OneClientPerSession ==
    \A c, d \in Clients : c # d => jar[c] \cap jar[d] \subseteq ClockIds
=============================================================================
