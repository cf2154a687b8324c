----------------------------- MODULE CgiRunner ------------------------------
(***************************************************************************)
(* cgi::execute (lc/src/cgi/mod.rs): the server forks a child, feeds it    *)
(* the request body through one pipe, collects its output from another,    *)
(* kills it at a deadline and reaps it.  All of this happens inside one    *)
(* step of EventLoop: while a call runs, no other connection is served.    *)
(*                                                                         *)
(* The script and a process it may start (the helper, which inherits its   *)
(* pipe ends) run concurrently with the server.  Pipes hold bytes by       *)
(* number; ends says which processes hold which end, as EOF and EPIPE      *)
(* depend on the last one to close.                                        *)
(***************************************************************************)
EXTENDS Integers

CONSTANTS
    BodyLen,      \* bytes of the request body
    OutLen,       \* bytes the script and its helper write at most
    PipeCap,      \* bytes a pipe holds (64 KiB on Linux)
    ReadMax,      \* bytes of the read buffer (8192 in the code)
    Timeout,      \* CGI_TIMEOUT, in ticks
    MaxCalls,     \* calls made (bounds the model)
    Script,       \* "echo": copies input to output; "any": does anything
    MayDetach,    \* may the script close its stdout and run on?
    CallsMayFail  \* may pipe, fork, write, poll and read fail?

ASSUME CgiAssumption ==
    /\ {BodyLen, OutLen, MaxCalls} \subseteq Nat
    /\ {PipeCap, ReadMax, Timeout} \subseteq Nat \ {0}
    /\ Script \in {"echo", "any"}
    /\ MayDetach \in BOOLEAN /\ CallsMayFail \in BOOLEAN

VARIABLES
    pc,        \* the server in execute: "idle", "close", "feed", "drain", "reap"
    calls,     \* calls made so far
    leaked,    \* pipe descriptors that no call will close any more
    toWrite,   \* body bytes write_all has still to write
    cut,       \* history: did write(2) fail while somebody could still read?
    left,      \* ticks to read_until_eof's deadline
    out,       \* bytes read_until_eof has collected
    result,    \* what the last call returned: "none", "ok" or "error"
    ends,      \* the holders of each pipe end
    stdin,     \* bytes in the child's stdin pipe
    stdout,    \* bytes in its stdout pipe
    child,     \* "none", "forked", "running", "zombie" or "reaped"
    helper,    \* "none", "running" or "gone"
    execed,    \* history: did execve succeed?
    got,       \* history: body bytes the script and its helper read
    produced   \* history: output bytes they wrote

server == <<pc, calls, leaked, cut, toWrite, left, out, result>>
script == <<child, helper, execed, got, produced>>
vars == <<server, ends, stdin, stdout, script>>

Procs == {"server", "child", "helper"}
Ends == {"inR", "inW", "outR", "outW"}

LesserOf(a, b) == IF a <= b THEN a ELSE b

(* The ends as they are after process q closes those of E.                 *)
Without(q, E) == [e \in Ends |-> IF e \in E THEN ends[e] \ {q} ELSE ends[e]]

-----------------------------------------------------------------------------
(***************************************************************************)
(* The server.                                                             *)
(***************************************************************************)

(* The first pipe, the second or the fork fails.  `?` returns at once; a   *)
(* Pipe has no Drop, so the descriptors opened before stay open.           *)
ExecuteFails ==
    /\ pc = "idle" /\ calls < MaxCalls /\ CallsMayFail
    /\ calls' = calls + 1
    /\ leaked' \in {leaked, leaked + 2, leaked + 4}
    /\ result' = "error"
    /\ UNCHANGED <<pc, cut, toWrite, left, out, ends, stdin, stdout, script>>

(* Both pipes are made and the child is forked, with a copy of all ends.   *)
Fork ==
    /\ pc = "idle" /\ calls < MaxCalls
    /\ calls' = calls + 1
    /\ pc' = "close" /\ result' = "none"
    /\ toWrite' = BodyLen /\ cut' = FALSE /\ left' = Timeout /\ out' = 0
    /\ ends' = [e \in Ends |-> {"server", "child"}]
    /\ stdin' = 0 /\ stdout' = 0
    /\ child' = "forked" /\ helper' = "none" /\ execed' = FALSE
    /\ got' = 0 /\ produced' = 0
    /\ UNCHANGED leaked

(* Mutant: the parent keeps its copy of the child's ends.                  *)
KeepEnds ==
    /\ pc = "close" /\ pc' = "feed"
    /\ UNCHANGED <<calls, leaked, cut, toWrite, left, out, result, ends, stdin, stdout, script>>

(* The parent closes the ends it does not use.                             *)
CloseUnused ==
    /\ pc = "close" /\ pc' = "feed"
    /\ ends' = Without("server", {"inR", "outW"})
    /\ UNCHANGED <<calls, leaked, cut, toWrite, left, out, result, stdin, stdout, script>>

(* write_all blocks on a full pipe, with no deadline.                      *)
WriteBody ==
    /\ pc = "feed" /\ toWrite > 0
    /\ ends["inR"] # {} /\ stdin < PipeCap
    /\ toWrite' = toWrite - 1 /\ stdin' = stdin + 1
    /\ UNCHANGED <<pc, calls, leaked, cut, left, out, result, ends, stdout, script>>

(* Mutant: one write is taken to have written everything.                  *)
EndAnyBody ==
    /\ pc = "feed" /\ toWrite < BodyLen
    /\ pc' = "drain"
    /\ ends' = Without("server", {"inW"})
    /\ UNCHANGED <<calls, leaked, cut, toWrite, left, out, result, stdin, stdout, script>>

(* The body is written, or nobody reads it (EPIPE): EOF for the child, and *)
(* from here on the deadline counts.                                       *)
EndBody ==
    /\ pc = "feed" /\ (toWrite = 0 \/ ends["inR"] = {})
    /\ pc' = "drain"
    /\ ends' = Without("server", {"inW"})
    /\ UNCHANGED <<calls, leaked, cut, toWrite, left, out, result, stdin, stdout, script>>

(* write(2) fails although somebody could still read, "a hard error": the  *)
(* rest of the body is given up, and execute goes on as if it were sent.   *)
WriteFails ==
    /\ pc = "feed" /\ toWrite > 0 /\ CallsMayFail
    /\ ends["inR"] # {}
    /\ pc' = "drain" /\ cut' = TRUE
    /\ ends' = Without("server", {"inW"})
    /\ UNCHANGED <<calls, leaked, toWrite, left, out, result, stdin, stdout, script>>

(* read_until_eof.  A read before the deadline takes what there is.        *)
ReadOutput ==
    /\ pc = "drain" /\ left > 0 /\ stdout > 0
    /\ LET n == LesserOf(ReadMax, stdout)
       IN  out' = out + n /\ stdout' = stdout - n
    /\ UNCHANGED <<pc, calls, leaked, cut, toWrite, left, result, ends, stdin, script>>

(* Mutant: an empty pipe is taken for the end of the output.               *)
StopWhenEmpty ==
    /\ pc = "drain" /\ left > 0 /\ stdout = 0
    /\ pc' = "reap" /\ result' = "ok"
    /\ ends' = Without("server", {"outR"})
    /\ UNCHANGED <<calls, leaked, cut, toWrite, left, out, stdin, stdout, script>>

(* EOF: the last process that could write has closed its end.              *)
SeeEof ==
    /\ pc = "drain" /\ left > 0 /\ stdout = 0 /\ ends["outW"] = {}
    /\ pc' = "reap" /\ result' = "ok"
    /\ ends' = Without("server", {"outR"})
    /\ UNCHANGED <<calls, leaked, cut, toWrite, left, out, stdin, stdout, script>>

(* Mutant: the call gives up without killing the child.                    *)
GiveUp ==
    /\ pc = "drain" /\ left = 0
    /\ pc' = "reap" /\ result' = "error"
    /\ ends' = Without("server", {"outR"})
    /\ UNCHANGED <<calls, leaked, cut, toWrite, left, out, stdin, stdout, script>>

(* The deadline: the child is killed, its helper is not.                   *)
Kill ==
    /\ pc = "drain" /\ left = 0
    /\ pc' = "reap" /\ result' = "error"
    /\ child' = IF child \in {"forked", "running"} THEN "zombie" ELSE child
    /\ ends' = [e \in Ends |-> ends[e] \ ({"child"} \cup IF e = "outR" THEN {"server"} ELSE {})]
    /\ UNCHANGED <<calls, leaked, cut, toWrite, left, out, stdin, stdout, helper, execed,
                   got, produced>>

(* poll or read fails hard: nobody is killed.                              *)
DrainFails ==
    /\ pc = "drain" /\ left > 0 /\ CallsMayFail
    /\ pc' = "reap" /\ result' = "error"
    /\ ends' = Without("server", {"outR"})
    /\ UNCHANGED <<calls, leaked, cut, toWrite, left, out, stdin, stdout, script>>

(* Mutant: the call returns without waiting for the child.                 *)
ReturnAtOnce ==
    /\ pc = "reap" /\ pc' = "idle"
    /\ UNCHANGED <<calls, leaked, cut, toWrite, left, out, result, ends, stdin, stdout, script>>

(* waitpid blocks until the child has ended, with no deadline.             *)
Reap ==
    /\ pc = "reap" /\ child = "zombie"
    /\ pc' = "idle" /\ child' = "reaped"
    /\ UNCHANGED <<calls, leaked, cut, toWrite, left, out, result, ends, stdin, stdout, helper,
                   execed, got, produced>>

(* Steps of a call that is under way, its failures left out.               *)
ServerStep ==
    \/ CloseUnused \/ WriteBody \/ EndBody
    \/ ReadOutput \/ SeeEof \/ Kill
    \/ Reap

(* Mutant: the time that remains is not saturated at zero.                 *)
TickBelowZero ==
    /\ pc = "drain"
    /\ left' = left - 1
    /\ UNCHANGED <<pc, calls, leaked, cut, toWrite, out, result, ends, stdin, stdout, script>>

(* Time passes; only read_until_eof measures it.                           *)
Tick ==
    /\ pc = "drain" /\ left > 0
    /\ left' = left - 1
    /\ UNCHANGED <<pc, calls, leaked, cut, toWrite, out, result, ends, stdin, stdout, script>>

-----------------------------------------------------------------------------
(***************************************************************************)
(* The child.                                                              *)
(***************************************************************************)

(* The pipe ends become stdin and stdout, the copies are closed, and the   *)
(* interpreter runs.                                                       *)
Exec ==
    /\ child = "forked"
    /\ child' = "running" /\ execed' = TRUE
    /\ ends' = Without("child", {"inW", "outR"})
    /\ UNCHANGED <<server, stdin, stdout, helper, got, produced>>

(* chdir or execve fails: _exit(127).                                      *)
ExecFails ==
    /\ child = "forked"
    /\ child' = "zombie"
    /\ ends' = Without("child", Ends)
    /\ UNCHANGED <<server, stdin, stdout, helper, execed, got, produced>>

(* Process q reads a byte; "echo" first writes what it has read.           *)
ReadStdin(q) ==
    /\ q \in ends["inR"] /\ stdin > 0
    /\ Script = "echo" => produced = got
    /\ stdin' = stdin - 1 /\ got' = got + 1
    /\ UNCHANGED <<server, ends, stdout, child, helper, execed, produced>>

(* Process q writes a byte.  A full pipe blocks it; one that nobody reads  *)
(* refuses it.                                                             *)
WriteStdout(q) ==
    /\ q \in ends["outW"] /\ ends["outR"] # {}
    /\ stdout < PipeCap /\ produced < OutLen
    /\ Script = "echo" => produced < got
    /\ stdout' = stdout + 1 /\ produced' = produced + 1
    /\ UNCHANGED <<server, ends, stdin, child, helper, execed, got>>

(* "echo" ends at the end of its input.                                    *)
Exit ==
    /\ child = "running"
    /\ Script = "echo" => ends["inW"] = {} /\ stdin = 0 /\ produced = got
    /\ child' = "zombie"
    /\ ends' = Without("child", Ends)
    /\ UNCHANGED <<server, stdin, stdout, helper, execed, got, produced>>

CloseStdout ==
    /\ child = "running" /\ Script = "any" /\ MayDetach
    /\ ends' = Without("child", {"outW"})
    /\ UNCHANGED <<server, stdin, stdout, script>>

Spawn ==
    /\ child = "running" /\ helper = "none" /\ Script = "any"
    /\ helper' = "running"
    /\ ends' = [e \in Ends |-> ends[e] \cup (IF "child" \in ends[e] THEN {"helper"} ELSE {})]
    /\ UNCHANGED <<server, stdin, stdout, child, execed, got, produced>>

HelperExit ==
    /\ helper = "running"
    /\ helper' = "gone"
    /\ ends' = Without("helper", Ends)
    /\ UNCHANGED <<server, stdin, stdout, child, execed, got, produced>>

ScriptStep ==
    \/ Exec \/ ExecFails \/ Exit \/ CloseStdout \/ Spawn \/ HelperExit
    \/ child = "running" /\ (ReadStdin("child") \/ WriteStdout("child"))
    \/ ReadStdin("helper") \/ WriteStdout("helper")

-----------------------------------------------------------------------------
Init ==
    /\ pc = "idle" /\ calls = 0 /\ leaked = 0
    /\ toWrite = 0 /\ cut = FALSE /\ left = 0 /\ out = 0 /\ result = "none"
    /\ ends = [e \in Ends |-> {}] /\ stdin = 0 /\ stdout = 0
    /\ child = "none" /\ helper = "none" /\ execed = FALSE
    /\ got = 0 /\ produced = 0

Next == ExecuteFails \/ Fork \/ ServerStep \/ WriteFails \/ DrainFails \/ Tick \/ ScriptStep

Spec == Init /\ [][Next]_vars

(* The server and the clock run, and so does the child as far as execute   *)
(* takes it.  Nothing is asked of the script, and no call has to fail.     *)
FairSpec == Spec /\ WF_vars(ServerStep) /\ WF_vars(Tick) /\ WF_vars(Exec \/ ExecFails)

(* A script that does not dawdle either.                                   *)
DiligentSpec == FairSpec /\ WF_vars(ScriptStep)

-----------------------------------------------------------------------------
(***************************************************************************)
(* What must hold.                                                         *)
(***************************************************************************)

(* Every variable has its type, and pipes hold at most PipeCap bytes.      *)
TypeOK ==
    /\ pc \in {"idle", "close", "feed", "drain", "reap"}
    /\ calls \in 0 .. MaxCalls /\ leaked \in Nat
    /\ toWrite \in 0 .. BodyLen /\ cut \in BOOLEAN
    /\ left \in 0 .. Timeout /\ out \in 0 .. OutLen
    /\ result \in {"none", "ok", "error"}
    /\ ends \in [Ends -> SUBSET Procs]
    /\ stdin \in 0 .. PipeCap /\ stdout \in 0 .. PipeCap
    /\ child \in {"none", "forked", "running", "zombie", "reaped"}
    /\ helper \in {"none", "running", "gone"} /\ execed \in BOOLEAN
    /\ got \in 0 .. BodyLen /\ produced \in 0 .. OutLen

(* An Ok result is the whole output: nobody can write any more, and every  *)
(* byte written was collected, the helper's included.  Ok is also what a   *)
(* child is answered with that could not run its script; its output is     *)
(* then empty, and never the rest of an earlier call's.                    *)
OutputWhole ==
    result = "ok" => /\ ends["outW"] = {} /\ out = produced
                     /\ ~execed => out = 0

(* A script that sees the end of its input has read all that was written,  *)
(* and this is the whole body unless write(2) failed.  An early end of     *)
(* write_all on EPIPE is never seen as the end of the body.                *)
BodyWhole ==
    \A q \in {"child", "helper"} :
        q \in ends["inR"] /\ ends["inW"] = {} /\ stdin = 0 =>
            /\ got = BodyLen - toWrite
            /\ toWrite = 0 \/ cut

(* When a call that forked returns, the server holds no end of its pipes   *)
(* and its child is neither running nor a zombie.                          *)
CleanReturn ==
    pc = "idle" => /\ \A e \in Ends : ends[e] \subseteq {"helper"}
                   /\ child \in {"none", "reaped"}

(* The two waits execute has no deadline for: write(2) on a full pipe, and *)
(* waitpid(2) for a script whose output ended before the deadline.         *)
WaitsForScript ==
    \/ pc = "feed" /\ toWrite > 0 /\ stdin = PipeCap
    \/ pc = "reap" /\ child = "running" /\ left > 0

(* Every call returns, unless one of those two waits lasts for ever.  So   *)
(* no wait for output does, and the deadline ends every other call.        *)
CallsReturn == pc # "idle" ~> (pc = "idle" \/ []WaitsForScript)

(* "10-second timeout enforcement": every call returns.  The code does not *)
(* keep it: with a script that copies its input, both pipes fill up, and   *)
(* the server and the script wait for each other.                          *)
TimeoutEnforced == pc # "idle" ~> pc = "idle"
=============================================================================
