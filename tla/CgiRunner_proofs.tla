-------------------------- MODULE CgiRunner_proofs --------------------------
(***************************************************************************)
(* The safety invariants of CgiRunner hold for every value of its          *)
(* constants: bodies, outputs, pipes and read buffers of any size, any     *)
(* timeout, both scripts, and with or without failing calls.               *)
(*                                                                         *)
(* OutputWhole and BodyWhole are about bytes, but what makes them true is  *)
(* who holds which pipe end at which point of the call: that the server    *)
(* never keeps an end that would hide an end of file, and that a helper    *)
(* only ever inherits what the child still holds.  IInv joins a            *)
(* conservation law for each pipe with that bookkeeping.                   *)
(***************************************************************************)
EXTENDS CgiRunner, TLAPS

(* No byte is lost or made up: the body is with the server, in the pipe or *)
(* read; the output is in the pipe or collected.                           *)
BytesKept ==
    /\ child # "none" => toWrite + stdin + got = BodyLen
    /\ out + stdout = produced

(* Which ends the server holds is decided by where it is.                  *)
ServerEnds ==
    /\ "server" \in ends["inR"] => pc = "close"
    /\ "server" \in ends["outW"] => pc = "close"
    /\ "server" \in ends["inW"] <=> pc \in {"close", "feed"}
    /\ "server" \in ends["outR"] => pc \in {"close", "feed", "drain"}

(* A dead process holds nothing, and once the script runs neither it nor   *)
(* its helper holds the server's ends.                                     *)
ScriptEnds ==
    /\ child = "none" => \A e \in Ends : ends[e] = {}
    /\ \A e \in Ends : "child" \in ends[e] => child \in {"forked", "running"}
    /\ \A e \in Ends : "helper" \in ends[e] => helper = "running"
    /\ \A e \in {"inW", "outR"} : "child" \in ends[e] => child = "forked"
    /\ \A e \in {"inW", "outR"} : "helper" \notin ends[e]

(* The phase of a call against its child and its result.  If the server    *)
(* stopped writing and somebody may still read, the whole body is written  *)
(* or write(2) failed.  A child that did not reach its script wrote and    *)
(* started nothing.                                                        *)
PhaseOK ==
    /\ pc = "idle" <=> child \in {"none", "reaped"}
    /\ result = "ok" => pc \in {"reap", "idle"} /\ stdout = 0 /\ ends["outW"] = {}
    /\ pc \notin {"close", "feed"} /\ ends["inR"] # {} => toWrite = 0 \/ cut
    /\ ~execed => child # "running" /\ helper = "none" /\ produced = 0

(* The inductive invariant.                                                *)
IInv == TypeOK /\ BytesKept /\ ServerEnds /\ ScriptEnds /\ PhaseOK
-----------------------------------------------------------------------------
(* The bounds are what they say they are.                                  *)
LEMMA Constants ==
    /\ BodyLen \in Nat /\ OutLen \in Nat /\ MaxCalls \in Nat
    /\ PipeCap \in Nat \ {0} /\ ReadMax \in Nat \ {0} /\ Timeout \in Nat \ {0}
BY CgiAssumption

(* A call that fails before it has a child leaves the last call's bytes    *)
(* and ends as they were.                                                  *)
LEMMA ExecuteFailsOK ==
    ASSUME IInv, ExecuteFails
    PROVE  IInv'
<1> USE DEF ExecuteFails, Ends, Procs, server, script
<1>1. TypeOK' /\ BytesKept'
    BY Constants DEF IInv, TypeOK, BytesKept
<1>2. ServerEnds' /\ ScriptEnds'
    BY DEF IInv, TypeOK, ServerEnds, ScriptEnds
<1>3. PhaseOK'
    BY DEF IInv, TypeOK, BytesKept, ServerEnds, ScriptEnds, PhaseOK
<1> QED
    BY <1>1, <1>2, <1>3 DEF IInv

(* A new call starts with fresh pipes, held by the server and the child,   *)
(* and with the whole body to write.                                       *)
LEMMA ForkOK ==
    ASSUME IInv, Fork
    PROVE  IInv'
<1> USE DEF Fork
<1>1. TypeOK'
    <2>1. ends' \in [Ends -> SUBSET Procs]
        BY DEF Ends, Procs
    <2>2. /\ calls' \in 0 .. MaxCalls
          /\ toWrite' \in 0 .. BodyLen /\ left' \in 0 .. Timeout /\ out' \in 0 .. OutLen
          /\ stdin' \in 0 .. PipeCap /\ stdout' \in 0 .. PipeCap
          /\ got' \in 0 .. BodyLen /\ produced' \in 0 .. OutLen
        BY Constants DEF IInv, TypeOK
    <2> QED
        BY <2>1, <2>2 DEF IInv, TypeOK
<1>2. BytesKept'
    BY Constants DEF BytesKept
<1>3. ServerEnds' /\ ScriptEnds' /\ PhaseOK'
    BY DEF Ends, ServerEnds, ScriptEnds, PhaseOK
<1> QED
    BY <1>1, <1>2, <1>3 DEF IInv

(* With its two ends closed the server holds exactly the ends it works on. *)
LEMMA CloseUnusedOK ==
    ASSUME IInv, CloseUnused
    PROVE  IInv'
<1> USE DEF CloseUnused, Ends, Procs, server, script
<1>1. /\ ends' \in [Ends -> SUBSET Procs]
      /\ ends'["inR"] = ends["inR"] \ {"server"}
      /\ ends'["inW"] = ends["inW"]
      /\ ends'["outR"] = ends["outR"]
      /\ ends'["outW"] = ends["outW"] \ {"server"}
    BY DEF IInv, TypeOK, Without
<1>2. TypeOK' /\ BytesKept'
    BY <1>1 DEF IInv, TypeOK, BytesKept
<1>3. ServerEnds' /\ ScriptEnds'
    BY <1>1 DEF IInv, TypeOK, ServerEnds, ScriptEnds
<1>4. PhaseOK'
    BY <1>1 DEF IInv, TypeOK, BytesKept, ServerEnds, ScriptEnds, PhaseOK
<1> QED
    BY <1>2, <1>3, <1>4 DEF IInv

(* A byte goes from the server into the pipe.                              *)
LEMMA WriteBodyOK ==
    ASSUME IInv, WriteBody
    PROVE  IInv'
<1> USE DEF WriteBody, Ends, Procs, server, script
<1>1. TypeOK' /\ BytesKept'
    BY Constants DEF IInv, TypeOK, BytesKept
<1>2. ServerEnds' /\ ScriptEnds'
    BY DEF IInv, TypeOK, ServerEnds, ScriptEnds
<1>3. PhaseOK'
    BY DEF IInv, TypeOK, BytesKept, ServerEnds, ScriptEnds, PhaseOK
<1> QED
    BY <1>1, <1>2, <1>3 DEF IInv

(* Either the body is written or nobody reads it any more: the two ways in *)
(* which toWrite no longer matters.                                        *)
LEMMA EndBodyOK ==
    ASSUME IInv, EndBody
    PROVE  IInv'
<1> USE DEF EndBody, Ends, Procs, server, script
<1>1. /\ ends' \in [Ends -> SUBSET Procs]
      /\ ends'["inR"] = ends["inR"]
      /\ ends'["inW"] = ends["inW"] \ {"server"}
      /\ ends'["outR"] = ends["outR"]
      /\ ends'["outW"] = ends["outW"]
    BY DEF IInv, TypeOK, Without
<1>2. TypeOK' /\ BytesKept'
    BY <1>1 DEF IInv, TypeOK, BytesKept
<1>3. ServerEnds' /\ ScriptEnds'
    BY <1>1 DEF IInv, TypeOK, ServerEnds, ScriptEnds
<1>4. PhaseOK'
    BY <1>1 DEF IInv, TypeOK, BytesKept, ServerEnds, ScriptEnds, PhaseOK
<1> QED
    BY <1>2, <1>3, <1>4 DEF IInv

(* A hard error of write(2) leaves the rest of the body unsent, and cut    *)
(* says so.                                                                *)
LEMMA WriteFailsOK ==
    ASSUME IInv, WriteFails
    PROVE  IInv'
<1> USE DEF WriteFails, Ends, Procs, server, script
<1>1. /\ ends' \in [Ends -> SUBSET Procs]
      /\ ends'["inR"] = ends["inR"]
      /\ ends'["inW"] = ends["inW"] \ {"server"}
      /\ ends'["outR"] = ends["outR"]
      /\ ends'["outW"] = ends["outW"]
    BY DEF IInv, TypeOK, Without
<1>2. TypeOK' /\ BytesKept'
    BY <1>1 DEF IInv, TypeOK, BytesKept
<1>3. ServerEnds' /\ ScriptEnds'
    BY <1>1 DEF IInv, TypeOK, ServerEnds, ScriptEnds
<1>4. PhaseOK'
    BY <1>1 DEF IInv, TypeOK, BytesKept, ServerEnds, ScriptEnds, PhaseOK
<1> QED
    BY <1>2, <1>3, <1>4 DEF IInv

(* Bytes go from the pipe to the server.                                   *)
LEMMA ReadOutputOK ==
    ASSUME IInv, ReadOutput
    PROVE  IInv'
<1> USE DEF ReadOutput, Ends, Procs, server, script
<1>1. TypeOK' /\ BytesKept'
    BY Constants DEF IInv, TypeOK, BytesKept, LesserOf
<1>2. ServerEnds' /\ ScriptEnds'
    BY DEF IInv, TypeOK, ServerEnds, ScriptEnds
<1>3. PhaseOK'
    BY DEF IInv, TypeOK, BytesKept, ServerEnds, ScriptEnds, PhaseOK, LesserOf
<1> QED
    BY <1>1, <1>2, <1>3 DEF IInv

(* The call is answered Ok only when the pipe is empty and nobody can fill *)
(* it any more.                                                            *)
LEMMA SeeEofOK ==
    ASSUME IInv, SeeEof
    PROVE  IInv'
<1> USE DEF SeeEof, Ends, Procs, server, script
<1>1. /\ ends' \in [Ends -> SUBSET Procs]
      /\ ends'["inR"] = ends["inR"]
      /\ ends'["inW"] = ends["inW"]
      /\ ends'["outR"] = ends["outR"] \ {"server"}
      /\ ends'["outW"] = ends["outW"]
    BY DEF IInv, TypeOK, Without
<1>2. TypeOK' /\ BytesKept'
    BY <1>1 DEF IInv, TypeOK, BytesKept
<1>3. ServerEnds' /\ ScriptEnds'
    BY <1>1 DEF IInv, TypeOK, ServerEnds, ScriptEnds
<1>4. PhaseOK'
    BY <1>1 DEF IInv, TypeOK, BytesKept, ServerEnds, ScriptEnds, PhaseOK
<1> QED
    BY <1>2, <1>3, <1>4 DEF IInv

(* The killed child drops all its ends, the server the one it read from.   *)
LEMMA KillOK ==
    ASSUME IInv, Kill
    PROVE  IInv'
<1> USE DEF Kill, Ends, Procs, server, script
<1>1. TypeOK' /\ BytesKept'
    BY DEF IInv, TypeOK, BytesKept
<1>2. ServerEnds' /\ ScriptEnds'
    BY DEF IInv, TypeOK, ServerEnds, ScriptEnds, PhaseOK
<1>3. PhaseOK'
    BY DEF IInv, TypeOK, BytesKept, ServerEnds, ScriptEnds, PhaseOK
<1> QED
    BY <1>1, <1>2, <1>3 DEF IInv

(* The child is gone when the call returns.                                *)
LEMMA ReapOK ==
    ASSUME IInv, Reap
    PROVE  IInv'
<1> USE DEF Reap, Ends, Procs, server, script
<1>1. TypeOK' /\ BytesKept'
    BY DEF IInv, TypeOK, BytesKept
<1>2. ServerEnds' /\ ScriptEnds'
    BY DEF IInv, TypeOK, ServerEnds, ScriptEnds, PhaseOK
<1>3. PhaseOK'
    BY DEF IInv, TypeOK, BytesKept, ServerEnds, ScriptEnds, PhaseOK
<1> QED
    BY <1>1, <1>2, <1>3 DEF IInv

(* A failed read answers with an error, so it promises nothing.            *)
LEMMA DrainFailsOK ==
    ASSUME IInv, DrainFails
    PROVE  IInv'
<1> USE DEF DrainFails, Ends, Procs, server, script
<1>1. /\ ends' \in [Ends -> SUBSET Procs]
      /\ ends'["inR"] = ends["inR"]
      /\ ends'["inW"] = ends["inW"]
      /\ ends'["outR"] = ends["outR"] \ {"server"}
      /\ ends'["outW"] = ends["outW"]
    BY DEF IInv, TypeOK, Without
<1>2. TypeOK' /\ BytesKept'
    BY <1>1 DEF IInv, TypeOK, BytesKept
<1>3. ServerEnds' /\ ScriptEnds'
    BY <1>1 DEF IInv, TypeOK, ServerEnds, ScriptEnds
<1>4. PhaseOK'
    BY <1>1 DEF IInv, TypeOK, BytesKept, ServerEnds, ScriptEnds, PhaseOK
<1> QED
    BY <1>2, <1>3, <1>4 DEF IInv

(* Only the deadline moves.                                                *)
LEMMA TickOK ==
    ASSUME IInv, Tick
    PROVE  IInv'
<1> USE DEF Tick, Ends, Procs, server, script
<1>1. TypeOK' /\ BytesKept'
    BY Constants DEF IInv, TypeOK, BytesKept
<1>2. ServerEnds' /\ ScriptEnds'
    BY DEF IInv, TypeOK, ServerEnds, ScriptEnds
<1>3. PhaseOK'
    BY DEF IInv, TypeOK, BytesKept, ServerEnds, ScriptEnds, PhaseOK
<1> QED
    BY <1>1, <1>2, <1>3 DEF IInv

(* The script runs with its stdin and stdout, without the server's ends.   *)
LEMMA ExecOK ==
    ASSUME IInv, Exec
    PROVE  IInv'
<1> USE DEF Exec, Ends, Procs, server, script
<1>1. /\ ends' \in [Ends -> SUBSET Procs]
      /\ ends'["inR"] = ends["inR"]
      /\ ends'["inW"] = ends["inW"] \ {"child"}
      /\ ends'["outR"] = ends["outR"] \ {"child"}
      /\ ends'["outW"] = ends["outW"]
    BY DEF IInv, TypeOK, Without
<1>2. TypeOK' /\ BytesKept'
    BY <1>1 DEF IInv, TypeOK, BytesKept
<1>3. ServerEnds' /\ ScriptEnds'
    BY <1>1 DEF IInv, TypeOK, ServerEnds, ScriptEnds
<1>4. PhaseOK'
    BY <1>1 DEF IInv, TypeOK, BytesKept, ServerEnds, ScriptEnds, PhaseOK
<1> QED
    BY <1>2, <1>3, <1>4 DEF IInv

(* A child that could not run drops all its ends.                          *)
LEMMA ExecFailsOK ==
    ASSUME IInv, ExecFails
    PROVE  IInv'
<1> USE DEF ExecFails, Ends, Procs, server, script
<1>1. /\ ends' \in [Ends -> SUBSET Procs]
      /\ ends'["inR"] = ends["inR"] \ {"child"}
      /\ ends'["inW"] = ends["inW"] \ {"child"}
      /\ ends'["outR"] = ends["outR"] \ {"child"}
      /\ ends'["outW"] = ends["outW"] \ {"child"}
    BY DEF IInv, TypeOK, Without
<1>2. TypeOK' /\ BytesKept'
    BY <1>1 DEF IInv, TypeOK, BytesKept
<1>3. ServerEnds' /\ ScriptEnds'
    BY <1>1 DEF IInv, TypeOK, ServerEnds, ScriptEnds
<1>4. PhaseOK'
    BY <1>1 DEF IInv, TypeOK, BytesKept, ServerEnds, ScriptEnds, PhaseOK
<1> QED
    BY <1>2, <1>3, <1>4 DEF IInv

(* A byte goes from the pipe to the script or its helper.                  *)
LEMMA ReadStdinOK ==
    ASSUME IInv, NEW q \in {"child", "helper"}, ReadStdin(q)
    PROVE  IInv'
<1> USE DEF ReadStdin, Ends, Procs, server, script
<1>1. TypeOK' /\ BytesKept'
    BY Constants DEF IInv, TypeOK, BytesKept, ScriptEnds
<1>2. ServerEnds' /\ ScriptEnds'
    BY DEF IInv, TypeOK, ServerEnds, ScriptEnds
<1>3. PhaseOK'
    BY DEF IInv, TypeOK, BytesKept, ServerEnds, ScriptEnds, PhaseOK
<1> QED
    BY <1>1, <1>2, <1>3 DEF IInv

(* A byte goes into the pipe, which no one may do once the call was        *)
(* answered Ok.                                                            *)
LEMMA WriteStdoutOK ==
    ASSUME IInv, NEW q \in {"child", "helper"}, WriteStdout(q),
           q = "child" => child = "running"
    PROVE  IInv'
<1> USE DEF WriteStdout, Ends, Procs, server, script
<1>1. TypeOK' /\ BytesKept'
    BY Constants DEF IInv, TypeOK, BytesKept
<1>2. ServerEnds' /\ ScriptEnds'
    BY DEF IInv, TypeOK, ServerEnds, ScriptEnds
<1>3. PhaseOK'
    BY DEF IInv, TypeOK, BytesKept, ServerEnds, ScriptEnds, PhaseOK
<1> QED
    BY <1>1, <1>2, <1>3 DEF IInv

(* A script that ends drops all its ends.                                  *)
LEMMA ExitOK ==
    ASSUME IInv, Exit
    PROVE  IInv'
<1> USE DEF Exit, Ends, Procs, server, script
<1>1. /\ ends' \in [Ends -> SUBSET Procs]
      /\ ends'["inR"] = ends["inR"] \ {"child"}
      /\ ends'["inW"] = ends["inW"] \ {"child"}
      /\ ends'["outR"] = ends["outR"] \ {"child"}
      /\ ends'["outW"] = ends["outW"] \ {"child"}
    BY DEF IInv, TypeOK, Without
<1>2. TypeOK' /\ BytesKept'
    BY <1>1 DEF IInv, TypeOK, BytesKept
<1>3. ServerEnds' /\ ScriptEnds'
    BY <1>1 DEF IInv, TypeOK, ServerEnds, ScriptEnds
<1>4. PhaseOK'
    BY <1>1 DEF IInv, TypeOK, BytesKept, ServerEnds, ScriptEnds, PhaseOK
<1> QED
    BY <1>2, <1>3, <1>4 DEF IInv

(* A script may give up its output and run on.                             *)
LEMMA CloseStdoutOK ==
    ASSUME IInv, CloseStdout
    PROVE  IInv'
<1> USE DEF CloseStdout, Ends, Procs, server, script
<1>1. /\ ends' \in [Ends -> SUBSET Procs]
      /\ ends'["inR"] = ends["inR"]
      /\ ends'["inW"] = ends["inW"]
      /\ ends'["outR"] = ends["outR"]
      /\ ends'["outW"] = ends["outW"] \ {"child"}
    BY DEF IInv, TypeOK, Without
<1>2. TypeOK' /\ BytesKept'
    BY <1>1 DEF IInv, TypeOK, BytesKept
<1>3. ServerEnds' /\ ScriptEnds'
    BY <1>1 DEF IInv, TypeOK, ServerEnds, ScriptEnds
<1>4. PhaseOK'
    BY <1>1 DEF IInv, TypeOK, BytesKept, ServerEnds, ScriptEnds, PhaseOK
<1> QED
    BY <1>2, <1>3, <1>4 DEF IInv

(* A helper holds what the child holds, so nothing the server waits for is *)
(* reopened.                                                               *)
LEMMA SpawnOK ==
    ASSUME IInv, Spawn
    PROVE  IInv'
<1> USE DEF Spawn, Ends, Procs, server, script
<1>1. TypeOK' /\ BytesKept'
    BY DEF IInv, TypeOK, BytesKept
<1>2. ServerEnds' /\ ScriptEnds'
    BY DEF IInv, TypeOK, ServerEnds, ScriptEnds, PhaseOK
<1>3. PhaseOK'
    BY DEF IInv, TypeOK, BytesKept, ServerEnds, ScriptEnds, PhaseOK
<1> QED
    BY <1>1, <1>2, <1>3 DEF IInv

(* A helper that ends drops all its ends.                                  *)
LEMMA HelperExitOK ==
    ASSUME IInv, HelperExit
    PROVE  IInv'
<1> USE DEF HelperExit, Ends, Procs, server, script
<1>1. /\ ends' \in [Ends -> SUBSET Procs]
      /\ ends'["inR"] = ends["inR"] \ {"helper"}
      /\ ends'["inW"] = ends["inW"] \ {"helper"}
      /\ ends'["outR"] = ends["outR"] \ {"helper"}
      /\ ends'["outW"] = ends["outW"] \ {"helper"}
    BY DEF IInv, TypeOK, Without
<1>2. TypeOK' /\ BytesKept'
    BY <1>1 DEF IInv, TypeOK, BytesKept
<1>3. ServerEnds' /\ ScriptEnds'
    BY <1>1 DEF IInv, TypeOK, ServerEnds, ScriptEnds
<1>4. PhaseOK'
    BY <1>1 DEF IInv, TypeOK, BytesKept, ServerEnds, ScriptEnds, PhaseOK
<1> QED
    BY <1>2, <1>3, <1>4 DEF IInv

(* A step that changes no variable changes none of the parts.              *)
LEMMA StutterOK ==
    ASSUME IInv, UNCHANGED vars
    PROVE  IInv'
BY DEF vars, server, script, IInv, TypeOK, BytesKept, ServerEnds, ScriptEnds, PhaseOK

(* At first there is no call, no child and no byte.                        *)
LEMMA InitOK == Init => IInv
<1> SUFFICES ASSUME Init PROVE IInv
    OBVIOUS
<1>1. TypeOK
    <2>1. ends \in [Ends -> SUBSET Procs]
        BY DEF Init
    <2>2. /\ calls \in 0 .. MaxCalls /\ leaked \in Nat
          /\ toWrite \in 0 .. BodyLen /\ left \in 0 .. Timeout /\ out \in 0 .. OutLen
          /\ stdin \in 0 .. PipeCap /\ stdout \in 0 .. PipeCap
          /\ got \in 0 .. BodyLen /\ produced \in 0 .. OutLen
        BY Constants DEF Init
    <2> QED
        BY <2>1, <2>2 DEF TypeOK, Init
<1>2. BytesKept /\ ServerEnds /\ ScriptEnds /\ PhaseOK
    BY DEF Init, Ends, BytesKept, ServerEnds, ScriptEnds, PhaseOK
<1> QED
    BY <1>1, <1>2 DEF IInv

(* Every step of the server, the clock, the script and the helper keeps    *)
(* the invariant.                                                          *)
LEMMA NextOK ==
    ASSUME IInv, [Next]_vars
    PROVE  IInv'
<1>1. CASE ExecuteFails
    BY <1>1, ExecuteFailsOK
<1>2. CASE Fork
    BY <1>2, ForkOK
<1>3. CASE ServerStep
    BY <1>3, CloseUnusedOK, WriteBodyOK, EndBodyOK, ReadOutputOK, SeeEofOK, KillOK, ReapOK
    DEF ServerStep
<1>4. CASE WriteFails \/ DrainFails
    BY <1>4, WriteFailsOK, DrainFailsOK
<1>5. CASE Tick
    BY <1>5, TickOK
<1>6. CASE ScriptStep
    BY <1>6, ExecOK, ExecFailsOK, ExitOK, CloseStdoutOK, SpawnOK, HelperExitOK,
       ReadStdinOK, WriteStdoutOK DEF ScriptStep
<1>7. CASE UNCHANGED vars
    BY <1>7, StutterOK
<1> QED
    BY <1>1, <1>2, <1>3, <1>4, <1>5, <1>6, <1>7 DEF Next

-----------------------------------------------------------------------------
(***************************************************************************)
(* The theorems.                                                           *)
(***************************************************************************)

(* The pipes and who holds them stay as IInv says, however the server, the *)
(* script and its helper interleave, and whichever calls fail.             *)
THEOREM Invariance == Spec => []IInv
BY InitOK, NextOK, PTL DEF Spec

(* Every variable has its type: no pipe ever holds more than its capacity, *)
(* and neither side counts more bytes than there are.                      *)
THEOREM TypeCorrect == Spec => []TypeOK
<1>1. IInv => TypeOK
    BY DEF IInv
<1> QED
    BY <1>1, Invariance, PTL

(* read_until_eof's Ok is the whole output of the script and of whatever   *)
(* it started, and stays so: nobody can write after it.  It is empty when  *)
(* there was no script, as chdir or execve failed.                         *)
THEOREM OutputAlwaysWhole == Spec => []OutputWhole
<1>1. IInv => OutputWhole
    BY DEF IInv, TypeOK, BytesKept, PhaseOK, OutputWhole
<1> QED
    BY <1>1, Invariance, PTL

(* Whoever reads the end of the script's input has read every byte that    *)
(* write_all sent, and it sent the whole body unless write(2) failed:      *)
(* write_all's end on EPIPE is never seen as the end of the body.          *)
THEOREM BodyAlwaysWhole == Spec => []BodyWhole
<1>1. IInv => BodyWhole
    <2> SUFFICES ASSUME IInv, NEW q \in {"child", "helper"}, q \in ends["inR"],
                        ends["inW"] = {}, stdin = 0
                 PROVE  got = BodyLen - toWrite /\ (toWrite = 0 \/ cut)
        BY DEF BodyWhole
    <2>1. child # "none"
        BY DEF IInv, ScriptEnds, Ends
    <2>2. toWrite = 0 \/ cut
        BY DEF IInv, ServerEnds, PhaseOK
    <2>3. got = BodyLen - toWrite
        BY <2>1, CgiAssumption DEF IInv, TypeOK, BytesKept
    <2> QED
        BY <2>2, <2>3
<1> QED
    BY <1>1, Invariance, PTL

(* When execute returns with a child forked, the server has closed all its *)
(* ends and the child has been reaped.                                     *)
THEOREM ReturnAlwaysClean == Spec => []CleanReturn
<1>1. IInv => CleanReturn
    BY DEF IInv, TypeOK, ServerEnds, ScriptEnds, PhaseOK, CleanReturn, Ends, Procs
<1> QED
    BY <1>1, Invariance, PTL
=============================================================================
