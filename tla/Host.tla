-------------------------------- MODULE Host --------------------------------
(***************************************************************************)
(* The start of the bridge, pxprpc_rtbridge_host::ensureInited and         *)
(* pxprpc_rtbridge_init_and_run, by several threads of a process, and what *)
(* runs on the loop it starts: the pipe servers.                           *)
(*                                                                         *)
(* A thread reads and writes inited, rtbloop and _lastRtbErr without a     *)
(* lock; each access is a step.  RtBridge models the loop once it runs.    *)
(***************************************************************************)
EXTENDS PipeServers

CONSTANT Thread \* the threads that call ensureInited, once each

ASSUME HostAssumption == Nil \notin Thread

VARIABLES
  inited,
  rtbloop,     \* the thread for which the loop was made, or Nil
  lastErr,     \* _lastRtbErr is set
  pc,          \* where a thread is in ensureInited
  loop,        \* where the loop thread it created is
  err, uvloop, \* what a thread got: an error; uvloop, which all share
  posted,      \* its runnable waits in the executor's queue
  overlap,     \* history: two threads were in init_and_run at a time
  lost         \* history: a start destroyed or replaced a loop, or ran
               \* another's

startVars == <<inited, rtbloop, lastErr, pc, loop, err, uvloop, posted, overlap, lost>>
vars == <<pipeVars, startVars>>

Init ==
  /\ PipeInit
  /\ inited = 0 /\ rtbloop = Nil /\ lastErr = FALSE
  /\ pc = [t \in Thread |-> "read"] /\ loop = [t \in Thread |-> "none"]
  /\ err = [t \in Thread |-> FALSE] /\ uvloop = Nil
  /\ posted = {} /\ overlap = FALSE /\ lost = FALSE

Goto(t, to) == pc' = [pc EXCEPT ![t] = to]

Starting == {t \in Thread : pc[t] \in {"create", "wait", "result"}}

-----------------------------------------------------------------------------
(* ensureInited: the first sees 0 ... *)
ReadInited(t) ==
  /\ pc[t] = "read"
  /\ IF inited = 0 THEN Goto(t, "write") /\ UNCHANGED err
     ELSE Goto(t, "done") /\ err' = [err EXCEPT ![t] = TRUE]
  /\ UNCHANGED <<inited, rtbloop, lastErr, loop, uvloop, posted, overlap, lost>>

(* ... and sets it. *)
WriteInited(t) ==
  /\ pc[t] = "write"
  /\ inited' = 1
  /\ Goto(t, "start")
  /\ UNCHANGED <<rtbloop, lastErr, loop, err, uvloop, posted, overlap, lost>>

(* pxprpc_rtbridge_init_and_run up to uv_thread_create. *)
StartLoop(t) ==
  /\ pc[t] = "start"
  /\ IF rtbloop # Nil
     THEN /\ Goto(t, "done") /\ err' = [err EXCEPT ![t] = TRUE]
          /\ UNCHANGED <<lastErr, overlap>>
     ELSE /\ Goto(t, "create")
          /\ lastErr' = FALSE
          /\ overlap' = (overlap \/ Starting # {})
          /\ UNCHANGED err
  /\ UNCHANGED <<inited, rtbloop, loop, uvloop, posted, lost>>

CreateLoop(t) ==
  /\ pc[t] = "create"
  /\ Goto(t, "wait")
  /\ loop' = [loop EXCEPT ![t] = "check"]
  /\ UNCHANGED <<inited, rtbloop, lastErr, err, uvloop, posted, overlap, lost>>

(* _newloopthread: a loop is there already. *)
LoopCheck(t) ==
  /\ loop[t] = "check"
  /\ IF rtbloop = Nil
     THEN loop' = [loop EXCEPT ![t] = "init"] /\ UNCHANGED lastErr
     ELSE loop' = [loop EXCEPT ![t] = "posted"] /\ lastErr' = TRUE
  /\ UNCHANGED <<inited, rtbloop, pc, err, uvloop, posted, overlap, lost>>

(* pxprpc_rtbridge_init_uv: there is a loop, again ... *)
LoopInit(t) ==
  /\ loop[t] = "init"
  /\ IF rtbloop = Nil
     THEN loop' = [loop EXCEPT ![t] = "set"] /\ UNCHANGED lastErr
     ELSE loop' = [loop EXCEPT ![t] = "test"] /\ lastErr' = TRUE
  /\ UNCHANGED <<inited, rtbloop, pc, err, uvloop, posted, overlap, lost>>

LoopSet_late(t) == \* mutant: the semaphore is posted before the loop is set
  /\ loop[t] = "set"
  /\ lastErr' = FALSE
  /\ loop' = [loop EXCEPT ![t] = "test"]
  /\ UNCHANGED <<inited, rtbloop, pc, err, uvloop, posted, overlap, lost>>

(* ... or there is not. *)
LoopSet(t) ==
  /\ loop[t] = "set"
  /\ rtbloop' = t /\ lastErr' = FALSE
  /\ loop' = [loop EXCEPT ![t] = "test"]
  /\ lost' = (lost \/ rtbloop # Nil)
  /\ UNCHANGED <<inited, pc, err, uvloop, posted, overlap>>

(* _lastRtbErr is read back, whoever wrote it last: the thread frees the   *)
(* loop that is set, or runs it.                                           *)
LoopTest(t) ==
  /\ loop[t] = "test"
  /\ IF lastErr
     THEN /\ rtbloop' = Nil
          /\ loop' = [loop EXCEPT ![t] = "posted"]
     ELSE /\ loop' = [loop EXCEPT ![t] = "running"]
          /\ UNCHANGED rtbloop
  /\ lost' = (lost \/ lastErr \/ rtbloop # t)
  /\ UNCHANGED <<inited, lastErr, pc, err, uvloop, posted, overlap>>

(* init_and_run after uv_sem_wait. *)
Started(t) ==
  /\ pc[t] = "wait" /\ loop[t] \in {"running", "posted"}
  /\ err' = [err EXCEPT ![t] = lastErr]
  /\ lastErr' = FALSE
  /\ Goto(t, "result")
  /\ UNCHANGED <<inited, rtbloop, loop, uvloop, posted, overlap, lost>>

(* The loop goes to the caller; ensureInited posts the rest, unless it has *)
(* an error.                                                               *)
Result(t) ==
  /\ pc[t] = "result"
  /\ uvloop' = rtbloop
  /\ posted' = IF err[t] THEN posted ELSE posted \cup {t}
  /\ Goto(t, "done")
  /\ UNCHANGED <<inited, rtbloop, lastErr, loop, err, overlap, lost>>

(* The runnable, on the loop. *)
Runnable(t) ==
  /\ t \in posted /\ fault = "none" /\ accepting = <<>>
  /\ \E u \in Thread : loop[u] = "running"
  /\ ServeManager
  /\ inited' = 3
  /\ posted' = posted \ {t}
  /\ UNCHANGED <<rtbloop, lastErr, pc, loop, err, uvloop, overlap, lost>>

StartNext ==
  \E t \in Thread :
    \/ /\ \/ ReadInited(t) \/ WriteInited(t) \/ StartLoop(t) \/ CreateLoop(t)
          \/ LoopCheck(t) \/ LoopInit(t) \/ LoopSet(t) \/ LoopTest(t)
          \/ Started(t) \/ Result(t)
       /\ UNCHANGED pipeVars
    \/ Runnable(t)

(* The functions of clients exist once the runnable ran. *)
Next ==
  /\ fault = "none" /\ ~lost
  /\ \/ StartNext
     \/ inited = 3 /\ PipeNext /\ UNCHANGED startVars

Spec == Init /\ [][Next]_vars
-----------------------------------------------------------------------------
(* Two threads may be in init_and_run at a time: inited is read and set in *)
(* two steps.  As long as no start destroyed a loop, one runs at most, and *)
(* a thread that was told its start succeeded - be it because another      *)
(* thread took its error - has the loop that is set.  A start destroys a   *)
(* loop only if two were under way; and if none ever were, a thread that   *)
(* was told so runs the loop it made.                                      *)
StartExact ==
  /\ ~lost =>
       /\ Cardinality({t \in Thread : loop[t] = "running"}) <= 1
       /\ \A t \in Thread : pc[t] = "done" /\ ~err[t] =>
            /\ rtbloop # Nil /\ uvloop = rtbloop
            /\ loop[rtbloop] \in {"test", "running"}
  /\ ~overlap =>
       /\ ~lost
       /\ \A t \in Thread : pc[t] = "done" /\ ~err[t] =>
            loop[t] = "running" /\ rtbloop = t
=============================================================================
