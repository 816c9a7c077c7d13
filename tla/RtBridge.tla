------------------------------ MODULE RtBridge ------------------------------
(***************************************************************************)
(* The blocking calls of the runtime bridge                                *)
(* (runtime_bridge/src/pxprpc_rtbridge.c): threads hand a request that     *)
(* lives on their own stack to the loop thread and wait on its semaphore;  *)
(* the loop thread takes the whole queue when its async handle wakes it    *)
(* and carries the requests out on the pipe.                               *)
(*                                                                         *)
(* One pipe connection is used, by the loop thread alone, and its          *)
(* callbacks only post semaphores: no other thread sees the connection     *)
(* inside a call of the pipe, which is therefore one step here.  (Pipe has *)
(* the calls in detail, and JavaClose the close that Java runs on a thread *)
(* of its own.)  A request is named by the caller that waits for it.       *)
(***************************************************************************)
EXTENDS Integers, Sequences, FiniteSets

CONSTANTS
  Caller,      \* the threads that make blocking calls
  NoCaller,
  Deinits,     \* do callers call pxprpc_rtbridge_deinit?
  SharedClose, \* do threads close a side other threads are using?
  Overlaps     \* do two threads receive on a side at once?

ASSUME BridgeAssumption ==
  /\ NoCaller \notin Caller
  /\ {Deinits, SharedClose, Overlaps} \subseteq BOOLEAN

Side == {"client", "server"}
Peer(s) == IF s = "client" THEN "server" ELSE "client"

Kind == {"receive", "send", "connect", "close", "stop"}

VARIABLES
  inited, exec, \* rtbloop and pxprpc_pipe_executor are not NULL
  stopping,     \* uv_stop was called
  wake,         \* _rtbwakeup is pending
  queue, batch, \* _rtbasyncqueue, and the requests _rtbasyncb took from it
  loop,         \* what the loop thread does: it polls, takes the queue, runs
                \* the batch, is inside the pipe, or shuts down
  pc,           \* what each caller does
  kind, side,   \* its request
  sem, failed,  \* the request's semaphore was posted; its err is set
  conn,         \* the connection: "none", "open", "freed"
  recvP, sendP, \* its pending receives and sends
  sideClosed,
  recvErr,      \* io->receive_error of each side is set
  closing,      \* a close of the side was begun
  got,          \* history: the receive took a packet
  deinited,     \* history: deinit returned, and no start since succeeded
  refused       \* history: a start after deinit answered "inited"

lifeVars == <<inited, exec, stopping>>
loopVars == <<wake, queue, batch, loop>>
callVars == <<pc, kind, side>>
doneVars == <<sem, failed, got>>
connVars == <<conn, recvP, sendP, sideClosed, recvErr>>
pastVars == <<deinited, refused>>
vars == <<lifeVars, loopVars, callVars, doneVars, connVars, closing, pastVars>>

Init ==
  /\ inited = FALSE /\ exec = FALSE /\ stopping = FALSE
  /\ wake = FALSE /\ queue = <<>> /\ batch = <<>> /\ loop = "none"
  /\ pc = [c \in Caller |-> "idle"]
  /\ kind = [c \in Caller |-> "connect"] /\ side = [c \in Caller |-> "client"]
  /\ sem = [c \in Caller |-> FALSE] /\ failed = [c \in Caller |-> FALSE]
  /\ got = [c \in Caller |-> FALSE]
  /\ conn = "none" /\ recvP = [s \in Side |-> NoCaller]
  /\ sendP = [s \in Side |-> <<>>]
  /\ sideClosed = [s \in Side |-> FALSE] /\ recvErr = [s \in Side |-> FALSE]
  /\ closing = [s \in Side |-> FALSE]
  /\ deinited = FALSE /\ refused = FALSE

-----------------------------------------------------------------------------
(* Starting and stopping. *)

(* pxprpc_rtbridge_init_and_run, which returns when the loop thread it     *)
(* creates runs.  A queue an earlier loop left behind stays.               *)
Start(c) ==
  /\ pc[c] = "idle"
  /\ IF inited
     THEN /\ refused' = (refused \/ deinited)
          /\ UNCHANGED <<lifeVars, loopVars, deinited>>
     ELSE /\ inited' = TRUE /\ exec' = TRUE /\ stopping' = FALSE
          /\ wake' = FALSE /\ loop' = "poll"
          /\ deinited' = FALSE
          /\ UNCHANGED <<queue, batch, refused>>
  /\ UNCHANGED <<callVars, doneVars, connVars, closing>>

(* uv_run returns: the executor goes first, ... *)
LoopStops ==
  /\ loop = "poll" /\ stopping
  /\ loop' = "ending"
  /\ exec' = FALSE
  /\ UNCHANGED <<inited, stopping, wake, queue, batch, callVars, doneVars,
                 connVars, closing, pastVars>>

(* ... then the handles, the loop and rtbloop.  Requests still queued stay. *)
LoopEnds ==
  /\ loop = "ending"
  /\ loop' = "none"
  /\ inited' = FALSE /\ stopping' = FALSE /\ wake' = FALSE
  /\ UNCHANGED <<exec, queue, batch, callVars, doneVars, connVars,
                 closing, pastVars>>

-----------------------------------------------------------------------------
(* The callers. *)

OthersUse(c, s) ==
  \E d \in Caller \ {c} :
    pc[d] # "idle" /\ side[d] = s /\ kind[d] \in {"receive", "send", "close"}

(* When threads make which call.  A side is not used after its close was   *)
(* begun.  pipe_connect gives the client side to its caller; the pipe's    *)
(* server gets the other one.                                              *)
MayCall(c, k, s) ==
  CASE k = "connect" -> /\ exec /\ conn = "none" /\ s = "client"
                        /\ \A d \in Caller : pc[d] # "idle" => kind[d] # "connect"
    [] k \in {"receive", "send"} ->
         /\ conn = "open" /\ ~closing[s]
         /\ k = "send" \/ Overlaps \/
              \A d \in Caller : pc[d] # "idle" => ~(kind[d] = k /\ side[d] = s)
    [] k = "close" -> /\ conn = "open" /\ ~closing[s]
                      /\ SharedClose \/ ~OthersUse(c, s)
    [] k = "stop" -> /\ Deinits /\ exec /\ s = "client"
                     /\ \A d \in Caller : pc[d] # "idle" => kind[d] # "stop"

Begin(c) ==
  /\ pc[c] = "idle"
  /\ \E k \in Kind, s \in Side :
       /\ MayCall(c, k, s)
       /\ kind' = [kind EXCEPT ![c] = k]
       /\ side' = [side EXCEPT ![c] = s]
       /\ closing' = [closing EXCEPT ![s] = @ \/ k = "close"]
  /\ pc' = [pc EXCEPT ![c] = "dispatch"]
  /\ sem' = [sem EXCEPT ![c] = FALSE]
  /\ got' = [got EXCEPT ![c] = FALSE]
  /\ failed' = [failed EXCEPT ![c] = FALSE]
  /\ UNCHANGED <<lifeVars, loopVars, connVars, pastVars>>

(* _rtbioreqdispatch calls through pxprpc_pipe_executor. *)
Dispatch(c) ==
  /\ pc[c] = "dispatch"
  /\ pc' = [pc EXCEPT ![c] = IF exec THEN "push" ELSE "crashed"]
  /\ UNCHANGED <<lifeVars, loopVars, kind, side, doneVars, connVars,
                 closing, pastVars>>

(* pxprpc_rtbridge_async_exec: link the request under the mutex, ... *)
Push(c) ==
  /\ pc[c] = "push"
  /\ queue' = <<c>> \o queue
  /\ pc' = [pc EXCEPT ![c] = "queued"]
  /\ UNCHANGED <<lifeVars, wake, batch, loop, kind, side, doneVars,
                 connVars, closing, pastVars>>

WakeUp_ifEmpty(c) == \* mutant: wakes the loop only for the first request
  /\ pc[c] = "queued"
  /\ wake' = (wake \/ Len(queue) = 1)
  /\ pc' = [pc EXCEPT ![c] = "wait"]
  /\ UNCHANGED <<lifeVars, queue, batch, loop, kind, side, doneVars,
                 connVars, closing, pastVars>>

(* ... then uv_async_send, which coalesces with a wake-up that is pending. *)
WakeUp(c) ==
  /\ pc[c] = "queued"
  /\ wake' = TRUE
  /\ pc' = [pc EXCEPT ![c] = "wait"]
  /\ UNCHANGED <<lifeVars, queue, batch, loop, kind, side, doneVars,
                 connVars, closing, pastVars>>

(* uv_sem_wait returns, and the request's memory goes out of scope. *)
Return(c) ==
  /\ pc[c] = "wait" /\ sem[c]
  /\ pc' = [pc EXCEPT ![c] = "idle"]
  /\ deinited' = (deinited \/ kind[c] = "stop")
  /\ UNCHANGED <<lifeVars, loopVars, kind, side, doneVars, connVars,
                 closing, refused>>

-----------------------------------------------------------------------------
(* The pipe, as far as its callers see it. *)

AnyClosed == \E s \in Side : sideClosed[s]

(* _rtbiocb of the requests ds: err from the io, then the semaphore. *)
Complete(ds, errs) ==
  /\ sem' = [d \in Caller |-> sem[d] \/ d \in ds]
  /\ failed' = [d \in Caller |-> IF d \in ds THEN d \in errs ELSE failed[d]]

(* A send of side s meets a receive of the other side.  The receiver reads *)
(* the error from its io.                                                  *)
Transfer(s, rcv, snd, error) ==
  /\ Complete({rcv, snd}, IF error THEN {rcv} ELSE {})
  /\ got' = [got EXCEPT ![rcv] = TRUE]

PipeReceive(c) ==
  LET s == side[c] IN
  IF recvP[s] # NoCaller \/ AnyClosed
  THEN /\ recvErr' = [recvErr EXCEPT ![s] = TRUE]
       /\ Complete({c}, {c})
       /\ UNCHANGED <<recvP, sendP, got>>
  ELSE /\ recvErr' = [recvErr EXCEPT ![s] = FALSE]
       /\ IF sendP[Peer(s)] = <<>>
          THEN recvP' = [recvP EXCEPT ![s] = c] /\ UNCHANGED <<sendP, doneVars>>
          ELSE /\ Transfer(Peer(s), c, Head(sendP[Peer(s)]), FALSE)
               /\ sendP' = [sendP EXCEPT ![Peer(s)] = Tail(@)]
               /\ UNCHANGED recvP

PipeSend(c) ==
  LET s == side[c] p == recvP[Peer(s)] IN
  /\ IF AnyClosed
     THEN Complete({c}, {c}) /\ UNCHANGED <<recvP, sendP, got>>
     ELSE IF p = NoCaller
     THEN sendP' = [sendP EXCEPT ![s] = Append(@, c)] /\ UNCHANGED <<recvP, doneVars>>
     ELSE /\ Transfer(s, p, c, recvErr[Peer(s)])
          /\ recvP' = [recvP EXCEPT ![Peer(s)] = NoCaller]
          /\ UNCHANGED sendP
  /\ UNCHANGED recvErr

Pending == {d \in Caller : \E s \in Side :
              recvP[s] = d \/ \E k \in 1 .. Len(sendP[s]) : sendP[s][k] = d}

PipeClose_errorAfter(c) == \* mutant: the errors are set after the callbacks
  /\ Complete(Pending \cup {c}, {d \in Pending : recvErr[side[d]]})
  /\ recvP' = [s \in Side |-> NoCaller] /\ sendP' = [s \in Side |-> <<>>]
  /\ recvErr' = [s \in Side |-> TRUE]
  /\ sideClosed' = [sideClosed EXCEPT ![side[c]] = TRUE]
  /\ conn' = IF sideClosed[Peer(side[c])] THEN "freed" ELSE conn
  /\ UNCHANGED got

PipeClose_anySide(c) == \* mutant: the first close gives the memory back
  /\ Complete(Pending \cup {c}, Pending)
  /\ recvP' = [s \in Side |-> NoCaller] /\ sendP' = [s \in Side |-> <<>>]
  /\ recvErr' = [s \in Side |-> TRUE]
  /\ sideClosed' = [sideClosed EXCEPT ![side[c]] = TRUE]
  /\ conn' = "freed"
  /\ UNCHANGED got

PipeClose(c) ==
  /\ Complete(Pending \cup {c}, Pending)
  /\ recvP' = [s \in Side |-> NoCaller] /\ sendP' = [s \in Side |-> <<>>]
  /\ recvErr' = [s \in Side |-> TRUE]
  /\ sideClosed' = [sideClosed EXCEPT ![side[c]] = TRUE]
  /\ conn' = IF sideClosed[Peer(side[c])] THEN "freed" ELSE conn
  /\ UNCHANGED got

-----------------------------------------------------------------------------
(* The loop thread. *)

(* The async handle fires: its pending flag is cleared, then _rtbasyncb    *)
(* runs ...                                                                *)
AsyncWakes ==
  /\ loop = "poll" /\ wake /\ ~stopping
  /\ wake' = FALSE
  /\ loop' = "take"
  /\ UNCHANGED <<lifeVars, queue, batch, callVars, doneVars, connVars,
                 closing, pastVars>>

AsyncTakes_keepsQueue == \* mutant: the shared list is not emptied
  /\ loop = "take"
  /\ batch' = queue
  /\ loop' = "run"
  /\ UNCHANGED <<lifeVars, wake, queue, callVars, doneVars, connVars,
                 closing, pastVars>>

(* ... and takes the queue under the mutex. *)
AsyncTakes ==
  /\ loop = "take"
  /\ batch' = queue /\ queue' = <<>>
  /\ loop' = "run"
  /\ UNCHANGED <<lifeVars, wake, callVars, doneVars, connVars, closing,
                 pastVars>>

(* _rtbiohandle for the next request of the batch: stopping the loop, or a *)
(* call of the pipe, which it enters here.                                 *)
HandleNext ==
  /\ loop = "run"
  /\ IF batch = <<>>
     THEN loop' = "poll" /\ UNCHANGED <<stopping, batch, doneVars>>
     ELSE IF kind[Head(batch)] = "stop"
     THEN /\ stopping' = TRUE
          /\ Complete({Head(batch)}, {})
          /\ batch' = Tail(batch)
          /\ UNCHANGED <<loop, got>>
     ELSE loop' = "pipe" /\ UNCHANGED <<stopping, batch, doneVars>>
  /\ UNCHANGED <<inited, exec, wake, queue, callVars, connVars, closing, pastVars>>

HandlePipe ==
  LET c == Head(batch) IN
  /\ loop = "pipe"
  /\ CASE kind[c] = "connect" ->
            /\ conn' = "open" /\ Complete({c}, {})
            /\ UNCHANGED <<recvP, sendP, sideClosed, recvErr, got>>
       [] kind[c] = "receive" ->
            conn = "open" /\ PipeReceive(c) /\ UNCHANGED <<conn, sideClosed>>
       [] kind[c] = "send" ->
            conn = "open" /\ PipeSend(c) /\ UNCHANGED <<conn, sideClosed>>
       [] kind[c] = "close" -> conn = "open" /\ PipeClose(c)
  /\ batch' = Tail(batch)
  /\ loop' = "run"
  /\ UNCHANGED <<lifeVars, wake, queue, callVars, closing, pastVars>>

LoopThread == AsyncWakes \/ AsyncTakes \/ HandleNext \/ HandlePipe
              \/ LoopStops \/ LoopEnds

CallerRuns(c) == Dispatch(c) \/ Push(c) \/ WakeUp(c) \/ Return(c)

Next == LoopThread \/ \E c \in Caller : Start(c) \/ Begin(c) \/ CallerRuns(c)

Spec == Init /\ [][Next]_vars

(* Threads and the loop are scheduled; nobody has to begin a call. *)
FairSpec == Spec /\ WF_vars(LoopThread) /\ \A c \in Caller : WF_vars(CallerRuns(c))
-----------------------------------------------------------------------------
Occurs(q, c) == Cardinality({k \in 1 .. Len(q) : q[k] = c})
B2N(b) == IF b THEN 1 ELSE 0

(* A request lives on its caller's stack: while the caller waits unposted  *)
(* exactly one place (the queue, the batch, the pipe) refers to it, and    *)
(* none does once its semaphore is posted, for then the memory goes.  (The *)
(* list a close drains names a posted send until it is unlinked, in the    *)
(* same step here, and nothing follows the name.)                          *)
RequestOnce ==
  \A c \in Caller :
    Occurs(queue, c) + Occurs(batch, c)
      + Cardinality({s \in Side : recvP[s] = c})
      + Occurs(sendP["client"], c) + Occurs(sendP["server"], c)
    = B2N(pc[c] \in {"queued", "wait"} /\ ~sem[c])

(* A receive fails when it took no packet, and only then. *)
ResultTrue ==
  \A c \in Caller :
    kind[c] = "receive" /\ sem[c] => (failed[c] <=> ~got[c])

(* The loop thread enters the pipe for no request whose connection was     *)
(* given back: although requests of different threads are carried out in   *)
(* another order than they were made, none is left when the second side    *)
(* closes.                                                                 *)
NoUseAfterFree == loop = "pipe" => conn # "freed"

(* A start after deinit returned does not find the bridge inited. *)
StartsAfterDeinit == ~refused

(* A connect, close or deinit handed to a loop that runs, and a receive or *)
(* send on a connection one side of which is closed, returns to its caller *)
(* unless the loop is stopped first: the wake-up is not lost between a     *)
(* thread that queues its request and the loop that takes the queue.       *)
CallsReturn ==
  \A c \in Caller :
    (/\ (pc[c] = "push" \/ c \in Pending) /\ exec /\ ~stopping
     /\ AnyClosed \/ kind[c] \in {"connect", "close", "stop"})
      ~> pc[c] = "idle" \/ stopping \/ deinited
=============================================================================
