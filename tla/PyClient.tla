------------------------------- MODULE PyClient -----------------------------
(***************************************************************************)
(* The Python client: ClientContext of python/pxprpc/base.py,              *)
(* RpcExtendClient1 and its objects of extend.py, TcpClient.stop of        *)
(* backend.py.  Each operation is a task of its own; the run task matches  *)
(* the answers.  Callbacks given to poll are assumed not to raise.         *)
(***************************************************************************)
EXTENDS RpcState

PyCalls == pair[1] = "python"

PyBegins_forgetsSid(c, k, index) == \* mutant: the id is not marked as used
  /\ Registers(c, k, Free, index, FALSE)
  /\ UNCHANGED usedSid
  /\ nextSid' = Following(Free)

(* An operation up to its first await.  The id of a call whose send raised *)
(* is free again, the one of a poll is not.                                *)
PyBegins(c, k, index) ==
  /\ \/ \E raises \in BOOLEAN :
          /\ Registers(c, k, Free, index, raises)
          /\ usedSid' = IF raises /\ k # "poll" THEN usedSid ELSE usedSid \cup {Free}
     \/ Free = 0 /\ Refused(c, k) /\ UNCHANGED usedSid
  /\ nextSid' = Following(Free)

PyGetFunc(c) ==
  /\ PyBegins(c, "getFunc", Nil)
  /\ UNCHANGED <<crunning, loop, answer, handle, pollOn, told, signals>>

(* RpcExtendClientCallable.__call__ on the object h returned.              *)
PyCall(c, h) ==
  /\ crunning /\ handle[h] # Nil
  /\ PyBegins(c, "call", handle[h])
  /\ UNCHANGED <<crunning, loop, answer, handle, pollOn, told, signals>>

PyPoll(c, h) ==
  /\ crunning /\ handle[h] # Nil
  /\ PyBegins(c, "poll", handle[h])
  /\ pollOn' = [pollOn EXCEPT ![c] = h]
  /\ UNCHANGED <<crunning, loop, answer, handle, told, signals>>

PyFree_keepsValue(c, h) == \* mutant: the object can be freed again
  /\ handle[h] # Nil
  /\ PyBegins(c, "freeRef", handle[h])
  /\ UNCHANGED <<crunning, loop, answer, handle, pollOn, told, signals>>

(* RpcExtendClientObject.free, which __del__ calls too.  Clients do not    *)
(* free what they poll.                                                    *)
PyFree(c, h) ==
  /\ handle[h] # Nil
  /\ \A d \in Call : pc[d] = "polling" => pollOn[d] # h
  /\ PyBegins(c, "freeRef", handle[h])
  /\ handle' = [handle EXCEPT ![h] = Nil]
  /\ UNCHANGED <<crunning, loop, answer, pollOn, told, signals>>

(* signal creates a task that sends ...                                    *)
PySignal(c, h) ==
  /\ crunning /\ handle[h] # Nil
  /\ signals' = Append(signals, [call |-> c, op |-> "call", sid |-> Signal, index |-> handle[h]])
  /\ pc' = [pc EXCEPT ![c] = "returned"] /\ kind' = [kind EXCEPT ![c] = "signal"]
  /\ UNCHANGED <<toServer, waiting, usedSid, nextSid, crunning, loop, mySid,
                 answer, handle, pollOn, told>>

(* ... later.                                                              *)
PySignalSends ==
  /\ signals # <<>>
  /\ SendRequest(Head(signals), FALSE)
  /\ signals' = Tail(signals)
  /\ UNCHANGED <<toClient, lost, waiting, usedSid, nextSid, crunning, loop, pc,
                 kind, mySid, answer, handle, pollOn, told>>

(* ClientContext.close; TcpClient.stop also stops the run task first.      *)
PyCloseClient(c) ==
  /\ \E raises, stop \in BOOLEAN :
       /\ SendRequest([call |-> c, op |-> "close", sid |-> Signal, index |-> Nil], raises)
       /\ pc' = [pc EXCEPT ![c] = IF raises THEN "raised" ELSE "returned"]
       /\ stop => Stops
       /\ crunning' = (raises /\ ~stop /\ crunning)
       /\ loop' = IF stop THEN "ended" ELSE loop
  /\ kind' = [kind EXCEPT ![c] = "close"]
  /\ UNCHANGED <<waiting, usedSid, nextSid, mySid, answer, handle, pollOn, told, signals>>

-----------------------------------------------------------------------------
(* The except clause of run: the waiting operations get the exception up   *)
(* to the first that cannot take it (a callback, or a future that is done).*)
PyReached(w) ==
  LET bad == {k \in 1 .. Len(w) : w[k].callback \/ w[k].done} IN
  {w[k].call : k \in {j \in 1 .. Len(w) : \A b \in bad : j < b}}

PyFails ==
  LET reached == PyReached(waiting) IN
  /\ answer' = [c \in Call |-> IF c \in reached THEN Raised ELSE answer[c]]
  /\ waiting' = [k \in 1 .. Len(waiting) |->
                  [waiting[k] EXCEPT !.done = @ \/ waiting[k].call \in reached]]
  /\ loop' = "ended" /\ crunning' = FALSE

PyRunRaises ==
  /\ loop = "receive" /\ toClient = <<>> /\ Down
  /\ PyFails
  /\ UNCHANGED <<toClient, usedSid, pc, told>>

(* An answer: to a future, to a poll's callback, or to nobody, which       *)
(* raises.                                                                 *)
PyRunReceives ==
  /\ loop = "receive" /\ toClient # <<>>
  /\ toClient' = Tail(toClient)
  /\ LET m == Head(toClient)
         keys == KeyOf(m.sid)
         e == waiting[CHOOSE k \in keys : TRUE]
         rest == Without(waiting, m.sid)
         last == e.callback /\ m.rejected IN
     IF keys = {} THEN PyFails /\ UNCHANGED <<usedSid, pc, told>>
     ELSE
       /\ answer' = IF e.done THEN answer ELSE [answer EXCEPT ![e.call] = m]
       /\ waiting' = IF e.callback /\ ~last THEN Append(rest, e) ELSE rest
       /\ usedSid' = IF last THEN usedSid \ {m.sid} ELSE usedSid
       /\ pc' = IF last THEN [pc EXCEPT ![e.call] = "returned"] ELSE pc
       /\ told' = IF last THEN [told EXCEPT ![e.call] = @ + 1] ELSE told
       /\ loop' = (IF crunning THEN "receive" ELSE "ended")
       /\ UNCHANGED crunning

PyRun ==
  /\ PyCalls
  /\ PyRunRaises \/ PyRunReceives
  /\ UNCHANGED <<pair, toServer, lost, serverVars, nextSid, kind, mySid, handle,
                 pollOn, signals>>

-----------------------------------------------------------------------------
(* c leaves its operation, and its id is free again. *)
Leave(c, state) ==
  /\ pc' = [pc EXCEPT ![c] = state]
  /\ usedSid' = usedSid \ {mySid[c]}
  /\ answer' = [answer EXCEPT ![c] = None] /\ mySid' = [mySid EXCEPT ![c] = Signal]

(* The task of c goes on with its answer. *)
PyResume(c) ==
  LET m == answer[c] IN
  /\ PyCalls /\ pc[c] = "waiting" /\ m # None
  /\ Leave(c, IF m.rejected THEN "raised" ELSE "returned")
  /\ handle' = IF m.rejected \/ kind[c] \notin {"getFunc", "call"} THEN handle
               ELSE [handle EXCEPT ![c] = m.value]
  /\ UNCHANGED <<pair, netVars, serverVars, waiting, nextSid, crunning, loop,
                 kind, pollOn, told, signals>>

(* The task of c is cancelled while it waits; its future is done.          *)
PyCancel(c) ==
  /\ PyCalls /\ Cancels /\ pc[c] = "waiting"
  /\ Leave(c, "cancelled")
  /\ waiting' = [k \in 1 .. Len(waiting) |->
                  [waiting[k] EXCEPT !.done = @ \/ waiting[k].call = c]]
  /\ UNCHANGED <<pair, netVars, serverVars, nextSid, crunning, loop, kind,
                 handle, pollOn, told, signals>>

PyOperation(c) ==
  /\ PyCalls /\ MayBegin(c)
  /\ \/ PyGetFunc(c) \/ PyCloseClient(c)
     \/ \E h \in Call : PyCall(c, h) \/ PyPoll(c, h) \/ PyFree(c, h) \/ PySignal(c, h)
  /\ UNCHANGED <<pair, toClient, lost, serverVars>>

PyClientTask ==
  \/ PyRun
  \/ PySignalSends /\ UNCHANGED <<pair, serverVars>>
  \/ \E c \in Call : PyOperation(c) \/ PyResume(c) \/ PyCancel(c)
=============================================================================
