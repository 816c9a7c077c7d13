------------------------------- MODULE TsClient -----------------------------
(***************************************************************************)
(* The TypeScript client: Client of typescript/pxprpc/base.ts,             *)
(* RpcExtendClient1 and its objects of extend.ts.  The Io's receive is     *)
(* assumed to raise when the connection ends or is closed.  Callbacks      *)
(* given to poll are assumed not to throw.                                 *)
(***************************************************************************)
EXTENDS RpcState

TsCalls == pair[1] = "typescript"

(* An operation up to its first await. *)
TsBegins(c, k, index) ==
  /\ nextSid' = Following(Free)
  /\ \/ \E raises \in BOOLEAN :
          /\ Registers(c, k, Free, index, raises)
          /\ usedSid' = IF raises THEN usedSid ELSE usedSid \cup {Free}
          /\ told' = IF raises /\ k = "poll" THEN [told EXCEPT ![c] = @ + 1] ELSE told
     \/ Free = 0 /\ Refused(c, k) /\ UNCHANGED <<usedSid, told>>

TsGetFunc(c) ==
  /\ crunning
  /\ TsBegins(c, "getFunc", Nil)
  /\ UNCHANGED <<crunning, loop, answer, handle, pollOn, lost, toClient>>

(* RpcExtendClientCallable.call. *)
TsCall(c, h) ==
  /\ crunning /\ handle[h] # Nil
  /\ TsBegins(c, "call", handle[h])
  /\ UNCHANGED <<crunning, loop, answer, handle, pollOn, lost, toClient>>

TsPoll(c, h) ==
  /\ crunning /\ handle[h] # Nil
  /\ TsBegins(c, "poll", handle[h])
  /\ pollOn' = [pollOn EXCEPT ![c] = h]
  /\ UNCHANGED <<crunning, loop, answer, handle, lost, toClient>>

(* A poll takes its id before it finds that the client does not run.       *)
TsPollRefused(c, h) ==
  /\ ~crunning /\ handle[h] # Nil
  /\ Refused(c, "poll")
  /\ usedSid' = usedSid \cup ({Free} \ {0}) /\ nextSid' = Following(Free)
  /\ UNCHANGED <<crunning, loop, answer, handle, pollOn, told, lost, toClient>>

(* RpcExtendClientObject.free.  Clients do not free what they poll.        *)
TsFree(c, h) ==
  /\ handle[h] # Nil
  /\ \A d \in Call : pc[d] = "polling" => pollOn[d] # h
  /\ handle' = IF Free = 0 THEN handle ELSE [handle EXCEPT ![h] = Nil]
  /\ TsBegins(c, "freeRef", handle[h])
  /\ UNCHANGED <<crunning, loop, answer, pollOn, lost, toClient>>

TsSignal(c, h) ==
  /\ crunning /\ handle[h] # Nil
  /\ SendRequest([call |-> c, op |-> "call", sid |-> Signal, index |-> handle[h]], FALSE)
  /\ pc' = [pc EXCEPT ![c] = "returned"] /\ kind' = [kind EXCEPT ![c] = "signal"]
  /\ UNCHANGED <<waiting, usedSid, nextSid, crunning, loop, mySid, answer,
                 handle, pollOn, told, lost, toClient>>

(* close: the server still gets the request; the client gets at most the   *)
(* packet that its Io has handed over.                                     *)
TsCloseClient(c) ==
  /\ \E raises \in BOOLEAN :
       /\ SendRequest([call |-> c, op |-> "close", sid |-> Signal, index |-> Nil], raises)
       /\ pc' = [pc EXCEPT ![c] = IF raises THEN "raised" ELSE "returned"]
       /\ IF raises THEN UNCHANGED <<crunning, lost, toClient>>
          ELSE /\ crunning' = FALSE /\ lost' = TRUE
               /\ \E n \in (0 .. 1) \cap (0 .. Len(toClient)) : toClient' = SubSeq(toClient, 1, n)
  /\ kind' = [kind EXCEPT ![c] = "close"]
  /\ UNCHANGED <<waiting, usedSid, nextSid, loop, mySid, answer, handle, pollOn, told>>

-----------------------------------------------------------------------------
(* The catch clause of run: every operation of the table gets the error.   *)
TsFails ==
  LET all == {waiting[k].call : k \in 1 .. Len(waiting)}
      polls == {waiting[k].call : k \in {j \in 1 .. Len(waiting) : waiting[j].callback}} IN
  /\ answer' = [c \in Call |-> IF c \in all \ polls /\ pc[c] = "waiting" /\ answer[c] = None
                               THEN Raised ELSE answer[c]]
  /\ told' = [c \in Call |-> IF c \in polls THEN told[c] + 1 ELSE told[c]]
  /\ usedSid' = usedSid \ {mySid[c] : c \in polls}
  /\ pc' = [c \in Call |-> IF pc[c] = "polling" THEN "returned" ELSE pc[c]]
  /\ loop' = "ended" /\ crunning' = FALSE
  /\ UNCHANGED waiting

TsRunRaises ==
  /\ loop = "receive" /\ toClient = <<>> /\ Down
  /\ TsFails
  /\ UNCHANGED toClient

(* An answer: to a promise, whose entry stays until the operation goes on, *)
(* to a poll, or to nobody, which throws.                                  *)
TsRunReceives ==
  /\ loop = "receive" /\ toClient # <<>>
  /\ toClient' = Tail(toClient)
  /\ LET m == Head(toClient)
         keys == KeyOf(m.sid)
         e == waiting[CHOOSE k \in keys : TRUE]
         last == e.callback /\ m.rejected IN
     IF keys = {} THEN TsFails
     ELSE
       /\ answer' = [answer EXCEPT ![e.call] = m]
       /\ waiting' = IF last THEN Without(waiting, m.sid) ELSE waiting
       /\ usedSid' = IF last THEN usedSid \ {m.sid} ELSE usedSid
       /\ pc' = IF last THEN [pc EXCEPT ![e.call] = "returned"] ELSE pc
       /\ told' = IF last THEN [told EXCEPT ![e.call] = @ + 1] ELSE told
       /\ loop' = (IF crunning THEN "receive" ELSE "ended")
       /\ UNCHANGED crunning

TsRun ==
  /\ TsCalls
  /\ TsRunRaises \/ TsRunReceives
  /\ UNCHANGED <<pair, toServer, lost, serverVars, nextSid, kind, mySid, handle,
                 pollOn, signals>>

(* The operation c goes on with its answer.  The entry is deleted when it  *)
(* was answered, not when it was given the error of run.                   *)
TsResume(c) ==
  LET m == answer[c] IN
  /\ TsCalls /\ pc[c] = "waiting" /\ m # None
  /\ pc' = [pc EXCEPT ![c] = IF m.rejected THEN "raised" ELSE "returned"]
  /\ handle' = IF m.rejected \/ kind[c] \notin {"getFunc", "call"} THEN handle
               ELSE [handle EXCEPT ![c] = m.value]
  /\ waiting' = IF m = Raised THEN waiting ELSE Without(waiting, mySid[c])
  /\ usedSid' = usedSid \ {mySid[c]}
  /\ answer' = [answer EXCEPT ![c] = None] /\ mySid' = [mySid EXCEPT ![c] = Signal]
  /\ UNCHANGED <<pair, netVars, serverVars, nextSid, crunning, loop, kind,
                 pollOn, told, signals>>

TsOperation(c) ==
  /\ TsCalls /\ MayBegin(c)
  /\ \/ TsGetFunc(c) \/ TsCloseClient(c)
     \/ \E h \in Call : TsCall(c, h) \/ TsPoll(c, h) \/ TsPollRefused(c, h)
                     \/ TsFree(c, h) \/ TsSignal(c, h)
  /\ UNCHANGED <<pair, serverVars, signals>>

TsClientTask ==
  \/ TsRun
  \/ \E c \in Call : TsOperation(c) \/ TsResume(c)
=============================================================================
