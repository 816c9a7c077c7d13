----------------------------- MODULE PxpServer ------------------------------
(***************************************************************************)
(* The server context of c/pxprpc/server.c on one connection.              *)
(*                                                                         *)
(* The server runs on one thread and is written in continuation style:     *)
(* each C function is one action here, and "stack" holds what the thread   *)
(* still has to run, the function about to run first.  When the stack is   *)
(* empty the thread is in its event loop and the environment may deliver   *)
(* the next event: a packet, the end of a send, the result of a callable,  *)
(* a call by the owner of the context.                                     *)
(*                                                                         *)
(* A "foreign" frame is code that is not the server's: a callable, a       *)
(* slot's on_free, or the io.  It may call next_step of any request whose  *)
(* callable has not finished.  SyncIo says whether the io and the peer     *)
(* behind it run there too, so that packets arrive and sends complete      *)
(* before receive, send or close returns (the pipe does that, libuv does   *)
(* not).                                                                   *)
(*                                                                         *)
(* The pool of references is used through what RefSet promises: getFunc    *)
(* takes any index nobody holds.                                           *)
(***************************************************************************)
EXTENDS Integers, Sequences, FiniteSets

CONSTANTS
  Req,        \* the requests (heap objects) a run may create
  NoReq,      \* the request of a frame that has none
  Sid,        \* the session ids of ordinary requests
  Signal,     \* session 0xffffffff
  PoolSize,   \* bound: the slots of the reference pool
  Func,       \* the callables of funcmap
  NoFunc,     \* the NULL of a slot's object
  MaxRounds,  \* bound: the rounds of a poll before its callable rejects
  SyncIo,     \* do the io and the peer run inside send, receive and close?
  DeleteInOnClosed, \* the owner deletes the context in on_closed, and only
                    \* there, instead of from its event loop
  FreeWhilePolled,  \* do clients free an index they are polling?
  PollBySignal      \* do clients send poll requests as signals?

ASSUME ServerAssumption ==
  /\ NoReq \notin Req
  /\ Signal \notin Sid
  /\ NoFunc \notin Func
  /\ PoolSize \in Nat \ {0}
  /\ MaxRounds \in Nat \ {0}
  /\ {SyncIo, DeleteInOnClosed, FreeWhilePolled, PollBySignal} \subseteq BOOLEAN

Index == 0 .. PoolSize - 1

Op == {"call", "getFunc", "freeRef", "close", "getInfo", "poll", "other"}

(* The continuations a request can have: the values of r->next_step. *)
StepFn == {"call1", "getFunc1", "freeRef1", "close1", "getInfo1", "poll1",
           "call2", "poll2", "poll3", "finish", "null"}
(* Frames that run on behalf of a request and frames of the context. *)
ReqFn == StepFn \cup {"freeSlot", "finishTail", "poll3Tail"}
CtxFn == {"step1", "step2", "close", "closeRefs", "ioClose", "onClosed", "delete",
          "deleteTail", "foreign"}

VARIABLES
  closed, refCount, freed,   \* the context: exp.closed, refCount, its memory
  owner,                     \* its creator has not yet called server_delete
  obj, held,                 \* ref_pool[i].object; the indices off the free chain
  receiving,                 \* io->receive is pending
  sendQ,                     \* the sends the io has not completed, in order
  recvErr, sendErr,          \* io->receive_error, io->send_error are set
  rstate, op, sid, flip, idx, rejected, onFinish, next, \* the requests
  running,                   \* callables that have not called next_step
  stack,
  resp,                      \* history: the packets of each request given to io
  due                        \* history: the callable's resource is not released

ctxVars == <<closed, refCount, freed, owner>>
poolVars == <<obj, held>>
ioVars == <<receiving, sendQ, recvErr, sendErr>>
headVars == <<rstate, op, sid, idx>>
bodyVars == <<flip, rejected, onFinish, next, running, resp, due>>
vars == <<ctxVars, poolVars, ioVars, headVars, bodyVars, stack>>

Frame == [fn : ReqFn, req : Req] \cup [fn : CtxFn, req : {NoReq}]
F(fn, r) == [fn |-> fn, req |-> r]
C(fn) == [fn |-> fn, req |-> NoReq]

Live == {r \in Req : rstate[r] = "live"}
SendSet == {sendQ[k] : k \in 1 .. Len(sendQ)}

TypeOK ==
  /\ closed \in BOOLEAN /\ freed \in BOOLEAN /\ owner \in BOOLEAN
  /\ receiving \in BOOLEAN /\ recvErr \in BOOLEAN /\ sendErr \in BOOLEAN
  /\ refCount \in Nat
  /\ obj \in [Index -> Func \cup {NoFunc}] /\ held \subseteq Index
  /\ sendQ \in Seq(Req)
  /\ rstate \in [Req -> {"none", "live", "freed"}]
  /\ op \in [Req -> Op] /\ sid \in [Req -> Sid \cup {Signal}]
  /\ idx \in [Req -> Index]
  /\ next \in [Req -> StepFn]
  /\ flip \in [Req -> BOOLEAN] /\ rejected \in [Req -> BOOLEAN]
  /\ onFinish \in [Req -> BOOLEAN] /\ due \in [Req -> BOOLEAN]
  /\ running \subseteq Req
  /\ stack \in Seq(Frame)
  /\ resp \in [Req -> Seq([sid : Sid \cup {Signal}, flip : BOOLEAN])]

(* pxprpc_server_new and pxprpc_server_start: the first thing to run is    *)
(* step1.                                                                  *)
Init ==
  /\ closed = FALSE /\ refCount = 1 /\ freed = FALSE /\ owner = TRUE
  /\ obj = [i \in Index |-> NoFunc] /\ held = {}
  /\ receiving = FALSE /\ sendQ = <<>> /\ recvErr = FALSE /\ sendErr = FALSE
  /\ rstate = [r \in Req |-> "none"]
  /\ op = [r \in Req |-> "getInfo"] /\ sid = [r \in Req |-> Signal]
  /\ idx = [r \in Req |-> 0]
  /\ flip = [r \in Req |-> FALSE] /\ rejected = [r \in Req |-> FALSE]
  /\ onFinish = [r \in Req |-> FALSE] /\ due = [r \in Req |-> FALSE]
  /\ next = [r \in Req |-> "finish"] /\ running = {}
  /\ stack = <<C("step1")>>
  /\ resp = [r \in Req |-> <<>>]

-----------------------------------------------------------------------------
Pop == Tail(stack)

(* The thread runs fn.  Every function reads the context, and every        *)
(* function of a request reads the request: on memory that was given back  *)
(* no step is defined.                                                     *)
At(fn) ==
  /\ stack # <<>>
  /\ stack[1].fn = fn
  /\ ~freed
  /\ fn \in ReqFn => rstate[stack[1].req] = "live"

(* Other code has the thread. *)
Foreign == stack # <<>> /\ stack[1].fn = "foreign"
AtEventLoop == stack = <<>>
IoRuns == AtEventLoop \/ (SyncIo /\ Foreign)

ForeignReturns ==
  /\ Foreign
  /\ stack' = Pop
  /\ UNCHANGED <<ctxVars, poolVars, ioVars, headVars, bodyVars>>

Unref_twice == \* mutant: gives back two references
  /\ refCount' = refCount - 2
  /\ freed' = (refCount' = 0)

(* pxprpc_refCount_add(context, -1): the memory goes with the last reference. *)
Unref ==
  /\ refCount' = refCount - 1
  /\ freed' = (refCount' = 0)

-----------------------------------------------------------------------------
(* Receiving. *)

(* How a receive may end: in an error or, while Req has a fresh request    *)
(* (the bound), with a packet.                                             *)
RecvOutcome == IF \E r \in Req : rstate[r] = "none" THEN BOOLEAN ELSE {TRUE}

(* _pxprpc__step1: ask the io for the next packet. *)
Step1 ==
  /\ At("step1")
  /\ IF closed
     THEN stack' = Pop /\ UNCHANGED <<receiving, recvErr>>
     ELSE receiving' = TRUE /\ recvErr' = FALSE /\ stack' = <<C("foreign")>> \o Pop
  /\ UNCHANGED <<ctxVars, poolVars, sendQ, sendErr, headVars, bodyVars>>

(* The handlers prepareRequest selects from the sign and value of          *)
(* callable_index; for any other value next_step stays NULL.               *)
Handler(o) ==
  CASE o = "call" -> "call1"
    [] o = "getFunc" -> "getFunc1"
    [] o = "freeRef" -> "freeRef1"
    [] o = "close" -> "close1"
    [] o = "getInfo" -> "getInfo1"
    [] o = "poll" -> "poll1"
    [] OTHER -> "null"

Polled == {idx[r] : r \in {p \in Live : op[p] = "poll" /\ next[p] # "poll1"}}

(* What clients send.  They know the operations, and call and poll indices *)
(* they hold; unless PollBySignal they want the answers of a poll.         *)
ClientSends(o, s, i) ==
  /\ o # "other"
  /\ o \in {"call", "poll"} => i \in held
  /\ o \notin {"call", "poll"} => i = 0
  /\ o = "poll" /\ s = Signal => PollBySignal

(* _pxprpc__step2 without a packet: the context is closed, or the io       *)
(* reports an error and the context closes.                                *)
Step2End ==
  /\ At("step2")
  /\ closed \/ recvErr
  /\ stack' = IF closed THEN Pop ELSE <<C("close")>> \o Pop
  /\ UNCHANGED <<ctxVars, poolVars, ioVars, headVars, bodyVars>>

Step2Packet_noRef(r) == \* mutant: newRequest takes no reference
  /\ At("step2")
  /\ ~closed /\ ~recvErr
  /\ rstate[r] = "none"
  /\ \E o \in Op, s \in Sid \cup {Signal}, i \in Index :
       /\ ClientSends(o, s, i)
       /\ op' = [op EXCEPT ![r] = o]
       /\ sid' = [sid EXCEPT ![r] = s]
       /\ idx' = [idx EXCEPT ![r] = i]
       /\ next' = [next EXCEPT ![r] = Handler(o)]
       /\ stack' = <<F(Handler(o), r), C("step1")>> \o Pop
  /\ rstate' = [rstate EXCEPT ![r] = "live"]
  /\ UNCHANGED <<ctxVars, poolVars, ioVars, flip, rejected, onFinish, running,
                 resp, due>>

(* _pxprpc__step2 with a packet: newRequest takes a reference to the       *)
(* context, prepareRequest selects the handler, then the server receives   *)
(* again.                                                                  *)
Step2Packet(r) ==
  /\ At("step2")
  /\ ~closed /\ ~recvErr
  /\ rstate[r] = "none"
  /\ \E o \in Op, s \in Sid \cup {Signal}, i \in Index :
       /\ ClientSends(o, s, i)
       /\ op' = [op EXCEPT ![r] = o]
       /\ sid' = [sid EXCEPT ![r] = s]
       /\ idx' = [idx EXCEPT ![r] = i]
       /\ next' = [next EXCEPT ![r] = Handler(o)]
       /\ stack' = <<F(Handler(o), r), C("step1")>> \o Pop
  /\ rstate' = [rstate EXCEPT ![r] = "live"]
  /\ refCount' = refCount + 1
  /\ UNCHANGED <<closed, freed, owner, poolVars, ioVars, flip, rejected,
                 onFinish, running, resp, due>>

-----------------------------------------------------------------------------
(* Calling and answering. *)

(* How a callable ends: r->rejected. A poll rejects by its round MaxRounds. *)
Outcomes(r) ==
  IF op[r] = "poll" /\ Len(resp[r]) + 1 >= MaxRounds THEN {TRUE} ELSE BOOLEAN

(* callable->call(callable, r), with cont as r->next_step.  The callable   *)
(* may set on_finish to release what the result needs; it calls next_step  *)
(* before it returns or later.  left: a resource of an earlier round is    *)
(* still to be released.                                                   *)
Invoke(r, cont, left) ==
  /\ obj[idx[r]] # NoFunc
  /\ next' = [next EXCEPT ![r] = cont]
  /\ \E hook \in BOOLEAN :
       /\ onFinish' = [onFinish EXCEPT ![r] = hook]
       /\ due' = [due EXCEPT ![r] = hook \/ left]
  /\ running' = running \cup {r}
  /\ rejected' = [rejected EXCEPT ![r] = FALSE]
  /\ stack' = <<C("foreign")>> \o Pop

(* _pxprpc__stepCall1. *)
Call1(r) ==
  /\ At("call1") /\ stack[1].req = r
  /\ Invoke(r, "call2", due[r])
  /\ UNCHANGED <<ctxVars, poolVars, ioVars, headVars, flip, resp>>

(* _pxprpc__writeResult with cont as r->next_step: the session carries the *)
(* error bit if the callable rejected; a closed context sends nothing, and *)
(* then nobody calls next_step.                                            *)
WriteResult(r, cont) ==
  LET e == IF rejected[r] THEN ~flip[r] ELSE flip[r] IN
  /\ next' = [next EXCEPT ![r] = cont]
  /\ flip' = [flip EXCEPT ![r] = e]
  /\ IF closed
     THEN stack' = Pop /\ UNCHANGED <<resp, sendQ, sendErr>>
     ELSE /\ resp' = [resp EXCEPT ![r] = Append(@, [sid |-> sid[r], flip |-> e])]
          /\ sendQ' = Append(sendQ, r) /\ sendErr' = FALSE
          /\ stack' = <<C("foreign")>> \o Pop

Call2_answersSignals(r) == \* mutant: no test for 0xffffffff
  /\ At("call2") /\ stack[1].req = r
  /\ WriteResult(r, "finish")
  /\ UNCHANGED <<ctxVars, poolVars, receiving, recvErr, headVars, rejected,
                 onFinish, running, due>>

Call2_finishesBoth(r) == \* mutant: finishes without waiting for the send
  /\ At("call2") /\ stack[1].req = r
  /\ next' = [next EXCEPT ![r] = "finish"]
  /\ sendQ' = IF sid[r] = Signal \/ closed THEN sendQ ELSE Append(sendQ, r)
  /\ stack' = <<F("finish", r)>> \o Pop
  /\ UNCHANGED <<ctxVars, poolVars, receiving, recvErr, sendErr, headVars, flip,
                 rejected, onFinish, running, due, resp>>

(* _pxprpc__stepCall2: answer, unless the request is a signal. *)
Call2(r) ==
  /\ At("call2") /\ stack[1].req = r
  /\ IF sid[r] = Signal /\ ~flip[r]
     THEN /\ stack' = <<F("finish", r)>> \o Pop
          /\ UNCHANGED <<next, flip, resp, sendQ, sendErr>>
     ELSE WriteResult(r, "finish")
  /\ UNCHANGED <<ctxVars, poolVars, receiving, recvErr, headVars, rejected,
                 onFinish, running, due>>

(* _pxprpc__stepGetFunc1: a known function gets a slot of the pool. *)
GetFunc1(r) ==
  /\ At("getFunc1") /\ stack[1].req = r
  /\ \/ \E i \in Index \ held, f \in Func :
          /\ obj' = [obj EXCEPT ![i] = f]
          /\ held' = held \cup {i}
     \/ UNCHANGED poolVars
  /\ stack' = <<F("call2", r)>> \o Pop
  /\ UNCHANGED <<ctxVars, ioVars, headVars, bodyVars>>

(* The slots whose on_free runs. *)
Freeing == {idx[stack[k].req] : k \in {j \in 1 .. Len(stack) : stack[j].fn = "freeSlot"}}

(* _pxprpc__stepFreeRef1: for each index the parameter lists               *)
(* pxprpc_server_free_ref runs the slot's on_free, ...                     *)
FreeRef1(r) ==
  /\ At("freeRef1") /\ stack[1].req = r
  /\ \/ stack' = <<F("call2", r)>> \o Pop /\ UNCHANGED idx
     \/ \E i \in held \ Freeing :
          /\ FreeWhilePolled \/ i \notin Polled
          /\ idx' = [idx EXCEPT ![r] = i]
          /\ stack' = <<C("foreign"), F("freeSlot", r)>> \o Pop
  /\ UNCHANGED <<ctxVars, poolVars, ioVars, rstate, op, sid, bodyVars>>

(* ... and gives the slot back.                                            *)
FreeSlot(r) ==
  /\ At("freeSlot") /\ stack[1].req = r
  /\ obj' = [obj EXCEPT ![idx[r]] = NoFunc]
  /\ held' = held \ {idx[r]}
  /\ stack' = <<F("freeRef1", r)>> \o Pop
  /\ UNCHANGED <<ctxVars, ioVars, headVars, bodyVars>>

(* _pxprpc__stepGetInfo1. *)
GetInfo1(r) ==
  /\ At("getInfo1") /\ stack[1].req = r
  /\ stack' = <<F("call2", r)>> \o Pop
  /\ UNCHANGED <<ctxVars, poolVars, ioVars, headVars, bodyVars>>

(* _pxprpc__stepClose1: close the context; the request is not finished. *)
Close1(r) ==
  /\ At("close1") /\ stack[1].req = r
  /\ stack' = <<C("close")>> \o Pop
  /\ UNCHANGED <<ctxVars, poolVars, ioVars, headVars, bodyVars>>

-----------------------------------------------------------------------------
(* Polling. *)

(* _pxprpc__stepPoll1: the callable to poll comes from the parameter. *)
Poll1(r) ==
  /\ At("poll1") /\ stack[1].req = r
  /\ Invoke(r, "poll2", due[r])
  /\ UNCHANGED <<ctxVars, poolVars, ioVars, headVars, flip, resp>>

(* _pxprc_stepPoll2: send the result of this round, as a signal too. *)
Poll2(r) ==
  /\ At("poll2") /\ stack[1].req = r
  /\ WriteResult(r, "poll3")
  /\ UNCHANGED <<ctxVars, poolVars, receiving, recvErr, headVars, rejected,
                 onFinish, running, due>>

(* _pxprpc__stepPoll3: a failed send closes the context first. *)
Poll3(r) ==
  /\ At("poll3") /\ stack[1].req = r
  /\ stack' = (IF sendErr THEN <<C("close")>> ELSE <<>>) \o <<F("poll3Tail", r)>> \o Pop
  /\ UNCHANGED <<ctxVars, poolVars, ioVars, headVars, bodyVars>>

(* _pxprpc__stepPoll3, the rest: finish after an error or on a closed      *)
(* context, ...                                                            *)
Poll3Finish(r) ==
  /\ At("poll3Tail") /\ stack[1].req = r
  /\ rejected[r] \/ closed
  /\ stack' = <<F("finish", r)>> \o Pop
  /\ UNCHANGED <<ctxVars, poolVars, ioVars, headVars, bodyVars>>

Poll3Again_keepsResult(r) == \* mutant: on_finish runs at the last round only
  /\ At("poll3Tail") /\ stack[1].req = r
  /\ ~rejected[r] /\ ~closed
  /\ Invoke(r, "poll2", due[r])
  /\ UNCHANGED <<ctxVars, poolVars, ioVars, headVars, flip, resp>>

(* ... otherwise release the round's result and call the polled index      *)
(* again, whatever the slot holds now.                                     *)
Poll3Again(r) ==
  /\ At("poll3Tail") /\ stack[1].req = r
  /\ ~rejected[r] /\ ~closed
  /\ Invoke(r, "poll2", due[r] /\ ~onFinish[r])
  /\ UNCHANGED <<ctxVars, poolVars, ioVars, headVars, flip, resp>>

-----------------------------------------------------------------------------
(* Finishing. *)

Finish_stopsOnError(r) == \* mutant: a failed send closes and returns
  /\ At("finish") /\ stack[1].req = r
  /\ stack' = (IF sendErr THEN <<C("close")>> ELSE <<F("finishTail", r)>>) \o Pop
  /\ UNCHANGED <<ctxVars, poolVars, ioVars, headVars, bodyVars>>

(* _pxprpc__finishRequest: a failed send closes the context first. *)
Finish(r) ==
  /\ At("finish") /\ stack[1].req = r
  /\ stack' = (IF sendErr THEN <<C("close")>> ELSE <<>>) \o <<F("finishTail", r)>> \o Pop
  /\ UNCHANGED <<ctxVars, poolVars, ioVars, headVars, bodyVars>>

(* _pxprpc__finishRequest, the rest: release the result, then the          *)
(* request's reference to the context, then the request.                   *)
FinishTail(r) ==
  /\ At("finishTail") /\ stack[1].req = r
  /\ due' = [due EXCEPT ![r] = @ /\ ~onFinish[r]]
  /\ rstate' = [rstate EXCEPT ![r] = "freed"]
  /\ Unref
  /\ stack' = Pop
  /\ UNCHANGED <<closed, owner, poolVars, ioVars, op, sid, idx, flip, rejected,
                 onFinish, next, running, resp>>

-----------------------------------------------------------------------------
(* Closing. *)

(* pxprpc_server_close: the hooks of the pool run (RefPool has them one by *)
(* one), ...                                                               *)
ServerClose ==
  /\ At("close")
  /\ IF closed
     THEN stack' = Pop /\ UNCHANGED closed
     ELSE closed' = TRUE /\ stack' = <<C("foreign"), C("closeRefs")>> \o Pop
  /\ UNCHANGED <<refCount, freed, owner, poolVars, ioVars, headVars, bodyVars>>

(* ... the slots lose their objects, then io->close and on_closed run.     *)
CloseRefs ==
  /\ At("closeRefs")
  /\ obj' = [i \in Index |-> NoFunc]
  /\ stack' = <<C("ioClose"), C("onClosed")>> \o Pop
  /\ UNCHANGED <<ctxVars, held, ioVars, headVars, bodyVars>>

(* io->close. An asynchronous io drops the pending receive and completes   *)
(* its sends later.  A synchronous one completes everything with an error  *)
(* before it returns.                                                      *)
IoClose ==
  /\ At("ioClose")
  /\ receiving' = FALSE
  /\ IF SyncIo
     THEN /\ recvErr' = TRUE /\ sendErr' = TRUE
          /\ sendQ' = IF receiving \/ sendQ = <<>> THEN sendQ ELSE Tail(sendQ)
          /\ stack' = IF receiving THEN <<C("step2")>> \o stack
                      ELSE IF sendQ # <<>> THEN <<F(next[sendQ[1]], sendQ[1])>> \o stack
                      ELSE <<C("foreign")>> \o Pop
     ELSE stack' = Pop /\ UNCHANGED <<recvErr, sendErr, sendQ>>
  /\ UNCHANGED <<ctxVars, poolVars, headVars, bodyVars>>

(* exp.on_closed(cb_data). *)
OnClosed ==
  /\ At("onClosed")
  /\ stack' = (IF DeleteInOnClosed THEN <<C("delete")>> ELSE <<>>) \o Pop
  /\ UNCHANGED <<ctxVars, poolVars, ioVars, headVars, bodyVars>>

(* pxprpc_server_delete: close, then give up the creator's reference. *)
Delete ==
  /\ At("delete")
  /\ stack' = <<C("close"), C("deleteTail")>> \o Pop
  /\ UNCHANGED <<ctxVars, poolVars, ioVars, headVars, bodyVars>>

DeleteTail ==
  /\ At("deleteTail")
  /\ owner' = FALSE
  /\ Unref
  /\ stack' = Pop
  /\ UNCHANGED <<closed, poolVars, ioVars, headVars, bodyVars>>

-----------------------------------------------------------------------------
(* The environment. *)

(* The io completes the pending receive, with a packet or an error. *)
IoReceived ==
  /\ IoRuns
  /\ receiving
  /\ receiving' = FALSE
  /\ recvErr' \in RecvOutcome
  /\ stack' = <<C("step2")>> \o stack
  /\ UNCHANGED <<ctxVars, poolVars, sendQ, sendErr, headVars, bodyVars>>

(* The io completes the oldest send; it may have failed. *)
IoSent ==
  /\ IoRuns
  /\ sendQ # <<>>
  /\ sendQ' = Tail(sendQ)
  /\ sendErr' \in {sendErr, TRUE}
  /\ stack' = <<F(next[sendQ[1]], sendQ[1])>> \o stack
  /\ UNCHANGED <<ctxVars, poolVars, receiving, recvErr, headVars, bodyVars>>

(* A callable sets its result and calls next_step: from the event loop, in *)
(* the callable itself, or in other code that runs on the thread.          *)
CallableReturns(r) ==
  /\ AtEventLoop \/ Foreign
  /\ r \in running
  /\ running' = running \ {r}
  /\ \E err \in Outcomes(r) : rejected' = [rejected EXCEPT ![r] = err]
  /\ stack' = <<F(next[r], r)>> \o stack
  /\ UNCHANGED <<ctxVars, poolVars, ioVars, headVars, flip, onFinish, next,
                 resp, due>>

(* The owner of the context closes it or, unless it does so in on_closed,  *)
(* deletes it.                                                             *)
OwnerCalls ==
  /\ AtEventLoop
  /\ owner
  /\ \E fn \in {"close", "delete"} :
       /\ fn = "close" => ~closed
       /\ fn = "delete" => ~DeleteInOnClosed
       /\ stack' = <<C(fn)>>
  /\ UNCHANGED <<ctxVars, poolVars, ioVars, headVars, bodyVars>>

-----------------------------------------------------------------------------
CtxStep ==
  \/ Step1 \/ Step2End \/ ServerClose \/ CloseRefs \/ IoClose \/ OnClosed
  \/ Delete \/ DeleteTail \/ ForeignReturns

ReqStep(r) ==
  \/ Step2Packet(r)
  \/ Call1(r) \/ Call2(r) \/ GetFunc1(r) \/ FreeRef1(r) \/ FreeSlot(r)
  \/ GetInfo1(r) \/ Close1(r)
  \/ Poll1(r) \/ Poll2(r) \/ Poll3(r) \/ Poll3Finish(r) \/ Poll3Again(r)
  \/ Finish(r) \/ FinishTail(r)

Step == CtxStep \/ \E r \in Req : ReqStep(r)

Next ==
  \/ Step
  \/ IoReceived \/ IoSent \/ OwnerCalls
  \/ \E r \in Req : CallableReturns(r)

Spec == Init /\ [][Next]_vars

(* The thread runs what it has begun, the io completes its sends, and      *)
(* every callable finishes.                                                *)
Fairness ==
  /\ WF_vars(Step)
  /\ WF_vars(IoSent)
  /\ \A r \in Req : WF_vars(CallableReturns(r))

FairSpec == Spec /\ Fairness

-----------------------------------------------------------------------------
(* The context's reference count is its creator plus the requests alive:   *)
(* every path through the handlers takes and gives back exactly one.       *)
RefCountExact ==
  /\ refCount = (IF owner THEN 1 ELSE 0) + Cardinality(Live)
  /\ freed <=> refCount = 0

(* No function runs on a request whose memory was given back, and none on  *)
(* a context whose memory was, with one exception: on an io that completes *)
(* inside its calls, with an owner that deletes the context in on_closed,  *)
(* step2 goes on to step1 after a handler that gave back the last          *)
(* reference.                                                              *)
NoUseAfterFree ==
  stack # <<>> =>
    /\ stack[1].fn \in ReqFn => rstate[stack[1].req] = "live"
    /\ freed => SyncIo /\ DeleteInOnClosed /\ stack[1].fn \in {"step1", "foreign"}

(* No callable is called through an empty slot of the pool: not by a call, *)
(* and not by a later round of a poll, which reads the slot again.         *)
CallsCallable ==
  stack # <<>> =>
    LET fn == stack[1].fn
        r == stack[1].req
    IN fn \in {"call1", "poll1"} \/ (fn = "poll3Tail" /\ ~rejected[r] /\ ~closed)
         => obj[idx[r]] # NoFunc

(* Every request alive is waited for in one place at most: a callable, the *)
(* io or the stack; what two places continue would be finished twice.      *)
OneContinuation ==
  /\ running \cup SendSet \subseteq Live
  /\ running \cap SendSet = {}
  /\ \A j, k \in 1 .. Len(sendQ) : j # k => sendQ[j] # sendQ[k]
  /\ \A k \in 1 .. Len(stack) : stack[k].fn \in ReqFn =>
       /\ stack[k].req \in Live \ (running \cup SendSet)
       /\ \A j \in 1 .. Len(stack) : j # k => stack[j].req # stack[k].req

(* Replies carry the session of their request; the error bit is set on the *)
(* last one at most. A request other than a poll gets one reply, a close   *)
(* or a signal none. A request is finished only when it was answered, a    *)
(* poll only when its error was sent or the context is closed.             *)
Final(r) == resp[r][Len(resp[r])].flip
RepliesCorrect ==
  \A r \in Req :
    /\ \A k \in 1 .. Len(resp[r]) :
         resp[r][k].sid = sid[r] /\ (resp[r][k].flip => k = Len(resp[r]))
    /\ op[r] # "poll" => Len(resp[r]) <= 1
    /\ op[r] = "close" => resp[r] = <<>>
    /\ rstate[r] = "freed" =>
         /\ resp[r] = <<>> <=> op[r] # "poll" /\ sid[r] = Signal
         /\ op[r] = "poll" => Final(r) \/ closed

(* Signals are never answered. *)
SignalUnanswered == \A r \in Req : sid[r] = Signal => resp[r] = <<>>

(* What a callable attached to a request is released by on_finish, once    *)
(* per round, and before the request's memory goes.                        *)
ResultsReleased ==
  \A r \in Req : due[r] => onFinish[r] /\ rstate[r] # "freed"

(* As long as the context stays open every request is answered, a poll     *)
(* round by round, and everything but a poll is then finished.             *)
Served ==
  \A r \in Req :
    /\ (rstate[r] = "live" /\ op[r] # "close" /\ sid[r] # Signal)
         ~> (resp[r] # <<>> \/ closed)
    /\ (resp[r] # <<>> /\ op[r] # "poll") ~> rstate[r] = "freed"

(* When the owner has let go of the context and nothing will run on it     *)
(* again, its memory has been given back.                                  *)
NoLeakAtRest ==
  ~owner /\ stack = <<>> /\ running = {} /\ sendQ = <<>> /\ ~receiving => freed
=============================================================================
