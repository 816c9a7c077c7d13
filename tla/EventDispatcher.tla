--------------------------- MODULE EventDispatcher --------------------------
(***************************************************************************)
(* The EventDispatcher of c/include/pxprpc_ext.hpp: a callable a client    *)
(* calls or polls to wait for an event, on a C server whose io completes   *)
(* from the event loop.                                                    *)
(*                                                                         *)
(* pendingReturn points to the AsyncReturn of the waiting request, which   *)
(* the request's on_finish deletes; a request has one AsyncReturn at a     *)
(* time and stands for it.  An answered request lives on until the io has  *)
(* sent the answer, and only then clears pendingReturn: what comes in      *)
(* between calls next_step of the answered request again.                  *)
(***************************************************************************)
EXTENDS Integers, Sequences

CONSTANTS
  Req,
  NoReq,
  MaxRounds,  \* bound: the events a request is answered with
  Overlaps,   \* do clients call while a request waits?
  Closes      \* may the connection close?

ASSUME DispatcherAssumption ==
  /\ NoReq \notin Req
  /\ MaxRounds \in Nat \ {0}
  /\ {Overlaps, Closes} \subseteq BOOLEAN

VARIABLES
  alive,         \* the dispatcher is held by the context's pool
  closed,        \* the context is closed
  pendingReturn,
  entering,      \* the request the dispatcher's handler is about to run for
  st,            \* "none", "called": it waits, "sending": its answer is in
                 \* the io, "finished", "stuck": answered on a closed context
  poll, rejected,
  hook,          \* onFinishPP: "ret" deletes the AsyncReturn and clears
                 \* pendingReturn, "raw" deletes an error text
  sendQ,         \* the sends the io has not completed
  events         \* history: events a request was answered with

ctxVars == <<alive, closed>>
vars == <<ctxVars, pendingReturn, entering, st, poll, rejected, hook, sendQ, events>>

Is(state) == {r \in Req : st[r] = state}

Init ==
  /\ alive = TRUE /\ closed = FALSE
  /\ pendingReturn = NoReq /\ entering = NoReq
  /\ st = [r \in Req |-> "none"] /\ poll = [r \in Req |-> FALSE]
  /\ rejected = [r \in Req |-> FALSE] /\ hook = [r \in Req |-> "ret"]
  /\ sendQ = <<>> /\ events = [r \in Req |-> 0]

AtEventLoop == entering = NoReq

-----------------------------------------------------------------------------
(* next_step of an answered request, as the io calls it once the answer is *)
(* sent: on_finish runs, then the request is finished or, as a poll that   *)
(* was not rejected, calls the dispatcher again.                           *)
Ends(r) ==
  /\ pendingReturn' = IF hook[r] = "ret" THEN NoReq ELSE pendingReturn
  /\ IF poll[r] /\ ~rejected[r] /\ ~closed
     THEN entering' = r /\ st' = [st EXCEPT ![r] = "none"]
     ELSE st' = [st EXCEPT ![r] = "finished"] /\ UNCHANGED entering

(* next_step of a waiting request: the answer goes to the io unless the    *)
(* context is closed.                                                      *)
Answered(ctxClosed) == IF ctxClosed THEN "stuck" ELSE "sending"
Sends(rs, ctxClosed) == IF ctxClosed THEN <<>> ELSE rs

(* AsyncReturn::reject of whoever the dispatcher points to and of the      *)
(* requests "also" that just called.  It replaces onFinishPP, and calls    *)
(* next_step: one whose answer the io is sending is finished at once.      *)
Reject(p, also, ctxClosed) ==
  LET new == {also[k] : k \in DOMAIN also}
      these == {p} \cup new IN
  /\ rejected' = [r \in Req |-> rejected[r] \/ r \in these]
  /\ hook' = [r \in Req |-> IF r \in these THEN "raw" ELSE hook[r]]
  /\ st' = [r \in Req |-> IF r \in new \/ (r = p /\ st[p] = "called")
                          THEN Answered(ctxClosed)
                          ELSE IF r = p THEN "finished" ELSE st[r]]
  /\ sendQ' = sendQ \o Sends((IF st[p] = "called" THEN <<p>> ELSE <<>>) \o also, ctxClosed)

-----------------------------------------------------------------------------
(* A client calls or polls the dispatcher. *)
Call(r) ==
  /\ AtEventLoop
  /\ alive /\ st[r] = "none"
  /\ Overlaps \/ Is("called") = {}
  /\ entering' = r
  /\ \E p \in BOOLEAN : poll' = [poll EXCEPT ![r] = p]
  /\ UNCHANGED <<ctxVars, pendingReturn, st, rejected, hook, sendQ, events>>

Handle_replaces == \* mutant: a second call takes the first one's place
  /\ entering # NoReq /\ alive
  /\ pendingReturn' = entering
  /\ st' = [st EXCEPT ![entering] = "called"]
  /\ hook' = [hook EXCEPT ![entering] = "ret"]
  /\ entering' = NoReq
  /\ UNCHANGED <<ctxVars, poll, events, rejected, sendQ>>

(* The dispatcher's handler: wait, or reject both when one waits already.  *)
Handle ==
  LET r == entering IN
  /\ r # NoReq /\ alive
  /\ IF pendingReturn = NoReq
     THEN /\ pendingReturn' = r
          /\ st' = [st EXCEPT ![r] = "called"]
          /\ hook' = [hook EXCEPT ![r] = "ret"]
          /\ UNCHANGED <<rejected, sendQ>>
     ELSE Reject(pendingReturn, <<r>>, FALSE) /\ pendingReturn' = NoReq
  /\ entering' = NoReq
  /\ UNCHANGED <<ctxVars, poll, events>>

(* rtbvarsSet, and every other owner of a dispatcher, at any time: resolve *)
(* whoever waits, or was answered and is not yet finished.                 *)
Emit ==
  LET p == pendingReturn IN
  /\ AtEventLoop
  /\ alive /\ p # NoReq
  /\ events[p] < MaxRounds
  /\ events' = [events EXCEPT ![p] = @ + 1]
  /\ IF st[p] = "called"
     THEN /\ st' = [st EXCEPT ![p] = "sending"]
          /\ sendQ' = Append(sendQ, p)
          /\ UNCHANGED <<pendingReturn, entering>>
     ELSE Ends(p) /\ UNCHANGED sendQ
  /\ UNCHANGED <<ctxVars, poll, rejected, hook>>

Destroy_forgets(ctxClosed) == \* mutant: the answered one is left alone
  /\ alive' = FALSE
  /\ pendingReturn' = NoReq
  /\ IF pendingReturn = NoReq \/ st[pendingReturn] = "sending"
     THEN UNCHANGED <<st, rejected, hook, sendQ>>
     ELSE Reject(pendingReturn, <<>>, ctxClosed)

(* ~EventDispatcher rejects whoever it points to. *)
Destroy(ctxClosed) ==
  /\ alive' = FALSE
  /\ pendingReturn' = NoReq
  /\ IF pendingReturn = NoReq
     THEN UNCHANGED <<st, rejected, hook, sendQ>>
     ELSE Reject(pendingReturn, <<>>, ctxClosed)

(* The client frees its reference. *)
Free ==
  /\ AtEventLoop
  /\ alive
  /\ Destroy(FALSE)
  /\ UNCHANGED <<closed, entering, poll, events>>

(* pxprpc_server_close is closed first and then frees the references. *)
Close ==
  /\ AtEventLoop
  /\ Closes /\ ~closed
  /\ closed' = TRUE
  /\ IF alive THEN Destroy(TRUE)
     ELSE UNCHANGED <<alive, pendingReturn, st, rejected, hook, sendQ>>
  /\ UNCHANGED <<entering, poll, events>>

(* The io has sent an answer and calls next_step of its request.  One that *)
(* waits again, after an event came too early, is answered without one.    *)
(* The memory of one that was finished too early is gone: what follows is  *)
(* undefined and no step is taken.                                         *)
SendDone ==
  LET r == Head(sendQ) IN
  /\ AtEventLoop
  /\ sendQ # <<>>
  /\ \/ /\ st[r] \in {"sending", "stuck"}
        /\ Ends(r)
        /\ sendQ' = Tail(sendQ)
     \/ /\ st[r] = "called"
        /\ st' = [st EXCEPT ![r] = "sending"]
        /\ sendQ' = Append(Tail(sendQ), r)
        /\ UNCHANGED <<pendingReturn, entering>>
  /\ UNCHANGED <<ctxVars, poll, rejected, hook, events>>

Next == Handle \/ Emit \/ Free \/ Close \/ SendDone \/ \E r \in Req : Call(r)

Spec == Init /\ [][Next]_vars
-----------------------------------------------------------------------------
(* Nobody waits unnoticed: whoever waits is the one the next event, free   *)
(* or close will answer, although what comes while an answer is being sent *)
(* makes requests end early and wait again.                                *)
WaiterKnown ==
  /\ Is("called") \subseteq {pendingReturn}
  /\ ~alive => Is("called") = {}

(* pendingReturn is cleared by the request it points to and by no other:   *)
(* the on_finish that would clear it belongs to that request, so none runs *)
(* on a destroyed dispatcher, none makes it forget another that waits, and *)
(* it never points to an AsyncReturn that was deleted.                     *)
Unfinished == Is("called") \cup Is("sending") \cup Is("stuck")
PointerOwned ==
  /\ pendingReturn # NoReq => /\ alive /\ pendingReturn \in Unfinished
                              /\ hook[pendingReturn] = "ret"
  /\ \A r \in Unfinished : hook[r] = "ret" => pendingReturn = r
=============================================================================
