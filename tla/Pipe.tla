-------------------------------- MODULE Pipe --------------------------------
(***************************************************************************)
(* One connection of the in-process pipe (c/pxprpc_pipe/pxprpc_pipe.c).    *)
(*                                                                         *)
(* Both sides live on one thread and every completion is a nested call:    *)
(* send and receive pump the connection, the pump calls the users'         *)
(* callbacks, and these call send, receive and close again.  "stack" holds *)
(* what the thread still has to run, the next function first; a "user"     *)
(* frame is a callback (or the event loop's call) of one side's user, who  *)
(* may make any io calls before returning.                                 *)
(***************************************************************************)
EXTENDS Integers, Sequences

CONSTANTS
  MaxMsg,          \* bound: the packets a side sends
  MaxDepth,        \* bound: the nesting at which a user still makes calls
  CallbackClose    \* when may a callback close its side: "never" (only the
                   \* event loop does), "first" (while the peer has not
                   \* closed) or "always"

ASSUME PipeAssumption ==
  /\ MaxMsg \in Nat /\ MaxDepth \in Nat
  /\ CallbackClose \in {"never", "first", "always"}

Side == {"client", "server"}
Peer(s) == IF s = "client" THEN "server" ELSE "client"

Fn == {"user", "completed", "pump1", "pump2",
       "closingRecv", "drain", "drained", "closingEnd"}
Frame == [fn : Fn, side : Side, msg : 0 .. MaxMsg]
Of(fn, s, m) == [fn |-> fn, side |-> s, msg |-> m]
F(fn, s) == Of(fn, s, 0)

VARIABLES
  sideClosed, \* clientClosed, serverClosed
  recv,       \* a receive is pending: clientRecv/serverRecv.onCompleted # NULL
  sendq,      \* the list clientSend/serverSend: packet numbers, oldest first
  freed,      \* the connection's memory was given back
  stack,
  sent,       \* history: packets accepted from each side's user
  got,        \* history: packets each side's user received, in order
  done        \* history: how often each send was completed to its user

connVars == <<sideClosed, recv, sendq, freed>>
history == <<sent, got, done>>
vars == <<connVars, stack, history>>

(* pxprpc_pipe_connect: a fresh connection whose first user call is the    *)
(* server's on_connect.                                                    *)
Init ==
  /\ sideClosed = [s \in Side |-> FALSE] /\ recv = [s \in Side |-> FALSE]
  /\ sendq = [s \in Side |-> <<>>]
  /\ freed = FALSE
  /\ stack = <<F("user", "server")>>
  /\ sent = [s \in Side |-> 0]
  /\ got = [s \in Side |-> <<>>]
  /\ done = [s \in Side |-> [m \in 1 .. MaxMsg |-> 0]]

-----------------------------------------------------------------------------
Pop == Tail(stack)
Top == stack[1]

(* The thread runs fn, a function that reads the connection.  What it does *)
(* on memory that was given back is undefined: no step is taken then.      *)
At(fn) == stack # <<>> /\ Top.fn = fn /\ ~freed

-----------------------------------------------------------------------------
(* _pxprpcPipePump moves one packet to s: the receive's callback runs      *)
(* first, then the send is completed, then rest.                           *)
Transfer(s, rest) ==
  IF recv[s] /\ sendq[Peer(s)] # <<>>
  THEN LET m == Head(sendq[Peer(s)]) IN
       /\ sendq' = [sendq EXCEPT ![Peer(s)] = Tail(@)]
       /\ recv' = [recv EXCEPT ![s] = FALSE]
       /\ got' = [got EXCEPT ![s] = Append(@, m)]
       /\ stack' = <<F("user", s), Of("completed", Peer(s), m)>> \o rest
  ELSE stack' = rest /\ UNCHANGED <<sendq, recv, got>>

(* First what the server sent, ... *)
Pump1 ==
  /\ At("pump1")
  /\ Transfer("client", <<F("pump2", "server")>> \o Pop)
  /\ UNCHANGED <<sideClosed, freed, sent, done>>

(* ... then what the client sent. *)
Pump2 ==
  /\ At("pump2")
  /\ Transfer("server", Pop)
  /\ UNCHANGED <<sideClosed, freed, sent, done>>

(* The send's callback is called. *)
Reports(s, m) == done' = [done EXCEPT ![s][m] = @ + 1]

(* The pump completes the send it took off the list: the request is memory *)
(* of its own, which the connection's end does not touch.                  *)
Completed ==
  /\ stack # <<>> /\ Top.fn = "completed"
  /\ Reports(Top.side, Top.msg)
  /\ stack' = <<F("user", Top.side)>> \o Pop
  /\ UNCHANGED <<connVars, sent, got>>

-----------------------------------------------------------------------------
(* What a user does in a callback of side s. It makes no call on a side it *)
(* closed.                                                                 *)
Running(s) == stack # <<>> /\ Top.fn = "user" /\ Top.side = s
Calling(s) == Running(s) /\ ~sideClosed[s] /\ Len(stack) <= MaxDepth
AnyClosed == \E s \in Side : sideClosed[s]
AllClosed == \A s \in Side : sideClosed[s]

UserReturns(s) ==
  /\ Running(s)
  /\ stack' = Pop
  /\ UNCHANGED <<connVars, history>>

Send_prepends(s) == \* mutant: the packet becomes the list's first
  /\ Calling(s)
  /\ sent[s] < MaxMsg
  /\ IF AnyClosed
     THEN stack' = <<F("user", s)>> \o stack /\ UNCHANGED <<sendq, sent>>
     ELSE /\ sendq' = [sendq EXCEPT ![s] = <<sent[s] + 1>> \o @]
          /\ sent' = [sent EXCEPT ![s] = @ + 1]
          /\ stack' = <<F("pump1", s)>> \o stack
  /\ UNCHANGED <<sideClosed, recv, freed, got, done>>

(* ClientSend and ServerSend: on a closed connection the callback reports  *)
(* the error at once, otherwise the packet is queued and pumped.           *)
Send(s) ==
  /\ Calling(s)
  /\ sent[s] < MaxMsg
  /\ IF AnyClosed
     THEN stack' = <<F("user", s)>> \o stack /\ UNCHANGED <<sendq, sent>>
     ELSE /\ sendq' = [sendq EXCEPT ![s] = Append(@, sent[s] + 1)]
          /\ sent' = [sent EXCEPT ![s] = @ + 1]
          /\ stack' = <<F("pump1", s)>> \o stack
  /\ UNCHANGED <<sideClosed, recv, freed, got, done>>

Receive_noPump(s) == \* mutant: the receive waits for the next send
  /\ Calling(s)
  /\ IF recv[s] \/ AnyClosed
     THEN stack' = <<F("user", s)>> \o stack /\ UNCHANGED recv
     ELSE recv' = [recv EXCEPT ![s] = TRUE] /\ UNCHANGED stack
  /\ UNCHANGED <<sideClosed, sendq, freed, history>>

(* ClientReceive and ServerRecv: an overlapped receive and one on a closed *)
(* connection report the error at once.                                    *)
Receive(s) ==
  /\ Calling(s)
  /\ IF recv[s] \/ AnyClosed
     THEN stack' = <<F("user", s)>> \o stack /\ UNCHANGED recv
     ELSE /\ recv' = [recv EXCEPT ![s] = TRUE]
          /\ stack' = <<F("pump1", s)>> \o stack
  /\ UNCHANGED <<sideClosed, sendq, freed, history>>

(* ClientClose and ServerClose, then _pxprpcPipeConnectionClosing: both    *)
(* pending receives, then both send lists, the server's first, then the    *)
(* connection.                                                             *)
Closing == <<F("closingRecv", "server"), F("closingRecv", "client"),
             F("drain", "server"), F("drain", "client"),
             F("closingEnd", "server")>>

Close(s) ==
  /\ Calling(s)
  /\ \/ Len(stack) = 1
     \/ CallbackClose = "first" /\ ~AnyClosed
     \/ CallbackClose = "always"
  /\ sideClosed' = [sideClosed EXCEPT ![s] = TRUE]
  /\ stack' = Closing \o stack
  /\ UNCHANGED <<recv, sendq, freed, history>>

-----------------------------------------------------------------------------
(* A pending receive of the side completes with the error. *)
ClosingRecv ==
  /\ At("closingRecv")
  /\ recv' = [recv EXCEPT ![Top.side] = FALSE]
  /\ stack' = (IF recv[Top.side] THEN <<F("user", Top.side)>> ELSE <<>>) \o Pop
  /\ UNCHANGED <<sideClosed, sendq, freed, history>>

(* The loop over the side's send list: the oldest send's callback runs     *)
(* while the request is still in the list, ...                             *)
Drain ==
  LET s == Top.side IN
  /\ At("drain")
  /\ IF sendq[s] = <<>>
     THEN stack' = Pop /\ UNCHANGED done
     ELSE /\ Reports(s, Head(sendq[s]))
          /\ stack' = <<F("user", s), Of("drained", s, Head(sendq[s]))>> \o stack
  /\ UNCHANGED <<connVars, sent, got>>

Drained_keeps == \* mutant: the request stays in the list
  /\ At("drained")
  /\ stack' = Pop
  /\ UNCHANGED <<connVars, history>>

(* ... then the list continues after it and it is freed. *)
Drained ==
  LET s == Top.side IN
  /\ At("drained")
  /\ \E k \in 1 .. Len(sendq[s]) :
       /\ sendq[s][k] = Top.msg
       /\ sendq' = [sendq EXCEPT ![s] = SubSeq(@, k + 1, Len(@))]
  /\ stack' = Pop
  /\ UNCHANGED <<sideClosed, recv, freed, history>>

ClosingEnd_anySide == \* mutant: frees when one side has closed
  /\ At("closingEnd")
  /\ freed' = AnyClosed
  /\ stack' = Pop
  /\ UNCHANGED <<sideClosed, recv, sendq, history>>

(* The connection goes with its last side. *)
ClosingEnd ==
  /\ At("closingEnd")
  /\ freed' = AllClosed
  /\ stack' = Pop
  /\ UNCHANGED <<sideClosed, recv, sendq, history>>

(* The event loop lets a user who has not closed its side make calls. *)
EventLoop(s) ==
  /\ stack = <<>>
  /\ ~sideClosed[s]
  /\ stack' = <<F("user", s)>>
  /\ UNCHANGED <<connVars, history>>

Work == Pump1 \/ Pump2 \/ Completed \/ ClosingRecv \/ Drain \/ Drained \/ ClosingEnd

User(s) == UserReturns(s) \/ Send(s) \/ Receive(s) \/ Close(s)

Next == Work \/ \E s \in Side : User(s) \/ EventLoop(s)

Spec == Init /\ [][Next]_vars
-----------------------------------------------------------------------------
(* A side receives the packets the other sent, each once, in order, up to  *)
(* some point.                                                             *)
InOrder ==
  \A s \in Side :
    /\ Len(got[s]) <= sent[Peer(s)]
    /\ \A k \in 1 .. Len(got[s]) : got[s][k] = k

(* A send whose packet was taken is completed to its user once, when the   *)
(* receiver's callback returned, whatever is sent, received and closed in  *)
(* between.  Another send is completed by the closing only, and again only *)
(* when the other side closes as well (inside the callback).               *)
Completing(s, m) == \E k \in DOMAIN stack : stack[k] = Of("completed", s, m)
CompletedOnce ==
  \A s \in Side, m \in 1 .. MaxMsg :
    IF m <= Len(got[Peer(s)])
    THEN done[s][m] = IF Completing(s, m) THEN 0 ELSE 1
    ELSE /\ ~AnyClosed \/ m > sent[s] => done[s][m] = 0
         /\ AllClosed \/ done[s][m] <= 1

(* The pump moves one packet a call, and yet no packet is left waiting     *)
(* when the thread is back in its event loop and the other side receives;  *)
(* on a closed connection nothing at all is left waiting, and every send   *)
(* was completed once.                                                     *)
NothingStalled ==
  stack = <<>> =>
    \A s \in Side :
      /\ ~(recv[s] /\ sendq[Peer(s)] # <<>>)
      /\ AnyClosed => /\ ~recv[s] /\ sendq[s] = <<>>
                      /\ \A m \in 1 .. sent[s] : done[s][m] = 1

(* The connection is given back when both sides have closed it, never      *)
(* before.                                                                 *)
FreedWhenBothClosed ==
  /\ freed => AllClosed
  /\ stack = <<>> /\ AllClosed => freed
=============================================================================
