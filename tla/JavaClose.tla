----------------------------- MODULE JavaClose ------------------------------
(***************************************************************************)
(* Java's Io on a connection of pxprpc_pipe.c.  send and receive go        *)
(* through the bridge to the loop thread, as in RtBridge; close calls the  *)
(* pipe on the thread of its caller (jnibridge.cpp), while the loop thread *)
(* may be in the pipe for the other side.  Neither takes a lock.           *)
(*                                                                         *)
(* Each thread has in "code" what it has still to run of the pipe.  A step *)
(* is what a thread runs between two callbacks, which only complete a      *)
(* call here: every interleaving of these steps is one of the program, so  *)
(* what goes wrong here goes wrong there.                                  *)
(***************************************************************************)
EXTENDS Naturals, Sequences

CONSTANTS
  Java,     \* the threads that use the Io
  Loop,     \* the loop thread, on which the server side lives
  Nobody,
  MaxSends  \* bound: the sends in the list of a side

Thread == Java \cup {Loop}
Side == {"client", "server"}
Peer(s) == IF s = "client" THEN "server" ELSE "client"

VARIABLES
  freed,      \* the memory of the connection was given back
  sideClosed, \* clientClosed and serverClosed
  recvP,      \* who receives on each side
  sendP,      \* who sends, in the order of the list
  ioClosed,   \* Io.closed
  pc,         \* what each Java thread does: "idle", the method whose test of
              \* Io.closed it passed, or "wait"
  code        \* what each thread has still to run of the pipe

connVars == <<freed, sideClosed, recvP, sendP>>
vars == <<connVars, ioClosed, pc, code>>

Init ==
  /\ freed = FALSE /\ sideClosed = [s \in Side |-> FALSE]
  /\ recvP = [s \in Side |-> Nobody] /\ sendP = [s \in Side |-> <<>>]
  /\ ioClosed = FALSE
  /\ pc = [j \in Java |-> "idle"] /\ code = [t \in Thread |-> <<>>]

-----------------------------------------------------------------------------
(* Io.java. *)

(* send, receive and close begin with a test of Io.closed, ...             *)
IoTest(j) ==
  /\ pc[j] = "idle" /\ ~ioClosed
  /\ \E m \in {"send", "receive", "close"} : pc' = [pc EXCEPT ![j] = m]
  /\ UNCHANGED <<connVars, ioClosed, code>>

I(fn, s, who) == [fn |-> fn, side |-> s, who |-> who]

(* ClientClose and ServerClose, then _pxprpcPipeConnectionClosing. *)
CloseCode(s, who) ==
  <<I("close", s, who), I("closingRecv", "server", who), I("closingRecv", "client", who),
    I("drain", "server", who), I("drain", "client", who), I("closingEnd", s, who)>>

(* ... and close goes on to ioClose, which is in the pipe at once.         *)
IoClose(j) ==
  /\ pc[j] = "close"
  /\ ioClosed' = TRUE
  /\ pc' = [pc EXCEPT ![j] = "wait"]
  /\ code' = [code EXCEPT ![j] = CloseCode("client", j)]
  /\ UNCHANGED connVars

-----------------------------------------------------------------------------
(* The loop thread takes up the next call: one of Java's sends and         *)
(* receives, ...                                                           *)
LoopHandles(j) ==
  /\ code[Loop] = <<>>
  /\ pc[j] \in {"send", "receive"}
  /\ pc' = [pc EXCEPT ![j] = "wait"]
  /\ code' = [code EXCEPT ![Loop] = <<I(pc[j], "client", j)>>]
  /\ UNCHANGED <<connVars, ioClosed>>

(* ... or one of the server context, which makes none once it closed.      *)
ServerCalls ==
  /\ code[Loop] = <<>>
  /\ ~sideClosed["server"]
  /\ \E new \in {<<I("send", "server", Loop)>>, <<I("receive", "server", Loop)>>,
                 CloseCode("server", Loop)} :
       code' = [code EXCEPT ![Loop] = new]
  /\ UNCHANGED <<connVars, ioClosed, pc>>

-----------------------------------------------------------------------------
(* The pipe, run by thread t.  On memory that was given back no step is    *)
(* defined.                                                                *)
At(t, fn) == code[t] # <<>> /\ code[t][1].fn = fn /\ ~freed
Op(t) == code[t][1]
Goes(t, new) == code' = [code EXCEPT ![t] = new \o Tail(@)]

(* The callbacks of ds run: their threads return to Java. *)
Returns(ds) == pc' = [j \in Java |-> IF j \in ds THEN "idle" ELSE pc[j]]

AnyClosed == \E s \in Side : sideClosed[s]
PumpCode == <<I("pump", "client", Nobody), I("pump", "server", Nobody)>>

(* ClientSend and ServerSend. *)
Send(t) ==
  LET s == Op(t).side IN
  /\ At(t, "send") /\ Len(sendP[s]) < MaxSends
  /\ IF AnyClosed
     THEN Returns({Op(t).who}) /\ Goes(t, <<>>) /\ UNCHANGED sendP
     ELSE /\ sendP' = [sendP EXCEPT ![s] = Append(@, Op(t).who)]
          /\ Goes(t, PumpCode) /\ UNCHANGED pc
  /\ UNCHANGED <<freed, sideClosed, recvP, ioClosed>>

(* ClientReceive and ServerRecv. *)
Receive(t) ==
  LET s == Op(t).side IN
  /\ At(t, "receive")
  /\ IF recvP[s] # Nobody \/ AnyClosed
     THEN Returns({Op(t).who}) /\ Goes(t, <<>>) /\ UNCHANGED recvP
     ELSE /\ recvP' = [recvP EXCEPT ![s] = Op(t).who]
          /\ Goes(t, PumpCode) /\ UNCHANGED pc
  /\ UNCHANGED <<freed, sideClosed, sendP, ioClosed>>

(* _pxprpcPipePump for the receiver on side s. *)
Pump(t) ==
  LET s == Op(t).side q == sendP[Peer(s)] IN
  /\ At(t, "pump")
  /\ IF recvP[s] # Nobody /\ q # <<>>
     THEN /\ Returns({recvP[s], Head(q)})
          /\ recvP' = [recvP EXCEPT ![s] = Nobody]
          /\ sendP' = [sendP EXCEPT ![Peer(s)] = Tail(@)]
     ELSE UNCHANGED <<recvP, sendP, pc>>
  /\ Goes(t, <<>>)
  /\ UNCHANGED <<freed, sideClosed, ioClosed>>

(* Closing: the flag, ... *)
Close(t) ==
  /\ At(t, "close")
  /\ sideClosed' = [sideClosed EXCEPT ![Op(t).side] = TRUE]
  /\ Goes(t, <<>>)
  /\ UNCHANGED <<freed, recvP, sendP, ioClosed, pc>>

(* ... the pending receives, ... *)
ClosingRecv(t) ==
  LET s == Op(t).side IN
  /\ At(t, "closingRecv")
  /\ Returns({recvP[s]})
  /\ recvP' = [recvP EXCEPT ![s] = Nobody]
  /\ Goes(t, <<>>)
  /\ UNCHANGED <<freed, sideClosed, sendP, ioClosed>>

(* ... the sends one by one, the callback before the request leaves the    *)
(* list, ...                                                               *)
Drain(t) ==
  LET s == Op(t).side IN
  /\ At(t, "drain")
  /\ IF sendP[s] = <<>>
     THEN Goes(t, <<>>) /\ UNCHANGED pc
     ELSE /\ Returns({Head(sendP[s])})
          /\ Goes(t, <<I("unlink", s, Head(sendP[s])), Op(t)>>)
  /\ UNCHANGED <<connVars, ioClosed>>

(* (a request the other thread took out first is memory given back)        *)
Unlink(t) ==
  LET s == Op(t).side IN
  /\ At(t, "unlink")
  /\ sendP[s] # <<>> /\ Head(sendP[s]) = Op(t).who
  /\ sendP' = [sendP EXCEPT ![s] = Tail(@)]
  /\ Goes(t, <<>>)
  /\ UNCHANGED <<freed, sideClosed, recvP, ioClosed, pc>>

(* ... and the memory, when both flags are set. *)
ClosingEnd(t) ==
  /\ At(t, "closingEnd")
  /\ freed' = \A s \in Side : sideClosed[s]
  /\ Returns({Op(t).who})
  /\ Goes(t, <<>>)
  /\ UNCHANGED <<sideClosed, recvP, sendP, ioClosed>>

-----------------------------------------------------------------------------
RunsPipe(t) == Send(t) \/ Receive(t) \/ Pump(t) \/ Close(t) \/ ClosingRecv(t)
               \/ Drain(t) \/ Unlink(t) \/ ClosingEnd(t)

Next == \/ ServerCalls
        \/ \E j \in Java : IoTest(j) \/ IoClose(j) \/ LoopHandles(j)
        \/ \E t \in Thread : RunsPipe(t)

Spec == Init /\ [][Next]_vars

(* What Io.close says of itself: an Io that closes once leaves no thread   *)
(* in the pipe with memory that was given back.                            *)
CloseAvoidsUseAfterFree == freed => \A t \in Thread : code[t] = <<>>
=============================================================================
