------------------------------ MODULE LibuvIo -------------------------------
(***************************************************************************)
(* The server on a libuv listener (c/pxprpc_libuv/pxprpc_libuv.c), as      *)
(* TcpPxpRpcServer of the bridge starts and stops it.  One thread, the     *)
(* loop's: a callback of libuv is one action.                              *)
(*                                                                         *)
(* Of a connection's server context (module PxpServer) only what it asks   *)
(* of the io is here.  A null pointer followed, or a pointer nobody set,   *)
(* ends the process: "down".  Memory used after it was given back is       *)
(* recorded in "touched".                                                  *)
(***************************************************************************)
EXTENDS Integers, Sequences, FiniteSets, SequencesExt

CONSTANTS
  Conn, Nil,   \* the connections (sockconn) a run may accept; NULL
  Packets,     \* the packets clients send: sequences of bytes
  HeadSize,    \* the bytes of a packet's size: 4
  MaxPackets,  \* bound: the packets all clients send
  MaxStarts    \* bound: how often the server is started

ASSUME LibuvAssumption ==
  /\ Nil \notin Conn
  /\ Packets \subseteq Seq(Nat) \ {<<>>}
  /\ {HeadSize, MaxStarts} \subseteq Nat \ {0} /\ MaxPackets \in Nat

VARIABLES
  tcp, starts,        \* the listener: none, open, or left by a failed bind
  acceptedConn, prev, next, serv, \* the list; does conn->serv point to it?
  mem,                \* is the sockconn's memory none, live or freed?
  stream,             \* its handle: raw (no data set), open, closing, closed
  recv,               \* recvBuf and nextBuf
  writes,             \* the write requests in flight
  closed, calls, signals, \* the context: closed; its running callables, those
                      \* of requests and those of signals
  wire,               \* the bytes the client sent and libuv has not read
  down, touched,
  sent, delivered, split \* history: packets sent and received; a header was
                      \* read in two pieces

listVars == <<acceptedConn, prev, next, serv, mem>>
dataVars == <<recv, wire, sent, delivered, split>>
ctxVars == <<closed, calls, signals>>
vars == <<tcp, starts, listVars, stream, writes, dataVars, ctxVars, down, touched>>

NoRecv == [on |-> FALSE, base |-> FALSE, length |-> 0, got |-> <<>>]
Live == {c \in Conn : mem[c] = "live"}

Init ==
  /\ tcp = "none" /\ starts = 0
  /\ acceptedConn = Nil
  /\ prev = [c \in Conn |-> Nil] /\ next = [c \in Conn |-> Nil]
  /\ serv = [c \in Conn |-> FALSE] /\ mem = [c \in Conn |-> "none"]
  /\ stream = [c \in Conn |-> "raw"]
  /\ recv = [c \in Conn |-> NoRecv] /\ writes = [c \in Conn |-> 0]
  /\ closed = [c \in Conn |-> FALSE]
  /\ calls = [c \in Conn |-> 0] /\ signals = [c \in Conn |-> 0]
  /\ wire = [c \in Conn |-> <<>>]
  /\ down = FALSE /\ touched = {}
  /\ sent = [c \in Conn |-> <<>>] /\ delivered = [c \in Conn |-> <<>>]
  /\ split = [c \in Conn |-> FALSE]

-----------------------------------------------------------------------------
(* The server. *)

(* TcpPxpRpcServer::start; when bind fails the handle stays, without a     *)
(* server.                                                                 *)
Start ==
  /\ tcp = "none" /\ starts < MaxStarts
  /\ tcp' \in {"open", "unbound"}
  /\ starts' = starts + 1
  /\ UNCHANGED <<listVars, stream, writes, dataVars, ctxVars, down, touched>>

(* __uvListenConnectionCb and __buildLibuvSockconn: the connection heads   *)
(* the list before it is known whether it can be accepted.                 *)
Connection(c) ==
  /\ tcp = "open" /\ mem[c] = "none"
  /\ mem' = [mem EXCEPT ![c] = "live"]
  /\ acceptedConn' = c
  /\ next' = [next EXCEPT ![c] = acceptedConn]
  /\ prev' = IF acceptedConn = Nil THEN prev ELSE [prev EXCEPT ![acceptedConn] = c]
  /\ serv' = [serv EXCEPT ![c] = TRUE]
  /\ touched' = IF acceptedConn # Nil /\ mem[acceptedConn] = "freed"
                THEN touched \cup {"list"} ELSE touched
  /\ \/ /\ stream' = [stream EXCEPT ![c] = "open"]
        /\ recv' = [recv EXCEPT ![c].on = TRUE]
     \/ UNCHANGED <<stream, recv>>
  /\ UNCHANGED <<tcp, starts, writes, wire, sent, delivered, split, ctxVars, down>>

RECURSIVE Chain(_, _)
Chain(c, n) == IF c = Nil \/ n = 0 THEN <<>> ELSE <<c>> \o Chain(next[c], n - 1)

(* The connections server_delete walks. *)
Accepted == Chain(acceptedConn, Cardinality(Conn))

(* TcpPxpRpcServer::stop, and its destructor: pxprpc_libuv_server_delete   *)
(* detaches and closes every connection and frees itself, then the         *)
(* listener is closed.  Without a server there is no pointer to delete.    *)
Stop ==
  /\ tcp # "none"
  /\ IF tcp = "unbound"
     THEN down' = TRUE /\ UNCHANGED <<tcp, acceptedConn, serv, stream>>
     ELSE /\ tcp' = "none" /\ acceptedConn' = Nil
          /\ serv' = [c \in Conn |-> serv[c] /\ c \notin ToSet(Accepted)]
          /\ stream' = [c \in Conn |-> IF c \notin ToSet(Accepted) THEN stream[c]
                                       ELSE IF stream[c] = "raw" THEN "closingRaw"
                                       ELSE "closing"]
          /\ UNCHANGED down
  /\ UNCHANGED <<starts, prev, next, mem, writes, dataVars, ctxVars, touched>>

-----------------------------------------------------------------------------
(* Closing a connection. *)

(* io->close: uv_close, once. *)
IoClose(c) == stream' = [stream EXCEPT ![c] = "closing"]

Unlink_keepsPrev(c) == \* mutant: the predecessor keeps its pointer
  /\ prev' = IF next[c] = Nil THEN prev ELSE [prev EXCEPT ![next[c]] = prev[c]]
  /\ next' = next
  /\ acceptedConn' = IF serv[c] /\ acceptedConn = c THEN next[c] ELSE acceptedConn

(* The list's part of __freeLibuvSockconn; a detached connection does not  *)
(* touch the server.                                                       *)
Unlink(c) ==
  /\ prev' = IF next[c] = Nil THEN prev ELSE [prev EXCEPT ![next[c]] = prev[c]]
  /\ next' = IF prev[c] = Nil THEN next ELSE [next EXCEPT ![prev[c]] = next[c]]
  /\ acceptedConn' = IF serv[c] /\ acceptedConn = c THEN next[c] ELSE acceptedConn

(* libuv ends a closing handle: the writes it had not finished fail first, *)
(* which their callback does not survive; then __freeLibuvSockconn2        *)
(* deletes the context and frees the connection.  A handle without data    *)
(* has no connection to free.                                              *)
CloseCb(c) ==
  /\ stream[c] \in {"closing", "closingRaw"}
  /\ \/ /\ writes[c] > 0 \/ stream[c] = "closingRaw"
        /\ down' = TRUE
        /\ UNCHANGED <<listVars, stream, writes, closed, touched>>
     \/ /\ stream[c] = "closing"
        /\ Unlink(c)
        /\ touched' = IF \E d \in {prev[c], next[c]} \cap Conn : mem[d] = "freed"
                      THEN touched \cup {"list"} ELSE touched
        /\ mem' = [mem EXCEPT ![c] = "freed"]
        /\ stream' = [stream EXCEPT ![c] = "closed"]
        /\ writes' = [writes EXCEPT ![c] = 0]
        /\ closed' = [closed EXCEPT ![c] = TRUE]
        /\ UNCHANGED <<serv, down>>
  /\ UNCHANGED <<tcp, starts, dataVars, calls, signals>>

-----------------------------------------------------------------------------
(* Receiving. *)

Framed(p) == <<Len(p)>> \o [k \in 1 .. HeadSize - 1 |-> 0] \o p

ClientSends(c, p) ==
  /\ stream[c] = "open"
  /\ FoldFunction(LAMBDA s, n : n + Len(s), 0, sent) < MaxPackets
  /\ wire' = [wire EXCEPT ![c] = @ \o Framed(p)]
  /\ sent' = [sent EXCEPT ![c] = Append(@, p)]
  /\ UNCHANGED <<tcp, starts, listVars, stream, recv, delivered, split, writes,
                 ctxVars, down, touched>>

(* nextBuf.len *)
Need(c) == IF recv[c].base THEN recv[c].length - Len(recv[c].got) ELSE HeadSize

(* __sockAbsIo1Receive, when no receive is pending. *)
Receiving == [NoRecv EXCEPT !.on = TRUE]

(* What the context does with a packet: finish a signal, answer a request, *)
(* start the callable of either, or close.                                 *)
Serve(c) ==
  \/ UNCHANGED <<stream, writes, ctxVars>>
  \/ writes' = [writes EXCEPT ![c] = @ + 1] /\ UNCHANGED <<stream, ctxVars>>
  \/ calls' = [calls EXCEPT ![c] = @ + 1]
     /\ UNCHANGED <<stream, writes, closed, signals>>
  \/ signals' = [signals EXCEPT ![c] = @ + 1]
     /\ UNCHANGED <<stream, writes, closed, calls>>
  \/ IoClose(c) /\ closed' = [closed EXCEPT ![c] = TRUE]
     /\ UNCHANGED <<writes, calls, signals>>

Number(bytes) == FoldRight(LAMBDA b, acc : b + 256 * acc, bytes, 0)

(* __sockUvReadCb, the header: the first bytes that arrive are taken for   *)
(* all of it; length was 0.                                                *)
ReadHead(c, n) ==
  /\ wire' = [wire EXCEPT ![c] = SubSeq(@, n + 1, Len(@))]
  /\ recv' = [recv EXCEPT ![c].base = TRUE,
                          ![c].length = Number(SubSeq(wire[c], 1, n))]

Fulfilled_anyRead(c, n) == \* mutant: any read completes the packet
  TRUE

(* nextBuf.len is 0 after n bytes. *)
Fulfilled(c, n) == n = Need(c)

(* __sockUvReadCb with n bytes. *)
ReadCb(c, n) ==
  /\ stream[c] = "open" /\ recv[c].on
  /\ n \in 1 .. Need(c) /\ n <= Len(wire[c])
  /\ IF ~recv[c].base
     THEN /\ ReadHead(c, n)
          /\ split' = [split EXCEPT ![c] = @ \/ n < HeadSize]
          /\ UNCHANGED <<delivered, stream, writes, ctxVars>>
     ELSE LET got == recv[c].got \o SubSeq(wire[c], 1, n) IN
          /\ wire' = [wire EXCEPT ![c] = SubSeq(@, n + 1, Len(@))]
          /\ IF ~Fulfilled(c, n)
             THEN /\ recv' = [recv EXCEPT ![c].got = got]
                  /\ UNCHANGED <<delivered, stream, writes, ctxVars>>
             ELSE /\ delivered' = [delivered EXCEPT ![c] = Append(@, got)]
                  /\ Serve(c)
                  /\ recv' = [recv EXCEPT ![c] = IF closed'[c] THEN NoRecv
                                                 ELSE Receiving]
          /\ UNCHANGED split
  /\ UNCHANGED <<tcp, starts, listVars, sent, down, touched>>

(* __sockUvReadCb with an error, the end of the stream among them; a size  *)
(* of 0 leaves no buffer and is one as well.  The context closes.          *)
ReadError(c) ==
  /\ stream[c] = "open" /\ recv[c].on
  /\ recv' = [recv EXCEPT ![c] = NoRecv]
  /\ IoClose(c)
  /\ closed' = [closed EXCEPT ![c] = TRUE]
  /\ UNCHANGED <<tcp, starts, listVars, writes, wire, sent, delivered, split,
                 calls, signals, down, touched>>

-----------------------------------------------------------------------------
(* Sending. *)

(* __sockUvWriteCb: sockconn is never set; a failed write follows it. *)
WriteCb(c) ==
  /\ stream[c] = "open" /\ writes[c] > 0
  /\ \/ writes' = [writes EXCEPT ![c] = @ - 1] /\ UNCHANGED down
     \/ down' = TRUE /\ UNCHANGED writes
  /\ UNCHANGED <<tcp, starts, listVars, stream, dataVars, ctxVars, touched>>

(* The callable of a request returns: its answer is sent unless the        *)
(* context is closed.  libuv refuses a write on a closing handle, without  *)
(* a callback.                                                             *)
CallReturns(c) ==
  /\ calls[c] > 0
  /\ calls' = [calls EXCEPT ![c] = @ - 1]
  /\ writes' = IF closed[c] \/ stream[c] # "open" THEN writes
               ELSE [writes EXCEPT ![c] = @ + 1]
  /\ UNCHANGED <<tcp, starts, listVars, stream, dataVars, closed, signals, down,
                 touched>>

(* The callable of a signal returns: finishRequest reads io->send_error,   *)
(* in the connection's memory, whether or not the context is closed.       *)
SignalReturns(c) ==
  /\ signals[c] > 0
  /\ signals' = [signals EXCEPT ![c] = @ - 1]
  /\ touched' = IF mem[c] = "freed" THEN touched \cup {"signal"} ELSE touched
  /\ UNCHANGED <<tcp, starts, listVars, stream, writes, dataVars, closed, calls,
                 down>>

-----------------------------------------------------------------------------
Next ==
  /\ ~down
  /\ \/ Start
     \/ Stop
     \/ \E c \in Conn :
          \/ Connection(c)
          \/ CloseCb(c)
          \/ \E p \in Packets : ClientSends(c, p)
          \/ \E n \in 1 .. HeadSize + MaxPackets : ReadCb(c, n)
          \/ ReadError(c)
          \/ WriteCb(c)
          \/ CallReturns(c)
          \/ SignalReturns(c)

Spec == Init /\ [][Next]_vars
-----------------------------------------------------------------------------
(* The context receives the client's packets whole and in the order sent,  *)
(* however the bytes arrive, as long as no header arrives in two pieces:   *)
(* __sockUvReadCb then takes the rest of the header for the packet.        *)
InOrder == \A c \in Conn : ~split[c] => IsPrefix(delivered[c], sent[c])

(* The list holds the attached connections whose memory is live, each      *)
(* once, with prev the inverse of next, and no live connection, attached   *)
(* or detached, points to one that was freed: connections end in any order *)
(* before, between and after stops and new starts.  A connection that a    *)
(* stop detached is being closed: none outlives its server.  Memory that   *)
(* was given back is used by one thing only, the callable of a signal that *)
(* returns after its connection was freed.                                 *)
MemoryExact ==
  /\ ~down =>
       /\ ToSet(Accepted) = {c \in Live : serv[c]}
       /\ \A c \in Live :
            /\ next[c] # Nil => next[c] \in Live /\ prev[next[c]] = c
            /\ prev[c] # Nil => prev[c] \in Live /\ next[prev[c]] = c
            /\ serv[c] = (tcp = "open") \/ stream[c] \in {"closing", "closingRaw"}
  /\ touched \subseteq {"signal"}
=============================================================================
