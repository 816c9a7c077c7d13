------------------------------- MODULE TsServer -----------------------------
(***************************************************************************)
(* The TypeScript server: Server of typescript/pxprpc/base.ts, allocRefFor *)
(* and RpcExtendServerCallable of extend.ts.                               *)
(*                                                                         *)
(* serve calls processRequest itself, so a handler runs when its packet is *)
(* read; its answer is sent after an await, when other promises may have   *)
(* gone on in between.                                                     *)
(***************************************************************************)
EXTENDS RpcState

TsServes == pair[2] = "typescript"

TsExpand(s) ==
  LET start == Cardinality(DOMAIN s.refPool)
      end == start + ExpandCount - 1 IN
  [s EXCEPT
    !.refPool = [i \in 0 .. end |->
      IF i < start THEN @[i] ELSE Linked(IF i < end THEN i + 1 ELSE s.freeRefEntry)],
    !.freeRefEntry = start]

TsRoom(s) == IF s.freeRefEntry = Nil THEN TsExpand(s) ELSE s

TsAllocRef(s, c, armed) == Take(TsRoom(s), c, armed)

(* close: the io is closed before the first hook. *)
TsCloses(s) ==
  IF s.running THEN {ShutAt(s, k, TRUE) : k \in Armed(s) \cup {End(s)}} ELSE {s}

-----------------------------------------------------------------------------
(* The callable at the index of c is called in state s.  An empty slot     *)
(* throws, which closes the context.                                       *)
TsEnter(c, index) ==
  LET empty == ObjectAt(srv, index) = NoCall IN
  /\ Goes(c, IF empty THEN "ended" ELSE "called")
  /\ srv' \in IF empty THEN TsCloses(srv) ELSE {srv}
  /\ UNCHANGED result

Leaves(c, s, value) ==
  /\ srv' = s
  /\ result' = [result EXCEPT ![c] = [Done EXCEPT !.value = value]]
  /\ Goes(c, "answer")

(* The handler raised, or was close. *)
TsAborts(c) == srv' \in TsCloses(srv) /\ Goes(c, "ended") /\ UNCHANGED result

TsHandler(c, m) ==
  CASE m.op = "getFunc" -> \/ Leaves(c, TsAllocRef(srv, c, FALSE), TsRoom(srv).freeRefEntry)
                           \/ Leaves(c, srv, Nil)
    [] m.op = "freeRef" -> Leaves(c, Release(srv, m.index), Nil)
                           \/ (m.index \in Armed(srv) /\ TsAborts(c))
    [] m.op = "close" -> TsAborts(c)
    [] m.op = "poll" /\ ~srv.running -> srv' = srv /\ Goes(c, "ended") /\ UNCHANGED result
    [] OTHER -> TsEnter(c, m.index)

(* serve reads a packet, one more after the context was closed, and        *)
(* processRequest runs its handler.                                        *)
TsServeReceive ==
  /\ serve = "receive" /\ toServer # <<>>
  /\ LET m == Head(toServer) IN
       /\ req' = [req EXCEPT ![m.call] = m]
       /\ TsHandler(m.call, m)
  /\ toServer' = Tail(toServer)
  /\ serve' = IF srv'.running THEN "receive" ELSE "ended"
  /\ UNCHANGED <<toClient, lost, ready, rounds>>

TsServeRaises ==
  /\ serve = "receive" /\ toServer = <<>> /\ Down
  /\ serve' = "ended"
  /\ srv' \in TsCloses(srv)
  /\ UNCHANGED <<netVars, ready, task, req, result, rounds>>

(* The callable returns, with a new object, without one, or with an error. *)
TsCallReturns(c) ==
  /\ task[c] = "called"
  /\ \/ req[c].op = "call" /\ Leaves(c, TsAllocRef(srv, c, TRUE), TsRoom(srv).freeRefEntry)
     \/ /\ \E rejected \in BOOLEAN :
             /\ req[c].op = "poll" => rejected \/ rounds[c] < MaxRounds
             /\ result' = [result EXCEPT ![c] = [Done EXCEPT !.rejected = rejected]]
        /\ Goes(c, "answer") /\ UNCHANGED srv
  /\ UNCHANGED <<netVars, serve, ready, req, rounds>>

(* processRequest after its handler. *)
TsAnswers(c) ==
  /\ task[c] = "answer"
  /\ IF req[c].sid = Signal THEN Silent(srv) ELSE Reply(srv, c, result[c], TsCloses(srv))
  /\ IF req[c].op = "poll" /\ ~result[c].rejected
     THEN rounds' = [rounds EXCEPT ![c] = @ + 1] /\ Goes(c, "again")
     ELSE UNCHANGED rounds /\ Goes(c, "ended")
  /\ UNCHANGED <<toServer, lost, serve, ready, req, result>>

(* poll's loop looks the index up again for the next round. *)
TsPollAgain(c) ==
  /\ task[c] = "again"
  /\ IF srv.running THEN TsEnter(c, req[c].index)
     ELSE Goes(c, "ended") /\ UNCHANGED <<srv, result>>
  /\ UNCHANGED <<netVars, serve, ready, req, rounds>>

TsServerRuns == TsServeReceive \/ TsServeRaises
                \/ \E c \in Call : TsAnswers(c) \/ TsPollAgain(c)

TsServerTask ==
  /\ TsServes
  /\ TsServerRuns \/ \E c \in Call : TsCallReturns(c)
  /\ UNCHANGED <<pair, clientVars>>
=============================================================================
