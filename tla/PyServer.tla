------------------------------- MODULE PyServer -----------------------------
(***************************************************************************)
(* The Python server: ServerContext of python/pxprpc/base.py, allocRefFor  *)
(* and PyCallableWrap of extend.py, TcpServer.stop of backend.py.  An      *)
(* action is what a task does between two awaits that may suspend it.      *)
(***************************************************************************)
EXTENDS RpcState

PyServes == pair[2] = "python"

PyExpand_cycles(s) == \* mutant: the last link leads back to the first slot
  LET start == Cardinality(DOMAIN s.refPool)
      end == start + ExpandCount IN
  [s EXCEPT
    !.refPool = [t \in 0 .. end |-> IF t < start THEN @[t]
                                    ELSE Linked(IF t < end - 1 THEN t + 1 ELSE start)],
    !.freeRefEntry = start]

(* ExpandCount + 1 slots are added; the last is not chained, and the one   *)
(* before it ends the chain.                                               *)
PyExpand(s) ==
  LET start == Cardinality(DOMAIN s.refPool)
      end == start + ExpandCount IN
  [s EXCEPT
    !.refPool = [t \in 0 .. end |->
      IF t < start THEN @[t]
      ELSE Linked(IF t < end - 1 THEN t + 1 ELSE IF t = end THEN s.freeRefEntry ELSE Nil)],
    !.freeRefEntry = start]

PyRoom(s) == IF s.freeRefEntry = Nil THEN PyExpand(s) ELSE s

PyAllocRef_keepsEntry(s, c, armed) == \* mutant: the slot stays in the chain
  [Take(PyRoom(s), c, armed) EXCEPT !.freeRefEntry = PyRoom(s).freeRefEntry]

PyAllocRef(s, c, armed) == Take(PyRoom(s), c, armed)

PyCloses_keepsRefs(s) == \* mutant: the slots keep their objects and hooks
  IF s.running THEN {[ShutAt(s, End(s), TRUE) EXCEPT !.refPool = s.refPool]} ELSE {s}

(* close: the io is closed after the last hook, and not when one raises.   *)
PyCloses(s) ==
  IF s.running THEN {ShutAt(s, k, k = End(s)) : k \in Armed(s) \cup {End(s)}} ELSE {s}

PyAnswer(s, c, m) ==
  IF req[c].sid = Signal THEN Silent(s) ELSE Reply(s, c, m, PyCloses(s))

(* What processRequest does when its handler raised. *)
PyAborts == srv' \in PyCloses(srv) /\ UNCHANGED toClient

At(s) == [rejected |-> FALSE, value |-> PyRoom(s).freeRefEntry]

-----------------------------------------------------------------------------
(* serve: one more packet may be read after the context was closed.        *)
PyServeReceive ==
  /\ serve = "receive" /\ toServer # <<>>
  /\ LET m == Head(toServer) IN
       /\ req' = [req EXCEPT ![m.call] = m]
       /\ Goes(m.call, "ready")
       /\ ready' = Append(ready, m.call)
  /\ toServer' = Tail(toServer)
  /\ serve' = IF srv.running THEN "receive" ELSE "ended"
  /\ UNCHANGED <<toClient, lost, srv, result, rounds>>

PyServeRaises ==
  /\ serve = "receive" /\ toServer = <<>> /\ Down
  /\ serve' = "ended"
  /\ srv' \in PyCloses(srv)
  /\ UNCHANGED <<netVars, ready, task, req, result, rounds>>

(* The task of c enters the callable at its index.  An empty slot raises,  *)
(* which closes the context.                                               *)
PyEnter(c) ==
  LET empty == ObjectAt(srv, req[c].index) = NoCall IN
  /\ Goes(c, IF empty THEN "ended" ELSE "called")
  /\ IF empty THEN PyAborts ELSE Silent(srv)

(* The handlers that end without an await.  (The clients free one index at *)
(* a time.)                                                                *)
PyHandler(c) ==
  \/ /\ req[c].op = "getFunc"
     /\ PyAnswer(PyAllocRef(srv, c, FALSE), c, At(srv)) \/ PyAnswer(srv, c, Done)
  \/ /\ req[c].op = "freeRef"
     /\ PyAnswer(Release(srv, req[c].index), c, Done)
        \/ (req[c].index \in Armed(srv) /\ PyAborts)
  \/ req[c].op = "close" /\ PyAborts
  \/ req[c].op = "poll" /\ ~srv.running /\ Silent(srv)

(* processRequest up to its first await. *)
PyTaskBegins ==
  /\ ready # <<>>
  /\ LET c == Head(ready) IN
       IF req[c].op = "call" \/ (req[c].op = "poll" /\ srv.running)
       THEN PyEnter(c)
       ELSE PyHandler(c) /\ Goes(c, "ended")
  /\ ready' = Tail(ready)
  /\ UNCHANGED <<toServer, lost, serve, req, result, rounds>>

PyCallReturns_dropsErrors(c) == \* mutant: an error is not answered
  /\ task[c] = "called" /\ req[c].op = "call"
  /\ \/ PyAnswer(PyAllocRef(srv, c, TRUE), c, At(srv))
     \/ \E rejected \in BOOLEAN :
          IF rejected THEN Silent(srv) ELSE PyAnswer(srv, c, Done)
  /\ Goes(c, "ended")
  /\ UNCHANGED <<toServer, lost, serve, ready, req, result, rounds>>

(* The callable of a call returns, with a new object, without one, or with *)
(* an error.                                                               *)
PyCallReturns(c) ==
  /\ task[c] = "called" /\ req[c].op = "call"
  /\ \/ PyAnswer(PyAllocRef(srv, c, TRUE), c, At(srv))
     \/ \E rejected \in BOOLEAN : PyAnswer(srv, c, [Done EXCEPT !.rejected = rejected])
  /\ Goes(c, "ended")
  /\ UNCHANGED <<toServer, lost, serve, ready, req, result, rounds>>

(* poll's loop after its callable returned: the answer, ...                *)
PyPollReturns(c) ==
  /\ task[c] = "called" /\ req[c].op = "poll"
  /\ \E rejected \in BOOLEAN :
       /\ rejected \/ rounds[c] < MaxRounds
       /\ PyAnswer(srv, c, [Done EXCEPT !.rejected = rejected])
       /\ rounds' = IF rejected THEN rounds ELSE [rounds EXCEPT ![c] = @ + 1]
       /\ Goes(c, IF rejected THEN "ended" ELSE "again")
  /\ UNCHANGED <<toServer, lost, serve, ready, req, result>>

(* ... and, once it was sent, the next round, which looks the index up     *)
(* again.                                                                  *)
PyPollAgain(c) ==
  /\ task[c] = "again"
  /\ IF srv.running THEN PyEnter(c) ELSE Goes(c, "ended") /\ Silent(srv)
  /\ UNCHANGED <<toServer, lost, serve, ready, req, result, rounds>>

(* TcpServer.stop. *)
PyServerStop ==
  /\ Stops /\ srv.running
  /\ srv' = [srv EXCEPT !.running = FALSE, !.shut = TRUE]
  /\ UNCHANGED <<netVars, serve, ready, task, req, result, rounds>>

PyServerRuns == PyServeReceive \/ PyServeRaises \/ PyTaskBegins
                \/ \E c \in Call : PyPollAgain(c)

PyServerTask ==
  /\ PyServes
  /\ PyServerRuns \/ PyServerStop \/ \E c \in Call : PyCallReturns(c) \/ PyPollReturns(c)
  /\ UNCHANGED <<pair, clientVars>>
=============================================================================
