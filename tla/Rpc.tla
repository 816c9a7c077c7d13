--------------------------------- MODULE Rpc --------------------------------
(***************************************************************************)
(* A client and a server on one connection, in any of the languages.       *)
(***************************************************************************)
EXTENDS PyServer, TsServer, PyClient, TsClient

Next == PyServerTask \/ TsServerTask \/ PyClientTask \/ TsClientTask \/ Lose

Spec == Init /\ [][Next]_vars

(* The event loops run every task that is ready; the callables of calls    *)
(* return, which a poll's need not.                                        *)
FairSpec ==
  /\ Spec
  /\ WF_vars(PyServes /\ PyServerRuns /\ UNCHANGED <<pair, clientVars>>)
  /\ WF_vars(TsServes /\ TsServerRuns /\ UNCHANGED <<pair, clientVars>>)
  /\ WF_vars(PyRun \/ TsRun)
  /\ \A c \in Call :
       /\ WF_vars(PyResume(c) \/ TsResume(c))
       /\ WF_vars(PyServes /\ PyCallReturns(c) /\ UNCHANGED <<pair, clientVars>>)
       /\ WF_vars(TsServes /\ req[c].op = "call" /\ TsCallReturns(c)
                  /\ UNCHANGED <<pair, clientVars>>)
-----------------------------------------------------------------------------
(* An operation is given the answer to its own request, whatever ids were  *)
(* used again for it and however late the answer came: the run task of     *)
(* ClientContext and Client matches answers by session id alone.           *)
AnswerIsOwn == \A c \in Call : answer[c].call \in {c, NoCall}

(* While the context runs, the index an object of the client holds denotes *)
(* what the server created for it: allocRef does not hand out an index     *)
(* before its holder's freeRef.                                            *)
RefsAgree ==
  srv.running =>
    \A c \in Call : handle[c] # Nil => ObjectAt(srv, handle[c]) = c

(* Every round of a poll calls the object that was polled, although poll   *)
(* looks its index up again for each.                                      *)
PollSticks ==
  \A c \in Call : task[c] = "called" /\ req[c].op = "poll" /\ srv.running =>
    ObjectAt(srv, req[c].index) = pollOn[c]

(* The slots of the free chain, in its order. *)
Chain ==
  LET from[n \in 0 .. Cardinality(Slot) + 1, i \in Slot \cup {Nil}] ==
        IF i = Nil \/ n = 0 THEN <<>> ELSE <<i>> \o from[n - 1, srv.refPool[i].nextFree]
  IN from[Cardinality(Slot) + 1, srv.freeRefEntry]

Unchained == IF PyServes THEN Cardinality(DOMAIN srv.refPool) \div (ExpandCount + 1) ELSE 0

(* While the context runs, the free chain that expandRefPools, allocRef    *)
(* and freeRef keep ends, visits no slot twice and no slot that holds an   *)
(* object, and misses none: in Python, one for each expansion.             *)
ChainExact ==
  srv.running =>
    LET held == {i \in DOMAIN srv.refPool : srv.refPool[i].object # NoCall}
        chain == Chain
        free == {chain[k] : k \in 1 .. Len(chain)} IN
    /\ Len(chain) = Cardinality(free)
    /\ free \cap held = {}
    /\ Cardinality(free) + Cardinality(held) = Cardinality(DOMAIN srv.refPool) - Unchained

(* An object with a close method is in one slot that will run it, or the   *)
(* method returned once: no free and no close of the context runs a method *)
(* again that has returned.  One that raised stays in its slot, and the    *)
(* close that follows runs it again.                                       *)
HookRunsOnce ==
  \A c \in Call : srv.freed[c] + Cardinality({i \in Armed(srv) : srv.refPool[i].object = c}) <= 1

(* The exception of Python's run task does not reach c: before it in the   *)
(* table is a poll's callback or the future of a cancelled task.           *)
Blocked(c) ==
  /\ PyCalls
  /\ \E j, k \in 1 .. Len(waiting) :
       j < k /\ waiting[k].call = c
             /\ (waiting[j].callback \/ pc[waiting[j].call] = "cancelled")

(* A close that an object's method cut short: in Python, the server ended  *)
(* and its connection did not.                                             *)
HalfClosed == ~srv.running /\ ~Down

(* An operation that began while the client ran ends, whether it is        *)
(* answered or the connection ends, unless somebody closed the client, the *)
(* exception cannot reach it, or the server closed by half.                *)
CallsReturn ==
  \A c \in Call :
    (pc[c] = "waiting" /\ loop = "receive") ~>
      \/ pc[c] # "waiting"
      \/ loop = "ended" /\ Blocked(c)
      \/ HalfClosed
      \/ \E d \in Call : kind[d] = "close"
=============================================================================
