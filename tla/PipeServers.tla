---------------------------- MODULE PipeServers -----------------------------
(***************************************************************************)
(* The pipe servers of one process: the registry of names of               *)
(* c/pxprpc_pipe/pxprpc_pipe.c and the servers clients create through      *)
(* PxpPipeServer of c-modules/pxprpc_rtbridge_base/init.hpp.  All of it    *)
(* runs on the loop's thread.                                              *)
(*                                                                         *)
(* An entry's name is not copied: it lies in the server that registered    *)
(* it.  An accept that finds a connection hands it to newConn before it    *)
(* takes it from the queue.  newConn answers a request, and on a pipe a    *)
(* polled accept, or whatever the client sends next, then runs inside it.  *)
(* A step that uses memory given back, a null pointer or an empty          *)
(* std::function or queue is the last one; "fault" says what it did.       *)
(***************************************************************************)
EXTENDS Integers, Sequences, FiniteSets, SequencesExt

CONSTANTS
  Server,       \* the PxpPipeServers clients may create
  Name,         \* the names clients serve and connect to
  Static,       \* what owns the manager's entry: no object
  Manager,      \* the manager's name, "/pxprpc/runtime_bridge/0"
  Req,          \* the requests that accept, each round of a poll one
  Nil,
  MaxConn       \* bound: the connections to a server

ASSUME PipeServersAssumption ==
  /\ Static \notin Server /\ Nil \notin Req /\ Manager \in Name /\ MaxConn \in Nat

VARIABLES
  list,         \* _pxprpcServerList
  mem, s,       \* a server: none, live or freed; the name it serves
  connected, waiting, newConn, \* its queue, numbered from 1, and the accept
                               \* that waits or that waited last
  accepting,    \* the servers whose accept is in newConn, innermost last
  used,         \* the requests issued
  answers,      \* history: how often an accept was answered
  arrived, handed, \* history: how many came, and those handed to accepts
  reentered,    \* history: the servers accepted on in their accept's newConn
  shared,       \* history: the names that were served again
  fault

pipeVars == <<list, mem, s, connected, waiting, newConn, accepting, used, answers,
              arrived, handed, reentered, shared, fault>>

PipeInit ==
  /\ list = <<>>
  /\ mem = [x \in Server |-> "none"] /\ s = [x \in Server |-> Nil]
  /\ connected = [x \in Server |-> <<>>]
  /\ waiting = [x \in Server |-> FALSE] /\ newConn = [x \in Server |-> Nil]
  /\ accepting = <<>> /\ reentered = {}
  /\ used = {} /\ answers = [r \in Req |-> 0]
  /\ arrived = [x \in Server |-> 0] /\ handed = [x \in Server |-> <<>>]
  /\ shared = {} /\ fault = "none"

-----------------------------------------------------------------------------
(* The registry. *)

(* The first entry with name n, or the place after the last. *)
Find(n) == IF \E k \in DOMAIN list : list[k].name = n
           THEN CHOOSE k \in DOMAIN list :
                  list[k].name = n /\ \A j \in 1 .. k - 1 : list[j].name # n
           ELSE Len(list) + 1

Freed(x) == x \in Server /\ mem[x] = "freed"

(* A search compares the names up to the first that matches. *)
SearchReadsFreed(n) ==
  \E k \in DOMAIN list : k <= Find(n) /\ Freed(list[k].owner)

Entry(n, owner) == [name |-> n, owner |-> owner, wrapped |-> owner # Static,
                    atHead |-> FALSE]

(* pxprpc_pipe_serve with an on_connect: a name that is there gets the new *)
(* on_connect and keeps its p.                                             *)
Registered(n, owner) ==
  IF Find(n) \in DOMAIN list
  THEN [list EXCEPT ![Find(n)].wrapped = owner # Static]
  ELSE <<Entry(n, owner)>> \o list

Unregistered_none(n) == \* mutant: the entry before it is not relinked
  list

(* ... and without one: the entry is unlinked, but not the head, whose     *)
(* next is set to what it is.  (atHead, history: that happened.)           *)
Unregistered(n) ==
  IF Find(n) \notin DOMAIN list THEN list
  ELSE IF Find(n) = 1 THEN [list EXCEPT ![1].atHead = TRUE]
  ELSE RemoveAt(list, Find(n))

(* ensureInited, on the loop: serve the manager. *)
ServeManager ==
  /\ list' = IF SearchReadsFreed(Manager) THEN list ELSE Registered(Manager, Static)
  /\ fault' = IF SearchReadsFreed(Manager) THEN "name" ELSE fault
  /\ shared' = IF Find(Manager) \in DOMAIN list THEN shared \cup {Manager} ELSE shared
  /\ UNCHANGED <<mem, s, connected, waiting, newConn, accepting, used, answers, arrived,
                 handed, reentered>>

-----------------------------------------------------------------------------
(* PxpPipeServer. *)

(* pxprpc_pipe_pp.serve. *)
Serve(x, n) ==
  /\ mem[x] = "none"
  /\ IF SearchReadsFreed(n)
     THEN fault' = "name" /\ UNCHANGED <<list, mem, s, shared>>
     ELSE /\ mem' = [mem EXCEPT ![x] = "live"]
          /\ s' = [s EXCEPT ![x] = n]
          /\ list' = Registered(n, x)
          /\ shared' = IF Find(n) \in DOMAIN list THEN shared \cup {n} ELSE shared
          /\ UNCHANGED fault
  /\ UNCHANGED <<connected, waiting, newConn, accepting, used, answers, arrived, handed,
                 reentered>>

Answer(r) == answers' = [answers EXCEPT ![r] = @ + 1]

OnConnect_keepsWaiting(x) == \* mutant: waiting is not reset
  LET io == arrived[x] + 1 IN
  /\ arrived' = [arrived EXCEPT ![x] = io]
  /\ IF waiting[x]
     THEN /\ Answer(newConn[x])
          /\ handed' = [handed EXCEPT ![x] = Append(@, io)]
          /\ UNCHANGED <<waiting, connected>>
     ELSE /\ connected' = [connected EXCEPT ![x] = Append(@, io)]
          /\ UNCHANGED <<waiting, handed, answers>>

(* onConnect: the accept that waits gets the connection, or it queues. *)
OnConnect(x) ==
  LET io == arrived[x] + 1 IN
  /\ arrived' = [arrived EXCEPT ![x] = io]
  /\ IF waiting[x]
     THEN /\ waiting' = [waiting EXCEPT ![x] = FALSE]
          /\ Answer(newConn[x])
          /\ handed' = [handed EXCEPT ![x] = Append(@, io)]
          /\ UNCHANGED connected
     ELSE /\ connected' = [connected EXCEPT ![x] = Append(@, io)]
          /\ UNCHANGED <<waiting, handed, answers>>

(* pxprpc_pipe_connect, with the server found: the manager makes a context *)
(* of its own; __wrap_on_connect takes p for a PxpPipeServer, whatever the *)
(* entry was made for.                                                     *)
Connect(n) ==
  LET x == list[Find(n)].owner IN
  /\ Find(n) \in DOMAIN list
  /\ x \in Server => arrived[x] < MaxConn
  /\ IF SearchReadsFreed(n) THEN fault' = "name" ELSE
     IF list[Find(n)].wrapped /\ x = Static THEN fault' = "null" ELSE UNCHANGED fault
  /\ IF fault' = "none" /\ x # Static THEN OnConnect(x)
     ELSE UNCHANGED <<waiting, connected, answers, arrived, handed>>
  /\ UNCHANGED <<list, mem, s, newConn, accepting, used, reentered, shared>>

(* pxprpc_pipe_pp.accept: the first connection of the queue goes to        *)
(* newConn; without one the accept waits, in the place of an accept that   *)
(* may wait already.                                                       *)
Accept(r, x) ==
  /\ r \notin used /\ mem[x] = "live"
  /\ used' = used \cup {r}
  /\ IF connected[x] = <<>>
     THEN /\ newConn' = [newConn EXCEPT ![x] = r]
          /\ waiting' = [waiting EXCEPT ![x] = TRUE]
          /\ UNCHANGED <<accepting, handed, answers, reentered>>
     ELSE /\ handed' = [handed EXCEPT ![x] = Append(@, Head(connected[x]))]
          /\ Answer(r)
          /\ accepting' = Append(accepting, x)
          /\ reentered' = IF x \in ToSet(accepting) THEN reentered \cup {x} ELSE reentered
          /\ UNCHANGED <<newConn, waiting>>
  /\ UNCHANGED <<list, mem, s, connected, arrived, shared, fault>>

(* newConn returned: the accept takes the first connection of the queue,   *)
(* whichever that is by now.                                               *)
Accepted ==
  LET x == Last(accepting) IN
  /\ accepting # <<>>
  /\ IF mem[x] # "live" \/ connected[x] = <<>>
     THEN fault' = "pop" /\ UNCHANGED <<accepting, connected>>
     ELSE /\ connected' = [connected EXCEPT ![x] = Tail(@)]
          /\ accepting' = Front(accepting)
          /\ UNCHANGED fault
  /\ UNCHANGED <<list, mem, s, waiting, newConn, used, answers, arrived, handed,
                 reentered, shared>>

(* ~PxpPipeServer, when the client frees its reference: unregister the     *)
(* name, tell the accept - also when none was ever stored, or when the one *)
(* stored has its answer, whose AsyncReturn is gone.                       *)
FreeServer(x) ==
  /\ mem[x] = "live"
  /\ fault' = IF SearchReadsFreed(s[x]) THEN "name"
              ELSE IF newConn[x] = Nil THEN "empty"
              ELSE IF ~waiting[x] THEN "accept" ELSE "none"
  /\ IF fault' # "none" THEN UNCHANGED <<list, mem, answers>>
     ELSE /\ list' = Unregistered(s[x])
          /\ mem' = [mem EXCEPT ![x] = "freed"]
          /\ Answer(newConn[x])
  /\ UNCHANGED <<s, connected, waiting, newConn, accepting, used, arrived, handed,
                 reentered, shared>>

PipeNext ==
  /\ fault = "none"
  /\ \/ \E x \in Server : \/ \E n \in Name : Serve(x, n)
                          \/ \E r \in Req : Accept(r, x)
                          \/ FreeServer(x)
     \/ \E n \in Name : Connect(n)
     \/ Accepted

-----------------------------------------------------------------------------
(* However accepts run inside one another's newConn: connections are       *)
(* handed out in the order they came; each accept that got one takes one   *)
(* from the queue, so that one handed twice costs another its turn, and    *)
(* that happens only on a server accepted on inside its own accept;        *)
(* nothing queues while an accept waits, and no accept is answered twice.  *)
(* The destructor calls the accept it stored in any case: where that one   *)
(* has its answer, or none was stored, the step is a fault.                *)
Inside(x) == Cardinality({k \in DOMAIN accepting : accepting[k] = x})

HandedExact(x) ==
  /\ \A j, k \in DOMAIN handed[x] : j <= k => handed[x][j] <= handed[x][k]
  /\ Len(handed[x]) + Len(connected[x]) = arrived[x] + Inside(x)
  /\ x \notin reentered => \A k \in DOMAIN handed[x] : handed[x][k] = k
  /\ mem[x] = "live" /\ waiting[x] => connected[x] = <<>> /\ answers[newConn[x]] = 0

ConnectionsHanded ==
  /\ \A x \in Server : HandedExact(x)
  /\ \A r \in Req : answers[r] <= 1
  /\ fault = "pop" => \E x \in Server : Inside(x) > 0 /\ (x \in reentered \/ Freed(x))

(* The registry has one entry a name; a live server is found under its     *)
(* name unless another server took the name over; and an entry outlives    *)
(* its server in one case only, when it was the head as the server went.   *)
(* A search, a connect or a serve uses freed memory only through such an   *)
(* entry.                                                                  *)
RegistryExact ==
  /\ \A j, k \in DOMAIN list : list[j].name = list[k].name => j = k
  /\ \A x \in Server : mem[x] = "live" /\ s[x] \notin shared =>
       \E k \in DOMAIN list : list[k].name = s[x] /\ list[k].owner = x
  /\ \A k \in DOMAIN list : Freed(list[k].owner) =>
       list[k].atHead \/ list[k].name \in shared
  /\ fault = "name" => \E k \in DOMAIN list : list[k].atHead
=============================================================================
