------------------------------- MODULE RpcState -----------------------------
(***************************************************************************)
(* A client context, a server context and the connection between them, as  *)
(* the Python and the TypeScript runtime have them: one event loop on each *)
(* side, tasks that interleave where they await.  PyClient, PyServer,      *)
(* TsClient and TsServer are the two sides in the two languages, on the    *)
(* variables declared here; Rpc puts two sides together.                   *)
(*                                                                         *)
(* A request, and the object that is created for it, carries the name of   *)
(* the client's operation.                                                 *)
(***************************************************************************)
EXTENDS Integers, Sequences, SequencesExt, FiniteSets

CONSTANTS
  Call,         \* the client's operations, numbered as they begin
  NoCall,
  Signal,       \* session 0xffffffff
  Pairs,        \* the languages of the client and the server
  ExpandCount,  \* RefPoolExpandCount
  SidEnd,       \* session ids end here (__sidEnd, 0xffff)
  MaxRounds,    \* bound: the answers to a poll
  Stops,        \* does the owner of an end stop it?
  Cancels,      \* may a task that waits for an answer be cancelled?
  StaleReuse    \* may a session id be used again before the answer to the
                \* operation that abandoned it?

Language == {"python", "typescript"}

ASSUME RpcAssumption ==
  /\ Call \subseteq Nat /\ NoCall \notin Call
  /\ Pairs \subseteq Language \X Language
  /\ ExpandCount \in Nat \ {0} /\ MaxRounds \in Nat \ {0}
  /\ SidEnd \in Nat /\ SidEnd > 1 /\ Signal \notin 0 .. SidEnd
  /\ {Stops, Cancels, StaleReuse} \subseteq BOOLEAN

Nil == -1
Sid == 1 .. SidEnd

VARIABLES
  pair,    \* the languages, chosen once
  toServer, toClient, \* the packets on their way
  lost,    \* the connection broke, or the client closed it
  srv,     \* the context: refPool, freeRefEntry, running, whether its io is
           \* closed (shut), and, as history, how often each object's onFree
           \* returned (freed)
  serve,   \* the serve task: "receive" or "ended"
  ready,   \* the created tasks that have not begun
  task,    \* each request's task: "none", "ready", "called" (in its callable),
           \* "answer" (its handler is done), "again" (a poll that answered),
           \* "ended"
  req,     \* its request
  result,  \* what its handler left
  rounds,  \* the rounds of a poll that were answered
  waiting, \* the operations that wait for an answer, by session id
  usedSid, nextSid,
  crunning,\* the client's running
  loop,    \* its run task: "receive" or "ended"
  pc,      \* each operation
  kind, mySid,
  answer,  \* what its future or callback was given
  handle,  \* the index the object it returned holds, or Nil
  pollOn,  \* history: the object whose handle it polls
  told,    \* history: how often a poll's callback was told its end
  signals  \* the created tasks that are to send a signal (Python)

netVars == <<toServer, toClient, lost>>
serverVars == <<srv, serve, ready, task, req, result, rounds>>
clientVars == <<waiting, usedSid, nextSid, crunning, loop, pc, kind, mySid,
                answer, handle, pollOn, told, signals>>
vars == <<pair, netVars, serverVars, clientVars>>

(* getInfo is answered like a getFunc that finds nothing. *)
Op == {"getFunc", "freeRef", "close", "poll", "call"}
NoRequest == [call |-> NoCall, op |-> "close", sid |-> Signal, index |-> Nil]
Done == [rejected |-> FALSE, value |-> Nil]
Raised == [call |-> NoCall, sid |-> Signal, rejected |-> TRUE, value |-> Nil]
None == [call |-> NoCall, sid |-> Signal, rejected |-> FALSE, value |-> Nil]


Slot == 0 .. Cardinality(Call) * (ExpandCount + 1) - 1

Init ==
  /\ pair \in Pairs
  /\ toServer = <<>> /\ toClient = <<>> /\ lost = FALSE
  /\ srv = [refPool |-> <<>>, freeRefEntry |-> Nil, running |-> TRUE,
            shut |-> FALSE, freed |-> [c \in Call |-> 0]]
  /\ serve = "receive" /\ ready = <<>>
  /\ task = [c \in Call |-> "none"] /\ req = [c \in Call |-> NoRequest]
  /\ result = [c \in Call |-> Done] /\ rounds = [c \in Call |-> 0]
  /\ waiting = <<>> /\ usedSid = {} /\ nextSid = 1
  /\ crunning = TRUE /\ loop = "receive"
  /\ pc = [c \in Call |-> "idle"] /\ kind = [c \in Call |-> "none"]
  /\ mySid = [c \in Call |-> Signal]
  /\ answer = [c \in Call |-> None] /\ handle = [c \in Call |-> Nil]
  /\ pollOn = [c \in Call |-> NoCall] /\ told = [c \in Call |-> 0] /\ signals = <<>>

-----------------------------------------------------------------------------
(* The connection.  A packet that is sent when it is broken or closed is   *)
(* lost, or its send raises.                                               *)
Down == lost \/ srv.shut

SendRequest(m, raises) ==
  /\ raises => Down
  /\ toServer' = IF Down THEN toServer ELSE Append(toServer, m)

(* The connection breaks. *)
Lose ==
  /\ ~lost
  /\ lost' = TRUE /\ toServer' = <<>> /\ toClient' = <<>>
  /\ UNCHANGED <<pair, serverVars, clientVars>>

(* Slots of a context s. *)
ObjectAt(s, i) == IF i \in DOMAIN s.refPool THEN s.refPool[i].object ELSE NoCall

EmptySlot == [object |-> NoCall, armed |-> FALSE, nextFree |-> Nil]

Linked(i) == [EmptySlot EXCEPT !.nextFree = i]

(* The head of the free chain goes to c; armed says whether the object has *)
(* a close method.                                                         *)
Take(s, c, armed) ==
  LET i == s.freeRefEntry IN
  [s EXCEPT !.refPool[i] = [object |-> c, armed |-> armed, nextFree |-> @.nextFree],
            !.freeRefEntry = s.refPool[i].nextFree]

Armed(s) == {i \in DOMAIN s.refPool : s.refPool[i].armed}

(* freeRef when the hook of slot i, if it has one, returns: the slot goes  *)
(* to the head of the chain.  One that raises leaves the slot as it is.    *)
Release(s, i) ==
  LET o == s.refPool[i].object IN
  [s EXCEPT !.refPool[i] = Linked(s.freeRefEntry),
            !.freeRefEntry = i,
            !.freed = IF s.refPool[i].armed THEN [s.freed EXCEPT ![o] = @ + 1] ELSE s.freed]

(* close: the hooks run in the order of the slots, which are emptied, up   *)
(* to one that raises, at slot k; all when k is the end of the pool.       *)
ShutAt(s, k, shut) ==
  LET ran == {s.refPool[i].object : i \in {j \in Armed(s) : j < k}} IN
  [s EXCEPT !.running = FALSE, !.shut = s.shut \/ shut,
            !.refPool = [i \in DOMAIN s.refPool |->
              IF i < k THEN [s.refPool[i] EXCEPT !.object = NoCall, !.armed = FALSE]
              ELSE s.refPool[i]],
            !.freed = [c \in Call |-> IF c \in ran THEN s.freed[c] + 1 ELSE s.freed[c]]]

End(s) == Cardinality(DOMAIN s.refPool)

Silent(s) == srv' = s /\ UNCHANGED toClient

(* The context s sends the answer m to c; failing has the contexts after a *)
(* send that raised.                                                       *)
Reply(s, c, m, failing) ==
  IF Down
  THEN srv' \in {s} \cup failing /\ UNCHANGED toClient
  ELSE /\ srv' = s
       /\ toClient' = Append(toClient, [call |-> c, sid |-> req[c].sid,
                                        rejected |-> m.rejected, value |-> m.value])

Goes(c, state) == task' = [task EXCEPT ![c] = state]

(* The session ids of the client, the same in both languages.              *)
Unused(ids) == {sid \in ids : sid \notin usedSid}

First(ids) == CHOOSE sid \in ids : \A other \in ids : sid <= other

(* allocSid: the first unused id from nextSid on and then from the start;  *)
(* 0 if there is none, which raises.                                       *)
Free ==
  LET upward == Unused({nextSid} \cup nextSid .. SidEnd - 1)
      again == Unused(1 .. SidEnd - 1) IN
  IF upward # {} THEN First(upward) ELSE IF again # {} THEN First(again) ELSE 0

(* nextSid; when none is left it stays on the end, which is the next id.   *)
Following(sid) == IF sid = 0 THEN SidEnd ELSE IF sid + 1 >= SidEnd THEN 1 ELSE sid + 1

(* The table of waiting operations: a session id that is used again keeps  *)
(* its place.                                                              *)
KeyOf(sid) == {k \in 1 .. Len(waiting) : waiting[k].sid = sid}

Put(w, e) ==
  IF \E k \in 1 .. Len(w) : w[k].sid = e.sid
  THEN [k \in 1 .. Len(w) |-> IF w[k].sid = e.sid THEN e ELSE w[k]]
  ELSE Append(w, e)

Without(w, sid) ==
  IF \E k \in 1 .. Len(w) : w[k].sid = sid
  THEN RemoveAt(w, CHOOSE k \in 1 .. Len(w) : w[k].sid = sid)
  ELSE w

Outstanding(sid) == \E k \in KeyOf(sid) : waiting[k].done \/ pc[waiting[k].call] = "raised"

(* Operations begin in the order of their numbers. *)
MayBegin(c) == pc[c] = "idle" /\ \A d \in Call : d < c => pc[d] # "idle"

(* c enters the table and sends its request. *)
Registers(c, k, sid, index, raises) ==
  /\ sid # 0 /\ (StaleReuse \/ ~Outstanding(sid))
  /\ kind' = [kind EXCEPT ![c] = k]
  /\ mySid' = [mySid EXCEPT ![c] = sid]
  /\ waiting' = Put(waiting, [sid |-> sid, call |-> c, callback |-> k = "poll", done |-> FALSE])
  /\ SendRequest([call |-> c, op |-> k, sid |-> sid, index |-> index], raises)
  /\ pc' = [pc EXCEPT ![c] = IF raises THEN "raised"
                             ELSE IF k = "poll" THEN "polling" ELSE "waiting"]

(* An operation of kind k that raised before it sent anything. *)
Refused(c, k) ==
  /\ kind' = [kind EXCEPT ![c] = k] /\ pc' = [pc EXCEPT ![c] = "raised"]
  /\ UNCHANGED <<waiting, mySid, toServer>>
=============================================================================
