------------------------------ MODULE RpcProofs ------------------------------
(***************************************************************************)
(* What Rpc's run checks on a small instance - an answer goes to the       *)
(* operation that asked for it, an index denotes what it was given for, a  *)
(* hook runs once - proved for every set of operations, every session      *)
(* range and every expansion, in each pair of languages.                   *)
(***************************************************************************)
EXTENDS Rpc, SequenceTheorems, FiniteSetTheorems, WellFoundedInduction, TLAPS

-----------------------------------------------------------------------------
(* Types. *)

Index == Nat \cup {Nil}
AnySid == Sid \cup {Signal}
Kind == Op \cup {"none", "signal"}
Pending == {"ready", "called", "answer", "again"}

Request == [call : Call, op : Op, sid : AnySid, index : Index]
Packet == [call : Call, sid : Sid, rejected : BOOLEAN, value : Index]
Outcome == [rejected : BOOLEAN, value : Index]
Entry == [sid : Sid, call : Call, callback : BOOLEAN, done : BOOLEAN]
SlotRec == [object : Call \cup {NoCall}, armed : BOOLEAN, nextFree : Index]
Pools == UNION {[0 .. n - 1 -> SlotRec] : n \in Nat}
Context == [refPool : Pools, freeRefEntry : Index, running : BOOLEAN,
            shut : BOOLEAN, freed : [Call -> Nat]]

NetTypes == toServer \in Seq(Request) /\ toClient \in Seq(Packet) /\ lost \in BOOLEAN

ServerTypes ==
  /\ srv \in Context /\ serve \in {"receive", "ended"} /\ ready \in Seq(Call)
  /\ task \in [Call -> Pending \cup {"none", "ended"}]
  /\ req \in [Call -> Request \cup {NoRequest}]
  /\ \A c \in Call : task[c] # "none" => req[c] \in Request
  /\ result \in [Call -> Outcome] /\ rounds \in [Call -> Nat]

ClientTypes ==
  /\ waiting \in Seq(Entry) /\ usedSid \subseteq Sid /\ nextSid \in Sid
  /\ crunning \in BOOLEAN /\ loop \in {"receive", "ended"}
  /\ pc \in [Call -> {"idle", "waiting", "polling", "raised", "returned", "cancelled"}]
  /\ kind \in [Call -> Kind] /\ mySid \in [Call -> AnySid]
  /\ answer \in [Call -> Packet \cup {None, Raised}]
  /\ handle \in [Call -> Index] /\ pollOn \in [Call -> Call \cup {NoCall}]
  /\ told \in [Call -> Nat] /\ signals \in Seq(Request)

TypeOK == pair \in Pairs /\ NetTypes /\ ServerTypes /\ ClientTypes

-----------------------------------------------------------------------------
(* The invariants. *)

Elems(q) == {q[k] : k \in 1 .. Len(q)}

(* No two of a sequence are of one operation. *)
Once(q) == \A j, k \in 1 .. Len(q) : q[j].call = q[k].call => j = k

(* A request is in one place: with the task that is to send it, on its     *)
(* way, or with its task on the server.                                    *)
OnePlace ==
  /\ Once(toServer) /\ Once(signals)
  /\ \A m \in Elems(toServer), n \in Elems(signals) : m.call # n.call
  /\ \A m \in Elems(toServer) \cup Elems(signals) : task[m.call] = "none" /\ pc[m.call] # "idle"
  /\ \A c \in Call : pc[c] = "idle" => task[c] = "none"
  /\ \A m \in Elems(toClient) : task[m.call] # "none"
  /\ \A e \in Elems(waiting) : pc[e.call] # "idle"
  /\ \A j, k \in 1 .. Len(ready) : ready[j] = ready[k] => j = k
  /\ \A c \in Elems(ready) : task[c] = "ready"

(* What is said of an operation agrees on whether it is a poll. *)
Kinds ==
  /\ \A m \in Elems(toServer) : m.op = "poll" <=> kind[m.call] = "poll"
  /\ \A m \in Elems(signals) : m.op = "call" /\ m.sid = Signal /\ kind[m.call] = "signal"
  /\ \A c \in Call : task[c] # "none" =>
       req[c].call = c /\ (req[c].op = "poll" <=> kind[c] = "poll")
  /\ \A c \in Call : task[c] = "again" => req[c].op = "poll"
  /\ \A e \in Elems(waiting) : e.callback <=> kind[e.call] = "poll"
  /\ \A c \in Call : /\ pc[c] = "waiting" => kind[c] # "poll"
                     /\ pc[c] = "polling" => kind[c] = "poll"

(* An index that is named somewhere is the index of a slot. *)
Slots == DOMAIN srv.refPool

Links(s) ==
  /\ s.freeRefEntry \in DOMAIN s.refPool \cup {Nil}
  /\ \A i \in DOMAIN s.refPool : s.refPool[i].nextFree \in DOMAIN s.refPool \cup {Nil}

Indexed ==
  /\ \A c \in Call : {handle[c], answer[c].value, result[c].value} \subseteq Slots \cup {Nil}
  /\ \A m \in Elems(toClient) : m.value \in Slots \cup {Nil}
  /\ \A m \in Elems(toServer) : m.op = "freeRef" => m.index \in Slots
  /\ \A c \in Call : task[c] = "ready" /\ req[c].op = "freeRef" => req[c].index \in Slots

(* The hooks: at most one slot will run an object's, none once it ran, and *)
(* none before the callable that creates the object returned.              *)
NoHook(s, c) ==
  s.freed[c] = 0 /\ \A i \in DOMAIN s.refPool : s.refPool[i].armed => s.refPool[i].object # c

Hooks(s) ==
  /\ \A i \in DOMAIN s.refPool : s.refPool[i].armed => s.refPool[i].object \in Call
  /\ \A i, j \in DOMAIN s.refPool :
       /\ s.refPool[i].armed /\ s.refPool[j].armed
       /\ s.refPool[i].object = s.refPool[j].object
       => i = j
  /\ \A c \in Call :
       \/ s.freed[c] = 0
       \/ /\ s.freed[c] = 1
          /\ \A i \in DOMAIN s.refPool : s.refPool[i].armed => s.refPool[i].object # c

Unborn(c) == task[c] \in {"none", "ready"} \/ (task[c] = "called" /\ req[c].op = "call")

HooksOK == Hooks(srv) /\ \A c \in Call : Unborn(c) => NoHook(srv, c)

BaseInv == TypeOK /\ OnePlace /\ Kinds /\ Links(srv) /\ Indexed /\ HooksOK

(* The last answer to a request comes after its others, and from a task    *)
(* that has ended.                                                         *)
Final(m) == m.rejected \/ kind[m.call] # "poll"

FinalLast ==
  /\ \A m \in Elems(toClient) : Final(m) => task[m.call] = "ended"
  /\ \A j, k \in 1 .. Len(toClient) :
       toClient[j].call = toClient[k].call /\ Final(toClient[j]) => k <= j
  /\ \A c \in Call : pc[c] \in {"idle", "waiting"} /\ answer[c].call = c =>
       task[c] = "ended" /\ \A m \in Elems(toClient) : m.call # c

(* While the client receives, whatever will be answered is in its table    *)
(* under the session id of its request, and a session id that may be taken *)
(* again is not, or stands there for what will not be answered.            *)
HasEntry(c, sid) == \E e \in Elems(waiting) : e.sid = sid /\ e.call = c

Active(c) == pc[c] \in {"waiting", "polling"}

TableOK ==
  /\ \A j, k \in 1 .. Len(waiting) : waiting[j].sid = waiting[k].sid => j = k
  /\ \A e, f \in Elems(waiting) : e.call = f.call => e = f
  /\ \A e \in Elems(waiting) : e.sid \notin usedSid => e.done \/ pc[e.call] = "raised"
  /\ \A c \in Call : Active(c) => mySid[c] \in usedSid
  /\ \A c, d \in Call : Active(c) /\ Active(d) /\ mySid[c] = mySid[d] => c = d
  /\ \A c \in Call : Active(c) => \A e \in Elems(waiting) : e.sid = mySid[c] <=> e.call = c

AnswersOK ==
  \A c \in Call :
    /\ answer[c] # None => answer[c].call = c
    /\ PyCalls /\ pc[c] = "waiting" /\ answer[c] # None =>
         \A e \in Elems(waiting) : e.sid # mySid[c]

InTable ==
  /\ \A m \in Elems(toServer) : m.sid # Signal => HasEntry(m.call, m.sid)
  /\ \A c \in Call : task[c] \in Pending /\ req[c].sid # Signal => HasEntry(c, req[c].sid)
  /\ \A m \in Elems(toClient) : HasEntry(m.call, m.sid)

Matched == loop = "receive" => TableOK /\ AnswersOK /\ InTable

(* An object that is held is held by its holder alone. *)
Holds(c, i) ==
  \/ task[c] = "answer" /\ result[c].value = i
  \/ \E m \in Elems(toClient) : m.call = c /\ m.value = i
  \/ answer[c].value = i
  \/ handle[c] = i

Settled ==
  \A c \in Call : handle[c] # Nil =>
    /\ pc[c] = "returned" /\ task[c] = "ended" /\ answer[c].value = Nil
    /\ \A m \in Elems(toClient) : m.call # c

(* d is to free the slot i. *)
Frees(d, i) ==
  \/ \E m \in Elems(toServer) : m.call = d /\ m.op = "freeRef" /\ m.index = i
  \/ task[d] = "ready" /\ req[d].op = "freeRef" /\ req[d].index = i

(* Each free slot is led to by one other at most, and leads to a free one; *)
(* nothing leads to the first.                                             *)
Vacant(s, i) == i \in DOMAIN s.refPool /\ s.refPool[i].object = NoCall

FreeChain(s) ==
  /\ s.freeRefEntry # Nil => Vacant(s, s.freeRefEntry)
  /\ \A i \in DOMAIN s.refPool : Vacant(s, i) /\ s.refPool[i].nextFree # Nil =>
       Vacant(s, s.refPool[i].nextFree) /\ s.refPool[i].nextFree # s.freeRefEntry
  /\ \A i, j \in DOMAIN s.refPool :
       /\ Vacant(s, i) /\ Vacant(s, j) /\ s.refPool[i].nextFree # Nil
       /\ s.refPool[i].nextFree = s.refPool[j].nextFree
       => i = j

Owned ==
  srv.running =>
    /\ FreeChain(srv)
    /\ \A c \in Call, i \in Slots : Holds(c, i) => srv.refPool[i].object = c
    /\ \A d \in Call, i \in Slots : Frees(d, i) =>
         srv.refPool[i].object # NoCall /\ \A c \in Call : ~Holds(c, i)
    /\ \A c, d \in Call, i \in Slots : Frees(c, i) /\ Frees(d, i) => c = d

(* The server is to poll, or polls, the slot i for d. *)
Polls(d, i) ==
  \/ \E m \in Elems(toServer) : m.call = d /\ m.op = "poll" /\ m.index = i
  \/ task[d] \in Pending /\ req[d].op = "poll" /\ req[d].index = i

Polled ==
  srv.running =>
    \A d \in Call, i \in Nat \cup {Nil} : Polls(d, i) =>
      /\ i \in Slots /\ pollOn[d] \in Call /\ srv.refPool[i].object = pollOn[d]
      /\ \A c \in Call : ~Frees(c, i)
      /\ Down \/ (pc[d] = "polling" /\ handle[pollOn[d]] = i)

MatchInv == BaseInv /\ FinalLast /\ AnswerIsOwn /\ Matched /\ Settled /\ Owned /\ Polled

-----------------------------------------------------------------------------
(* Sequences. *)

LEMMA InElems ==
  ASSUME NEW S, NEW q \in Seq(S)
  PROVE  Elems(q) \subseteq S /\ \A k \in 1 .. Len(q) : q[k] \in Elems(q) /\ q[k] \in S
BY ElementOfSeq DEF Elems

LEMMA ElemsAppend ==
  ASSUME NEW S, NEW q \in Seq(S), NEW x \in S
  PROVE  Append(q, x) \in Seq(S) /\ Elems(Append(q, x)) = Elems(q) \cup {x}
<1> DEFINE r == Append(q, x)
<1>1. PICK n \in Nat : n = Len(q)
  BY LenProperties
<1>2. /\ r \in Seq(S) /\ Len(r) = n + 1 /\ r[n + 1] = x
      /\ \A k \in 1 .. n : r[k] = q[k]
  BY <1>1, AppendProperties
<1> HIDE DEF r
<1>3. \A k \in 1 .. n + 1 : k \in 1 .. n \/ k = n + 1
  BY <1>1
<1>4. n + 1 \in 1 .. n + 1 /\ \A k \in 1 .. n : k \in 1 .. n + 1
  BY <1>1
<1>5. Elems(r) \subseteq Elems(q) \cup {x}
  BY <1>1, <1>2, <1>3 DEF Elems
<1>6. Elems(q) \cup {x} \subseteq Elems(r)
  BY <1>1, <1>2, <1>4 DEF Elems
<1>7. QED
  BY <1>2, <1>5, <1>6 DEF r

LEMMA TailFacts ==
  ASSUME NEW S, NEW q \in Seq(S), q # <<>>
  PROVE  \E n \in Nat : /\ Len(q) = n + 1 /\ Tail(q) \in Seq(S) /\ Len(Tail(q)) = n
                        /\ Head(q) = q[1] /\ Head(q) \in S
                        /\ \A k \in 1 .. n : Tail(q)[k] = q[k + 1] /\ k + 1 \in 1 .. Len(q)
                        /\ \A k \in 1 .. Len(q) : k = 1 \/ \E j \in 1 .. n : k = j + 1
<1>1. PICK l \in Nat : l = Len(q) /\ l # 0
  BY LenProperties, EmptySeq
<1>2. PICK n \in Nat : l = n + 1
  BY <1>1
<1>3. Tail(q) \in Seq(S) /\ Len(Tail(q)) = n /\ Head(q) = q[1] /\ Head(q) \in S
  <2>1. Tail(q) \in Seq(S) /\ Len(Tail(q)) = Len(q) - 1 /\ Head(q) \in S
    BY HeadTailProperties
  <2>2. Head(q) = q[1]
    OBVIOUS
  <2>3. QED
    BY <1>1, <1>2, <2>1, <2>2
<1>4. \A k \in 1 .. n : Tail(q)[k] = q[k + 1]
  BY <1>1, <1>2, <1>3, HeadTailProperties
<1>5. /\ \A k \in 1 .. n : k + 1 \in 1 .. n + 1
      /\ \A k \in 1 .. n + 1 : k = 1 \/ (k - 1 \in 1 .. n /\ k = (k - 1) + 1)
  BY <1>2
<1>6. QED
  BY <1>1, <1>2, <1>3, <1>4, <1>5

LEMMA ElemsTail ==
  ASSUME NEW S, NEW q \in Seq(S), q # <<>>
  PROVE  /\ Head(q) \in S /\ Tail(q) \in Seq(S)
         /\ Elems(q) = Elems(Tail(q)) \cup {Head(q)}
<1>1. PICK n \in Nat : /\ Len(q) = n + 1 /\ Tail(q) \in Seq(S) /\ Len(Tail(q)) = n
                       /\ Head(q) = q[1] /\ Head(q) \in S
                       /\ \A k \in 1 .. n : Tail(q)[k] = q[k + 1] /\ k + 1 \in 1 .. Len(q)
                       /\ \A k \in 1 .. Len(q) : k = 1 \/ \E j \in 1 .. n : k = j + 1
  BY TailFacts
<1> DEFINE t == Tail(q)
<1> HIDE DEF t
<1>2. Elems(t) \subseteq Elems(q)
  BY <1>1 DEF Elems, t
<1>3. 1 \in 1 .. Len(q)
  BY <1>1
<1>4. Head(q) \in Elems(q)
  BY <1>1, <1>3 DEF Elems
<1>5. ASSUME NEW k \in 1 .. Len(q) PROVE q[k] \in Elems(t) \cup {Head(q)}
  BY <1>1, <1>5 DEF Elems, t
<1>6. QED
  BY <1>1, <1>2, <1>4, <1>5 DEF Elems, t

(* Of operations that are there once, an other one can join, and the first *)
(* can leave.                                                              *)
LEMMA OnceAppend ==
  ASSUME NEW S, NEW q \in Seq(S), NEW x \in S, Once(q), \A m \in Elems(q) : m.call # x.call
  PROVE  Once(Append(q, x))
<1> DEFINE r == Append(q, x)
<1>1. PICK n \in Nat : n = Len(q)
  BY LenProperties
<1>2. Len(r) = n + 1 /\ r[n + 1] = x /\ \A k \in 1 .. n : r[k] = q[k] /\ q[k].call # x.call
  BY <1>1, AppendProperties, InElems
<1> HIDE DEF r
<1>3. \A k \in 1 .. n + 1 : k \in 1 .. n \/ k = n + 1
  BY <1>1
<1>4. ASSUME NEW j \in 1 .. n + 1, NEW k \in 1 .. n + 1, r[j].call = r[k].call
      PROVE  j = k
  BY <1>1, <1>2, <1>3, <1>4 DEF Once
<1>5. QED
  BY <1>2, <1>4 DEF Once, r

LEMMA OnceTail ==
  ASSUME NEW S, NEW q \in Seq(S), q # <<>>, Once(q)
  PROVE  Once(Tail(q)) /\ \A m \in Elems(Tail(q)) : m.call # Head(q).call
<1>1. PICK n \in Nat : /\ Len(q) = n + 1 /\ Tail(q) \in Seq(S) /\ Len(Tail(q)) = n
                       /\ Head(q) = q[1] /\ Head(q) \in S
                       /\ \A k \in 1 .. n : Tail(q)[k] = q[k + 1] /\ k + 1 \in 1 .. Len(q)
                       /\ \A k \in 1 .. Len(q) : k = 1 \/ \E j \in 1 .. n : k = j + 1
  BY TailFacts
<1> DEFINE t == Tail(q)
<1> HIDE DEF t
<1>2. ASSUME NEW j \in 1 .. n, NEW k \in 1 .. n, t[j].call = t[k].call PROVE j = k
  <2>1. q[j + 1].call = q[k + 1].call /\ j + 1 \in 1 .. Len(q) /\ k + 1 \in 1 .. Len(q)
    BY <1>1, <1>2 DEF t
  <2>2. j + 1 = k + 1
    BY <2>1 DEF Once
  <2>3. QED
    BY <2>2
<1>3. ASSUME NEW k \in 1 .. n PROVE t[k].call # Head(q).call
  <2>1. t[k] = q[k + 1] /\ Head(q) = q[1] /\ k + 1 \in 1 .. Len(q) /\ 1 \in 1 .. Len(q) /\ k + 1 # 1
    BY <1>1 DEF t
  <2>2. QED
    BY <2>1 DEF Once
<1>4. QED
  BY <1>1, <1>2, <1>3 DEF Once, Elems, t

LEMMA NoRepeatSteps ==
  ASSUME NEW S, NEW q \in Seq(S), \A j, k \in 1 .. Len(q) : q[j] = q[k] => j = k
  PROVE  /\ \A x \in S : x \notin Elems(q) =>
              \A j, k \in 1 .. Len(Append(q, x)) : Append(q, x)[j] = Append(q, x)[k] => j = k
         /\ q # <<>> => /\ Head(q) \notin Elems(Tail(q))
                        /\ \A j, k \in 1 .. Len(Tail(q)) : Tail(q)[j] = Tail(q)[k] => j = k
<1>1. ASSUME NEW x \in S, x \notin Elems(q)
      PROVE  \A j, k \in 1 .. Len(Append(q, x)) : Append(q, x)[j] = Append(q, x)[k] => j = k
  <2> DEFINE r == Append(q, x)
  <2>1. PICK n \in Nat : n = Len(q)
    BY LenProperties
  <2>2. Len(r) = n + 1 /\ r[n + 1] = x /\ \A k \in 1 .. n : r[k] = q[k] /\ q[k] # x
    BY <1>1, <2>1, AppendProperties, InElems
  <2> HIDE DEF r
  <2>3. \A k \in 1 .. n + 1 : k \in 1 .. n \/ k = n + 1
    BY <2>1
  <2>4. ASSUME NEW j \in 1 .. n + 1, NEW k \in 1 .. n + 1, r[j] = r[k]
        PROVE  j = k
    BY <2>1, <2>2, <2>3, <2>4
  <2>5. QED
    BY <2>2, <2>4 DEF r
<1>2. ASSUME q # <<>>
      PROVE  /\ Head(q) \notin Elems(Tail(q))
             /\ \A j, k \in 1 .. Len(Tail(q)) : Tail(q)[j] = Tail(q)[k] => j = k
  <2>1. PICK n \in Nat : /\ Len(q) = n + 1 /\ Tail(q) \in Seq(S) /\ Len(Tail(q)) = n
                         /\ Head(q) = q[1] /\ Head(q) \in S
                         /\ \A k \in 1 .. n : Tail(q)[k] = q[k + 1] /\ k + 1 \in 1 .. Len(q)
                         /\ \A k \in 1 .. Len(q) : k = 1 \/ \E j \in 1 .. n : k = j + 1
    BY <1>2, TailFacts
  <2> DEFINE t == Tail(q)
  <2> HIDE DEF t
  <2>2. ASSUME NEW j \in 1 .. n, NEW k \in 1 .. n, t[j] = t[k] PROVE j = k
    <3>1. q[j + 1] = q[k + 1] /\ j + 1 \in 1 .. Len(q) /\ k + 1 \in 1 .. Len(q)
      BY <2>1, <2>2 DEF t
    <3>2. j + 1 = k + 1
      BY <3>1
    <3>3. QED
      BY <3>2
  <2>3. ASSUME NEW k \in 1 .. n PROVE t[k] # Head(q)
    <3>1. t[k] = q[k + 1] /\ Head(q) = q[1] /\ k + 1 \in 1 .. Len(q) /\ 1 \in 1 .. Len(q) /\ k + 1 # 1
      BY <2>1 DEF t
    <3>2. QED
      BY <3>1
  <2>4. QED
    BY <2>1, <2>2, <2>3 DEF Elems, t
<1>3. QED
  BY <1>1, <1>2

(* The packets of F are the last of their operations. *)
Ordered(q, F) == \A j, k \in 1 .. Len(q) : q[j].call = q[k].call /\ q[j] \in F => k <= j

LEMMA OrderedAppend ==
  ASSUME NEW S, NEW q \in Seq(S), NEW x \in S, NEW F, Ordered(q, F),
         \A m \in Elems(q) : m \in F => m.call # x.call
  PROVE  Ordered(Append(q, x), F)
<1> DEFINE r == Append(q, x)
<1>1. PICK n \in Nat : n = Len(q)
  BY LenProperties
<1>2. /\ Len(r) = n + 1 /\ r[n + 1] = x
      /\ \A k \in 1 .. n : r[k] = q[k] /\ (q[k] \in F => q[k].call # x.call)
  BY <1>1, AppendProperties, InElems
<1> HIDE DEF r
<1>3. \A k \in 1 .. n + 1 : k \in 1 .. n \/ k = n + 1
  BY <1>1
<1>4. ASSUME NEW j \in 1 .. n + 1, NEW k \in 1 .. n + 1, r[j].call = r[k].call, r[j] \in F
      PROVE  k <= j
  <2>1. CASE j \in 1 .. n /\ k \in 1 .. n
    BY <1>1, <1>2, <1>4, <2>1 DEF Ordered
  <2>2. CASE j = n + 1
    BY <2>2
  <2>3. CASE j \in 1 .. n /\ k = n + 1
    BY <1>2, <1>4, <2>3
  <2>4. QED
    BY <1>3, <2>1, <2>2, <2>3
<1>5. QED
  BY <1>2, <1>4 DEF Ordered, r

LEMMA OrderedTail ==
  ASSUME NEW S, NEW q \in Seq(S), q # <<>>, NEW F, Ordered(q, F)
  PROVE  /\ Ordered(Tail(q), F)
         /\ Head(q) \in F => \A m \in Elems(Tail(q)) : m.call # Head(q).call
<1>1. PICK n \in Nat : /\ Len(q) = n + 1 /\ Tail(q) \in Seq(S) /\ Len(Tail(q)) = n
                       /\ Head(q) = q[1] /\ Head(q) \in S
                       /\ \A k \in 1 .. n : Tail(q)[k] = q[k + 1] /\ k + 1 \in 1 .. Len(q)
                       /\ \A k \in 1 .. Len(q) : k = 1 \/ \E j \in 1 .. n : k = j + 1
  BY TailFacts
<1> DEFINE t == Tail(q)
<1> HIDE DEF t
<1>2. ASSUME NEW j \in 1 .. n, NEW k \in 1 .. n, t[j].call = t[k].call, t[j] \in F PROVE k <= j
  <2>1. /\ q[j + 1].call = q[k + 1].call /\ q[j + 1] \in F
        /\ j + 1 \in 1 .. Len(q) /\ k + 1 \in 1 .. Len(q)
    BY <1>1, <1>2 DEF t
  <2>2. k + 1 <= j + 1
    BY <2>1 DEF Ordered
  <2>3. QED
    BY <2>2
<1>3. ASSUME NEW k \in 1 .. n, Head(q) \in F PROVE t[k].call # Head(q).call
  <2>1. t[k] = q[k + 1] /\ Head(q) = q[1] /\ k + 1 \in 1 .. Len(q) /\ 1 \in 1 .. Len(q) /\ ~(k + 1 <= 1)
    BY <1>1 DEF t
  <2>2. QED
    BY <1>3, <2>1 DEF Ordered
<1>4. QED
  BY <1>1, <1>2, <1>3 DEF Ordered, Elems, t

LEMMA OrderedPrefix ==
  ASSUME NEW S, NEW q \in Seq(S), NEW n \in 0 .. Len(q), NEW F, Ordered(q, F)
  PROVE  /\ SubSeq(q, 1, n) \in Seq(S) /\ Elems(SubSeq(q, 1, n)) \subseteq Elems(q)
         /\ Ordered(SubSeq(q, 1, n), F)
<1> DEFINE r == SubSeq(q, 1, n)
<1>1. PICK l \in Nat : l = Len(q)
  BY LenProperties
<1>2. 1 \in 1 .. l + 1 /\ n \in 0 .. l
  BY <1>1
<1>3. r \in Seq(S) /\ Len(r) = n /\ \A k \in 1 .. n : r[k] = q[k] /\ k \in 1 .. l
  BY <1>1, <1>2, SubSeqProperties
<1> HIDE DEF r
<1>4. Elems(r) \subseteq Elems(q)
  BY <1>1, <1>3 DEF Elems
<1>5. Ordered(r, F)
  BY <1>1, <1>3 DEF Ordered
<1>6. QED
  BY <1>3, <1>4, <1>5 DEF r

-----------------------------------------------------------------------------
(* Session ids. *)

LEMMA Smallest ==
  ASSUME NEW T, T \subseteq Nat, T # {}
  PROVE  \E x \in T : \A y \in T : x <= y
<1> DEFINE R == {p \in Nat \X Nat : p[1] < p[2]}
<1>1. IsWellFoundedOn(R, Nat)
  BY NatLessThanWellFounded DEF OpToRel
<1>2. PICK x \in T : \A y \in T : ~(<<y, x>> \in R)
  BY <1>1, WFMin, Zenon
<1>3. ASSUME NEW y \in T PROVE x <= y
  <2>1. x \in Nat /\ y \in Nat /\ ~(<<y, x>> \in R)
    BY <1>2
  <2>2. ~(y < x)
    BY <2>1
  <2>3. QED
    BY <2>1, <2>2
<1>4. QED
  BY <1>3

(* allocSid gives an id that is not in use, or none. *)
LEMMA FreeSid ==
  ASSUME ClientTypes
  PROVE  /\ Free = 0 \/ (Free \in Sid /\ Free \notin usedSid)
         /\ Following(Free) \in Sid
<1>1. SidEnd \in Nat /\ SidEnd > 1 /\ nextSid \in 1 .. SidEnd
  BY RpcAssumption DEF ClientTypes, Sid
<1>2. ASSUME NEW ids, ids \subseteq 1 .. SidEnd, ids # {}
      PROVE  First(ids) \in ids
  <2>1. ids \subseteq Nat
    BY <1>1, <1>2
  <2>2. \E x \in ids : \A y \in ids : x <= y
    BY <1>2, <2>1, Smallest
  <2>3. QED
    BY <2>2 DEF First
<1> DEFINE upward == Unused({nextSid} \cup nextSid .. SidEnd - 1)
           again == Unused(1 .. SidEnd - 1)
<1>3. /\ upward \subseteq 1 .. SidEnd /\ again \subseteq 1 .. SidEnd
      /\ \A sid \in upward \cup again : sid \notin usedSid
  BY <1>1 DEF Unused
<1>4. Free = IF upward # {} THEN First(upward) ELSE IF again # {} THEN First(again) ELSE 0
  BY DEF Free
<1> HIDE DEF upward, again
<1>5. Free = 0 \/ (Free \in Sid /\ Free \notin usedSid)
  <2>1. CASE upward # {}
    BY <1>2, <1>3, <1>4, <2>1 DEF Sid
  <2>2. CASE upward = {} /\ again # {}
    BY <1>2, <1>3, <1>4, <2>2 DEF Sid
  <2>3. CASE upward = {} /\ again = {}
    BY <1>4, <2>3
  <2>4. QED
    BY <2>1, <2>2, <2>3
<1>6. ASSUME NEW sid \in 0 .. SidEnd PROVE Following(sid) \in 1 .. SidEnd
  BY <1>1 DEF Following
<1>7. QED
  BY <1>1, <1>5, <1>6 DEF Sid

-----------------------------------------------------------------------------
(* The context.  What an operation on the pool may do to it: o is put into *)
(* the slot i, which was empty, or, when o is NoCall, the object of i is   *)
(* taken out; only c may get a hook.                                       *)
Leads(s, t, c) ==
  /\ t \in Context /\ Links(t) /\ Hooks(t)
  /\ DOMAIN s.refPool \subseteq DOMAIN t.refPool
  /\ \A d \in Call : d # c /\ NoHook(s, d) => NoHook(t, d)
  /\ t.running => s.running
  /\ s.shut => t.shut

Effect(s, t, i, o) ==
  /\ i \in DOMAIN t.refPool \cup {Nil}
  /\ t.running /\ FreeChain(s) /\ (i # Nil /\ o = NoCall => i \in DOMAIN s.refPool /\ ~Vacant(s, i)) =>
       /\ FreeChain(t)
       /\ i # Nil => t.refPool[i].object = o
       /\ i \in DOMAIN s.refPool /\ o # NoCall => Vacant(s, i)
       /\ \A j \in DOMAIN s.refPool : j # i => t.refPool[j].object = s.refPool[j].object

LEMMA PoolTypes ==
  ASSUME NEW s \in Context
  PROVE  /\ \E n \in Nat : /\ DOMAIN s.refPool = 0 .. n - 1 /\ Cardinality(DOMAIN s.refPool) = n
                           /\ s.refPool \in [0 .. n - 1 -> SlotRec]
         /\ s.freeRefEntry \in Index /\ s.running \in BOOLEAN /\ s.shut \in BOOLEAN
         /\ s.freed \in [Call -> Nat]
<1>1. s.refPool \in Pools
  BY DEF Context
<1>2. PICK n \in Nat : s.refPool \in [0 .. n - 1 -> SlotRec]
  BY <1>1 DEF Pools
<1>3. Cardinality(0 .. n - 1) = n
  <2>1. 0 \in Int /\ n - 1 \in Int
    OBVIOUS
  <2>2. Cardinality(0 .. n - 1) = IF 0 > n - 1 THEN 0 ELSE (n - 1) - 0 + 1
    BY <2>1, FS_Interval
  <2>3. QED
    BY <2>2
<1>4. s.freeRefEntry \in Index /\ s.running \in BOOLEAN /\ s.shut \in BOOLEAN /\ s.freed \in [Call -> Nat]
  BY DEF Context
<1>5. QED
  BY <1>2, <1>3, <1>4

LEMMA ContextOf ==
  ASSUME NEW s, NEW n \in Nat, NEW p \in [0 .. n - 1 -> SlotRec], NEW h \in Index, NEW r \in BOOLEAN,
         NEW u \in BOOLEAN, NEW f \in [Call -> Nat],
         s = [refPool |-> p, freeRefEntry |-> h, running |-> r, shut |-> u, freed |-> f]
  PROVE  s \in Context
<1>1. p \in Pools
  BY DEF Pools
<1>2. QED
  BY <1>1 DEF Context

LEMMA StayLeads ==
  ASSUME NEW s \in Context, Links(s), Hooks(s), NEW c
  PROVE  Leads(s, s, c) /\ Effect(s, s, Nil, NoCall)
<1>1. Leads(s, s, c)
  BY DEF Leads
<1>2. Nil \notin DOMAIN s.refPool
  BY PoolTypes DEF Nil
<1>3. Effect(s, s, Nil, NoCall)
  BY <1>2 DEF Effect
<1>4. QED
  BY <1>1, <1>3

(* Two operations after each other, the first of which only adds slots. *)
LEMMA LeadsOn ==
  ASSUME NEW s \in Context, NEW r, NEW t, NEW c, NEW i, NEW o,
         Leads(s, r, NoCall), Effect(s, r, Nil, NoCall), Leads(r, t, c), Effect(r, t, i, o),
         o # NoCall, NoCall \notin Call
  PROVE  Leads(s, t, c) /\ Effect(s, t, i, o)
<1>1. Leads(s, t, c)
  BY DEF Leads
<1>2. i \in DOMAIN t.refPool \cup {Nil}
  BY DEF Effect
<1>3. ASSUME t.running, FreeChain(s)
      PROVE  /\ FreeChain(t)
             /\ i # Nil => t.refPool[i].object = o
             /\ i \in DOMAIN s.refPool => Vacant(s, i)
             /\ \A j \in DOMAIN s.refPool : j # i => t.refPool[j].object = s.refPool[j].object
  <2>1. r.running /\ DOMAIN s.refPool \subseteq DOMAIN r.refPool
    BY <1>3 DEF Leads
  <2>2. FreeChain(r) /\ \A j \in DOMAIN s.refPool : r.refPool[j].object = s.refPool[j].object
    <3>1. Nil \notin DOMAIN s.refPool
      BY PoolTypes DEF Nil
    <3>2. QED
      BY <1>3, <2>1, <3>1 DEF Effect
  <2>3. /\ FreeChain(t)
        /\ i # Nil => t.refPool[i].object = o
        /\ i \in DOMAIN r.refPool => Vacant(r, i)
        /\ \A j \in DOMAIN r.refPool : j # i => t.refPool[j].object = r.refPool[j].object
    BY <1>3, <2>2 DEF Effect
  <2>4. QED
    BY <2>1, <2>2, <2>3 DEF Vacant
<1>4. QED
  BY <1>1, <1>2, <1>3 DEF Effect

(* The hooks below slot k run. *)
LEMMA ShutFacts ==
  ASSUME NEW s \in Context, NEW k, NEW shut \in BOOLEAN
  PROVE  LET t == ShutAt(s, k, shut) IN
         /\ t \in Context /\ DOMAIN t.refPool = DOMAIN s.refPool
         /\ ~t.running /\ (s.shut => t.shut) /\ t.freeRefEntry = s.freeRefEntry
         /\ \A i \in DOMAIN s.refPool :
              /\ t.refPool[i].nextFree = s.refPool[i].nextFree
              /\ t.refPool[i].armed => ~(i < k) /\ t.refPool[i] = s.refPool[i]
         /\ \A d \in Call : t.freed[d] =
              IF \E i \in DOMAIN s.refPool : i < k /\ s.refPool[i].armed /\ s.refPool[i].object = d
              THEN s.freed[d] + 1 ELSE s.freed[d]
<1> DEFINE ran == {s.refPool[i].object : i \in {j \in Armed(s) : j < k}}
           pool == [i \in DOMAIN s.refPool |->
                     IF i < k THEN [s.refPool[i] EXCEPT !.object = NoCall, !.armed = FALSE]
                     ELSE s.refPool[i]]
           freed == [c \in Call |-> IF c \in ran THEN s.freed[c] + 1 ELSE s.freed[c]]
           closed == s.shut \/ shut
<1>1. PICK n \in Nat : DOMAIN s.refPool = 0 .. n - 1 /\ s.refPool \in [0 .. n - 1 -> SlotRec]
  BY PoolTypes
<1>2. s.freeRefEntry \in Index /\ s.freed \in [Call -> Nat] /\ closed \in BOOLEAN
  BY PoolTypes
<1>3. ShutAt(s, k, shut) = [s EXCEPT !.running = FALSE, !.shut = closed, !.refPool = pool, !.freed = freed]
  BY DEF ShutAt
<1>4. ASSUME NEW i \in 0 .. n - 1
      PROVE  /\ pool[i] \in SlotRec /\ pool[i].nextFree = s.refPool[i].nextFree
             /\ pool[i].armed => ~(i < k) /\ pool[i] = s.refPool[i]
  <2>1. s.refPool[i] \in SlotRec
    BY <1>1
  <2>2. pool[i] = IF i < k THEN [s.refPool[i] EXCEPT !.object = NoCall, !.armed = FALSE]
                  ELSE s.refPool[i]
    BY <1>1
  <2> HIDE DEF pool
  <2>3. QED
    BY <2>1, <2>2 DEF SlotRec
<1>5. pool \in [0 .. n - 1 -> SlotRec] /\ DOMAIN pool = 0 .. n - 1
  BY <1>1, <1>4
<1>6. freed \in [Call -> Nat]
  BY <1>2
<1>7. ShutAt(s, k, shut) = [refPool |-> pool, freeRefEntry |-> s.freeRefEntry, running |-> FALSE,
                            shut |-> closed, freed |-> freed]
  <2> HIDE DEF pool, freed, closed
  <2>1. QED
    BY <1>3 DEF Context
<1>8. \A d \in Call : d \in ran
        <=> \E i \in DOMAIN s.refPool : i < k /\ s.refPool[i].armed /\ s.refPool[i].object = d
  BY DEF Armed
<1>9. \A d \in Call : freed[d] = IF d \in ran THEN s.freed[d] + 1 ELSE s.freed[d]
  OBVIOUS
<1>10. s.shut => closed
  OBVIOUS
<1> HIDE DEF pool, freed, ran, closed
<1> DEFINE t == ShutAt(s, k, shut)
<1>11. t \in Context
  BY <1>2, <1>5, <1>6, <1>7, ContextOf
<1>12. /\ DOMAIN t.refPool = 0 .. n - 1 /\ ~t.running /\ t.shut = closed
       /\ t.refPool = pool /\ t.freed = freed
       /\ t.freeRefEntry = s.freeRefEntry
  BY <1>5, <1>7
<1> HIDE DEF t
<1>13. /\ t \in Context /\ DOMAIN t.refPool = DOMAIN s.refPool
       /\ ~t.running /\ (s.shut => t.shut) /\ t.freeRefEntry = s.freeRefEntry
       /\ \A i \in DOMAIN s.refPool :
            /\ t.refPool[i].nextFree = s.refPool[i].nextFree
            /\ t.refPool[i].armed => ~(i < k) /\ t.refPool[i] = s.refPool[i]
       /\ \A d \in Call : t.freed[d] =
            IF \E i \in DOMAIN s.refPool : i < k /\ s.refPool[i].armed /\ s.refPool[i].object = d
            THEN s.freed[d] + 1 ELSE s.freed[d]
  BY <1>1, <1>4, <1>8, <1>9, <1>10, <1>11, <1>12
<1>14. QED
  BY <1>13 DEF t

LEMMA ShutLeads ==
  ASSUME NEW s \in Context, NEW t, NEW c, NEW i, NEW o, Leads(s, t, c), Effect(s, t, i, o),
         NEW k, NEW shut \in BOOLEAN
  PROVE  Leads(s, ShutAt(t, k, shut), c) /\ Effect(s, ShutAt(t, k, shut), i, o)
<1>1. t \in Context /\ Links(t) /\ Hooks(t)
  BY DEF Leads
<1> DEFINE u == ShutAt(t, k, shut)
<1>2. /\ u \in Context /\ DOMAIN u.refPool = DOMAIN t.refPool
      /\ ~u.running /\ (t.shut => u.shut) /\ u.freeRefEntry = t.freeRefEntry
      /\ \A j \in DOMAIN t.refPool :
           /\ u.refPool[j].nextFree = t.refPool[j].nextFree
           /\ u.refPool[j].armed => ~(j < k) /\ u.refPool[j] = t.refPool[j]
      /\ \A d \in Call : u.freed[d] =
           IF \E j \in DOMAIN t.refPool : j < k /\ t.refPool[j].armed /\ t.refPool[j].object = d
           THEN t.freed[d] + 1 ELSE t.freed[d]
  BY <1>1, ShutFacts
<1> HIDE DEF u
<1>3. Links(u)
  BY <1>1, <1>2 DEF Links
<1>4. ASSUME NEW d \in Call
      PROVE  \/ u.freed[d] = 0
             \/ /\ u.freed[d] = 1
                /\ \A j \in DOMAIN u.refPool : u.refPool[j].armed => u.refPool[j].object # d
  <2>1. CASE \E j \in DOMAIN t.refPool : j < k /\ t.refPool[j].armed /\ t.refPool[j].object = d
    <3>1. PICK j \in DOMAIN t.refPool : j < k /\ t.refPool[j].armed /\ t.refPool[j].object = d
      BY <2>1
    <3>2. t.freed[d] = 0 /\ u.freed[d] = t.freed[d] + 1
      BY <1>1, <1>2, <3>1 DEF Hooks
    <3>3. \A l \in DOMAIN t.refPool : t.refPool[l].armed /\ t.refPool[l].object = d => l = j
      BY <1>1, <3>1 DEF Hooks
    <3>4. \A l \in DOMAIN u.refPool : u.refPool[l].armed => u.refPool[l].object # d
      BY <1>2, <3>1, <3>3
    <3>5. QED
      BY <3>2, <3>4
  <2>2. CASE ~\E j \in DOMAIN t.refPool : j < k /\ t.refPool[j].armed /\ t.refPool[j].object = d
    <3>1. u.freed[d] = t.freed[d]
      BY <1>2, <2>2
    <3>2. QED
      BY <1>1, <1>2, <3>1 DEF Hooks
  <2>3. QED
    BY <2>1, <2>2
<1>5. Hooks(u)
  <2>1. \A j \in DOMAIN u.refPool : u.refPool[j].armed =>
          j \in DOMAIN t.refPool /\ t.refPool[j].armed /\ u.refPool[j].object = t.refPool[j].object
    BY <1>2
  <2>2. \A j \in DOMAIN u.refPool : u.refPool[j].armed => u.refPool[j].object \in Call
    BY <1>1, <2>1 DEF Hooks
  <2>3. \A j, l \in DOMAIN u.refPool :
          /\ u.refPool[j].armed /\ u.refPool[l].armed
          /\ u.refPool[j].object = u.refPool[l].object
          => j = l
    BY <1>1, <2>1 DEF Hooks
  <2>4. QED
    BY <1>4, <2>2, <2>3 DEF Hooks
<1>6. ASSUME NEW d \in Call, NoHook(t, d) PROVE NoHook(u, d)
  BY <1>2, <1>6 DEF NoHook
<1>7. Leads(s, u, c)
  BY <1>2, <1>3, <1>5, <1>6 DEF Leads
<1>8. Effect(s, u, i, o)
  BY <1>2 DEF Effect
<1>9. QED
  BY <1>7, <1>8 DEF u

Closings(s) == PyCloses(s) \cup TsCloses(s)

LEMMA CloseLeads ==
  ASSUME NEW s \in Context, NEW t, NEW c, NEW i, NEW o, Leads(s, t, c), Effect(s, t, i, o),
         NEW u \in Closings(t)
  PROVE  Leads(s, u, c) /\ Effect(s, u, i, o)
<1>1. CASE u = t
  BY <1>1
<1>2. CASE u # t
  <2>1. CASE u \in PyCloses(t)
    <3>1. PICK k : u = ShutAt(t, k, k = End(t))
      BY <1>2, <2>1 DEF PyCloses
    <3>2. QED
      BY <3>1, ShutLeads
  <2>2. CASE u \in TsCloses(t)
    <3>1. PICK k : u = ShutAt(t, k, TRUE)
      BY <1>2, <2>2 DEF TsCloses
    <3>2. QED
      BY <3>1, ShutLeads
  <2>3. QED
    BY <2>1, <2>2 DEF Closings
<1>3. QED
  BY <1>1, <1>2

(* The owner stops the server. *)
LEMMA StopLeads ==
  ASSUME NEW s \in Context, NEW t, Links(s), Hooks(s), t = [s EXCEPT !.running = FALSE, !.shut = TRUE]
  PROVE  Leads(s, t, NoCall) /\ Effect(s, t, Nil, NoCall)
<1>1. PICK n \in Nat : DOMAIN s.refPool = 0 .. n - 1 /\ s.refPool \in [0 .. n - 1 -> SlotRec]
  BY PoolTypes
<1>2. s.freeRefEntry \in Index /\ s.freed \in [Call -> Nat]
  BY PoolTypes
<1>3. t = [refPool |-> s.refPool, freeRefEntry |-> s.freeRefEntry, running |-> FALSE,
           shut |-> TRUE, freed |-> s.freed]
  BY DEF Context
<1>4. t \in Context
  BY <1>1, <1>2, <1>3, ContextOf
<1>5. /\ t.refPool = s.refPool /\ t.freeRefEntry = s.freeRefEntry /\ t.freed = s.freed
      /\ ~t.running /\ t.shut
  BY <1>3
<1>6. Links(t) /\ Hooks(t) /\ \A d \in Call : NoHook(s, d) => NoHook(t, d)
  BY <1>5 DEF Links, Hooks, NoHook
<1>7. QED
  BY <1>4, <1>5, <1>6 DEF Leads, Effect

(* The head of the free chain is given to c. *)
LEMMA TakeFacts ==
  ASSUME NEW s \in Context, NEW c \in Call, NEW armed \in BOOLEAN, NEW v, v = s.freeRefEntry,
         v \in DOMAIN s.refPool
  PROVE  LET t == Take(s, c, armed) IN
         /\ t \in Context /\ DOMAIN t.refPool = DOMAIN s.refPool
         /\ t.freeRefEntry = s.refPool[v].nextFree
         /\ t.running = s.running /\ t.shut = s.shut /\ t.freed = s.freed
         /\ t.refPool[v].object = c /\ t.refPool[v].armed = armed
         /\ t.refPool[v].nextFree = s.refPool[v].nextFree
         /\ \A j \in DOMAIN s.refPool : j # v => t.refPool[j] = s.refPool[j]
<1>1. PICK n \in Nat : DOMAIN s.refPool = 0 .. n - 1 /\ s.refPool \in [0 .. n - 1 -> SlotRec]
  BY PoolTypes
<1>2. s.freeRefEntry \in Index /\ s.freed \in [Call -> Nat] /\ s.running \in BOOLEAN /\ s.shut \in BOOLEAN
  BY PoolTypes
<1> DEFINE x == [object |-> c, armed |-> armed, nextFree |-> s.refPool[v].nextFree]
           pool == [s.refPool EXCEPT ![v] = x]
           h == s.refPool[v].nextFree
<1>3. s.refPool[v] \in SlotRec
  BY <1>1
<1>4. x \in SlotRec /\ h \in Index
  BY <1>3 DEF SlotRec
<1>5. pool \in [0 .. n - 1 -> SlotRec] /\ pool[v] = x /\ \A j \in 0 .. n - 1 : j # v => pool[j] = s.refPool[j]
  <2> HIDE DEF x
  <2>1. QED
    BY <1>1, <1>4
<1>6. Take(s, c, armed) = [s EXCEPT !.refPool = pool, !.freeRefEntry = h]
  <2>1. s = [refPool |-> s.refPool, freeRefEntry |-> s.freeRefEntry, running |-> s.running,
             shut |-> s.shut, freed |-> s.freed]
    BY DEF Context
  <2>2. QED
    BY <2>1 DEF Take
<1>7. Take(s, c, armed) = [refPool |-> pool, freeRefEntry |-> h, running |-> s.running,
                           shut |-> s.shut, freed |-> s.freed]
  <2> HIDE DEF pool, h
  <2>1. QED
    BY <1>6 DEF Context
<1>8. x.object = c /\ x.armed = armed /\ x.nextFree = h
  OBVIOUS
<1> HIDE DEF pool, h, x
<1> DEFINE t == Take(s, c, armed)
<1>9. t \in Context
  BY <1>2, <1>4, <1>5, <1>7, ContextOf
<1>10. /\ t.refPool = pool /\ t.freeRefEntry = h /\ t.running = s.running /\ t.shut = s.shut
       /\ t.freed = s.freed
  BY <1>7
<1> HIDE DEF t
<1>11. /\ t \in Context /\ DOMAIN t.refPool = DOMAIN s.refPool /\ t.freeRefEntry = h
       /\ t.running = s.running /\ t.shut = s.shut /\ t.freed = s.freed
       /\ t.refPool[v].object = c /\ t.refPool[v].armed = armed /\ t.refPool[v].nextFree = h
       /\ \A j \in DOMAIN s.refPool : j # v => t.refPool[j] = s.refPool[j]
  BY <1>1, <1>5, <1>8, <1>9, <1>10
<1>12. QED
  BY <1>11 DEF t, h

LEMMA TakeLeads ==
  ASSUME NEW s \in Context, Links(s), Hooks(s), s.freeRefEntry # Nil, NoCall \notin Call,
         NEW c \in Call, NEW armed \in BOOLEAN, armed => NoHook(s, c)
  PROVE  /\ Leads(s, Take(s, c, armed), IF armed THEN c ELSE NoCall)
         /\ Effect(s, Take(s, c, armed), s.freeRefEntry, c)
         /\ s.freeRefEntry \in DOMAIN s.refPool
<1> DEFINE t == Take(s, c, armed)
<1>1. PICK v \in DOMAIN s.refPool : v = s.freeRefEntry
  BY DEF Links
<1>2. /\ t \in Context /\ DOMAIN t.refPool = DOMAIN s.refPool
      /\ t.freeRefEntry = s.refPool[v].nextFree
      /\ t.running = s.running /\ t.shut = s.shut /\ t.freed = s.freed
      /\ t.refPool[v].object = c /\ t.refPool[v].armed = armed
      /\ t.refPool[v].nextFree = s.refPool[v].nextFree
      /\ \A j \in DOMAIN s.refPool : j # v => t.refPool[j] = s.refPool[j]
  BY <1>1, TakeFacts
<1> HIDE DEF t
<1>3. \A j \in DOMAIN s.refPool : t.refPool[j].nextFree = s.refPool[j].nextFree
  BY <1>2
<1>4. Links(t)
  BY <1>1, <1>2, <1>3 DEF Links
<1>5. Hooks(t)
  <2>1. \A i \in DOMAIN t.refPool : t.refPool[i].armed => t.refPool[i].object \in Call
    BY <1>2 DEF Hooks
  <2>2. ASSUME NEW i \in DOMAIN t.refPool, NEW j \in DOMAIN t.refPool,
               t.refPool[i].armed /\ t.refPool[j].armed, t.refPool[i].object = t.refPool[j].object
        PROVE  i = j
    <3>1. CASE i # v /\ j # v
      BY <1>2, <2>2, <3>1 DEF Hooks
    <3>2. CASE i = v /\ j # v
      BY <1>2, <2>2, <3>2 DEF NoHook
    <3>3. CASE i # v /\ j = v
      BY <1>2, <2>2, <3>3 DEF NoHook
    <3>4. QED
      BY <3>1, <3>2, <3>3
  <2>3. ASSUME NEW d \in Call
        PROVE  \/ t.freed[d] = 0
               \/ /\ t.freed[d] = 1
                  /\ \A i \in DOMAIN t.refPool : t.refPool[i].armed => t.refPool[i].object # d
    <3>1. CASE d = c /\ armed
      BY <1>2, <3>1 DEF NoHook
    <3>2. CASE ~(d = c /\ armed)
      BY <1>2, <3>2 DEF Hooks
    <3>3. QED
      BY <3>1, <3>2
  <2>4. QED
    BY <2>1, <2>2, <2>3 DEF Hooks
<1>6. ASSUME NEW d \in Call, d # (IF armed THEN c ELSE NoCall), NoHook(s, d)
      PROVE  NoHook(t, d)
  BY <1>2, <1>6 DEF NoHook
<1>7. Leads(s, t, IF armed THEN c ELSE NoCall)
  BY <1>2, <1>4, <1>5, <1>6 DEF Leads
<1>8. c # NoCall
  OBVIOUS
<1>9. ASSUME FreeChain(s) PROVE FreeChain(t) /\ Vacant(s, v)
  <2>0. v # Nil
    BY <1>1
  <2>1. Vacant(s, v) /\ (s.refPool[v].nextFree # Nil => Vacant(s, s.refPool[v].nextFree) /\ s.refPool[v].nextFree # v)
    BY <1>1, <1>9, <2>0 DEF FreeChain
  <2>2. \A j \in DOMAIN s.refPool : Vacant(t, j) <=> Vacant(s, j) /\ j # v
    BY <1>2, <1>8 DEF Vacant
  <2>3. t.freeRefEntry # Nil => Vacant(t, t.freeRefEntry)
    BY <1>2, <2>1, <2>2 DEF Vacant
  <2>4. ASSUME NEW i \in DOMAIN t.refPool, Vacant(t, i), t.refPool[i].nextFree # Nil
        PROVE  Vacant(t, t.refPool[i].nextFree) /\ t.refPool[i].nextFree # t.freeRefEntry
    <3>1. i \in DOMAIN s.refPool /\ Vacant(s, i) /\ i # v /\ t.refPool[i].nextFree = s.refPool[i].nextFree
      BY <1>2, <1>3, <2>2, <2>4
    <3>2. Vacant(s, s.refPool[i].nextFree) /\ s.refPool[i].nextFree # v
      BY <1>1, <1>9, <2>4, <3>1 DEF FreeChain
    <3>3. s.refPool[i].nextFree # s.refPool[v].nextFree
      BY <1>9, <2>1, <2>4, <3>1 DEF FreeChain
    <3>4. s.refPool[i].nextFree \in DOMAIN s.refPool
      BY <3>2 DEF Vacant
    <3>5. QED
      BY <1>2, <2>2, <3>1, <3>2, <3>3, <3>4
  <2>5. ASSUME NEW i \in DOMAIN t.refPool, NEW j \in DOMAIN t.refPool, Vacant(t, i), Vacant(t, j),
               t.refPool[i].nextFree # Nil, t.refPool[i].nextFree = t.refPool[j].nextFree
        PROVE  i = j
    <3>1. /\ i \in DOMAIN s.refPool /\ Vacant(s, i) /\ j \in DOMAIN s.refPool /\ Vacant(s, j)
          /\ s.refPool[i].nextFree # Nil /\ s.refPool[i].nextFree = s.refPool[j].nextFree
      BY <1>2, <1>3, <2>2, <2>5
    <3>2. QED
      BY <1>9, <3>1 DEF FreeChain
  <2>6. FreeChain(t)
    BY <2>3, <2>4, <2>5 DEF FreeChain
  <2>7. QED
    BY <2>1, <2>6
<1>10. Effect(s, t, v, c)
  <2>1. v \in DOMAIN t.refPool
    BY <1>2
  <2>2. QED
    BY <1>2, <1>8, <1>9, <2>1 DEF Effect
<1>11. QED
  BY <1>1, <1>7, <1>10 DEF t

LEMMA LinkTo ==
  ASSUME NEW a, NEW b, NEW c, NEW i, NEW e, e = [object |-> a, armed |-> b, nextFree |-> c]
  PROVE  [e EXCEPT !.nextFree = i] = [object |-> a, armed |-> b, nextFree |-> i]
OBVIOUS

LEMMA LinkedSlot ==
  ASSUME NEW i
  PROVE  Linked(i) = [object |-> NoCall, armed |-> FALSE, nextFree |-> i]
<1>1. PICK b : b = FALSE
  OBVIOUS
<1>2. PICK e : e = EmptySlot
  OBVIOUS
<1>3. e = [object |-> NoCall, armed |-> b, nextFree |-> Nil]
  BY <1>1, <1>2 DEF EmptySlot
<1>4. [e EXCEPT !.nextFree = i] = [object |-> NoCall, armed |-> b, nextFree |-> i]
  BY <1>3, LinkTo
<1>5. Linked(i) = [e EXCEPT !.nextFree = i]
  BY <1>2 DEF Linked
<1>6. QED
  BY <1>1, <1>4, <1>5

LEMMA ReleaseForm ==
  ASSUME NEW s \in Context, NEW v, NEW o, NEW l, o = s.refPool[v].object, l = Linked(s.freeRefEntry)
  PROVE  Release(s, v) =
           [refPool |-> [s.refPool EXCEPT ![v] = l], freeRefEntry |-> v, running |-> s.running,
            shut |-> s.shut,
            freed |-> IF s.refPool[v].armed THEN [s.freed EXCEPT ![o] = s.freed[o] + 1] ELSE s.freed]
<1> DEFINE pool == [s.refPool EXCEPT ![v] = l]
           freed == IF s.refPool[v].armed THEN [s.freed EXCEPT ![o] = s.freed[o] + 1] ELSE s.freed
           b == [s EXCEPT !.refPool[v] = l, !.freeRefEntry = v]
<1>1. Release(s, v) = [s EXCEPT !.refPool[v] = l, !.freeRefEntry = v, !.freed = freed]
  BY DEF Release
<1> HIDE DEF freed
<1>2. Release(s, v) = [b EXCEPT !.freed = freed]
  BY <1>1
<1>3. b = [refPool |-> pool, freeRefEntry |-> v, running |-> s.running, shut |-> s.shut, freed |-> s.freed]
  <2>1. s = [refPool |-> s.refPool, freeRefEntry |-> s.freeRefEntry, running |-> s.running,
             shut |-> s.shut, freed |-> s.freed]
    BY DEF Context
  <2>2. b = [s EXCEPT !.refPool = pool, !.freeRefEntry = v]
    BY <2>1
  <2> HIDE DEF b, pool
  <2>3. QED
    BY <2>2 DEF Context
<1> HIDE DEF b, pool
<1>4. Release(s, v) = [refPool |-> pool, freeRefEntry |-> v, running |-> s.running,
                       shut |-> s.shut, freed |-> freed]
  BY <1>2, <1>3
<1>5. QED
  BY <1>4, Zenon DEF pool, freed

(* The slot v is given back. *)
LEMMA ReleaseFacts ==
  ASSUME NEW s \in Context, Hooks(s), NEW v \in DOMAIN s.refPool
  PROVE  LET t == Release(s, v) IN
         /\ t \in Context /\ DOMAIN t.refPool = DOMAIN s.refPool
         /\ t.freeRefEntry = v /\ t.running = s.running /\ t.shut = s.shut
         /\ t.refPool[v].object = NoCall /\ ~t.refPool[v].armed
         /\ t.refPool[v].nextFree = s.freeRefEntry
         /\ \A j \in DOMAIN s.refPool : j # v => t.refPool[j] = s.refPool[j]
         /\ \A d \in Call : t.freed[d] =
              IF s.refPool[v].armed /\ s.refPool[v].object = d THEN s.freed[d] + 1 ELSE s.freed[d]
<1>1. PICK n \in Nat : DOMAIN s.refPool = 0 .. n - 1 /\ s.refPool \in [0 .. n - 1 -> SlotRec]
  BY PoolTypes
<1>2. s.freeRefEntry \in Index /\ s.freed \in [Call -> Nat] /\ s.running \in BOOLEAN /\ s.shut \in BOOLEAN
  BY PoolTypes
<1> DEFINE o == s.refPool[v].object
           x == Linked(s.freeRefEntry)
           pool == [s.refPool EXCEPT ![v] = x]
           freed == IF s.refPool[v].armed THEN [s.freed EXCEPT ![o] = s.freed[o] + 1] ELSE s.freed
<1>3. x = [object |-> NoCall, armed |-> FALSE, nextFree |-> s.freeRefEntry]
  BY LinkedSlot
<1>4. x \in SlotRec /\ x.object = NoCall /\ ~x.armed /\ x.nextFree = s.freeRefEntry
  <2> HIDE DEF x
  <2>1. QED
    BY <1>2, <1>3 DEF SlotRec
<1>5. pool \in [0 .. n - 1 -> SlotRec] /\ pool[v] = x /\ \A j \in 0 .. n - 1 : j # v => pool[j] = s.refPool[j]
  <2> HIDE DEF x
  <2>1. QED
    BY <1>1, <1>4
<1>6. /\ freed \in [Call -> Nat]
      /\ \A d \in Call : freed[d] =
           IF s.refPool[v].armed /\ s.refPool[v].object = d THEN s.freed[d] + 1 ELSE s.freed[d]
  <2>1. CASE s.refPool[v].armed
    <3>1. o \in Call
      BY <2>1 DEF Hooks
    <3> HIDE DEF o
    <3>2. freed = [s.freed EXCEPT ![o] = s.freed[o] + 1]
      BY <2>1
    <3>3. s.freed[o] + 1 \in Nat
      BY <1>2, <3>1
    <3> HIDE DEF freed
    <3>4. freed \in [Call -> Nat] /\ \A d \in Call : freed[d] = IF o = d THEN s.freed[d] + 1 ELSE s.freed[d]
      BY <1>2, <3>1, <3>2, <3>3
    <3>5. QED
      BY <2>1, <3>4 DEF o
  <2>2. CASE ~s.refPool[v].armed
    BY <1>2, <2>2
  <2>3. QED
    BY <2>1, <2>2
<1>7. v \in Index
  BY <1>1 DEF Index
<1>8. Release(s, v) = [refPool |-> pool, freeRefEntry |-> v, running |-> s.running,
                       shut |-> s.shut, freed |-> freed]
  BY ReleaseForm
<1> HIDE DEF pool, x, freed
<1> DEFINE t == Release(s, v)
<1>9. t \in Context
  BY <1>2, <1>5, <1>6, <1>7, <1>8, ContextOf
<1>10. /\ t.refPool = pool /\ t.freeRefEntry = v /\ t.running = s.running /\ t.shut = s.shut
       /\ t.freed = freed
  BY <1>8
<1> HIDE DEF t
<1>11. /\ t \in Context /\ DOMAIN t.refPool = DOMAIN s.refPool
       /\ t.freeRefEntry = v /\ t.running = s.running /\ t.shut = s.shut
       /\ t.refPool[v].object = NoCall /\ ~t.refPool[v].armed
       /\ t.refPool[v].nextFree = s.freeRefEntry
       /\ \A j \in DOMAIN s.refPool : j # v => t.refPool[j] = s.refPool[j]
       /\ \A d \in Call : t.freed[d] =
            IF s.refPool[v].armed /\ s.refPool[v].object = d THEN s.freed[d] + 1 ELSE s.freed[d]
  BY <1>1, <1>4, <1>5, <1>6, <1>9, <1>10
<1>12. QED
  BY <1>11 DEF t

LEMMA ReleaseLeads ==
  ASSUME NEW s \in Context, Links(s), Hooks(s), NEW v \in DOMAIN s.refPool, NoCall \notin Call
  PROVE  /\ Leads(s, Release(s, v), NoCall)
         /\ Effect(s, Release(s, v), v, NoCall)
<1> DEFINE t == Release(s, v)
<1>1. /\ t \in Context /\ DOMAIN t.refPool = DOMAIN s.refPool
      /\ t.freeRefEntry = v /\ t.running = s.running /\ t.shut = s.shut
      /\ t.refPool[v].object = NoCall /\ ~t.refPool[v].armed
      /\ t.refPool[v].nextFree = s.freeRefEntry
      /\ \A j \in DOMAIN s.refPool : j # v => t.refPool[j] = s.refPool[j]
      /\ \A d \in Call : t.freed[d] =
           IF s.refPool[v].armed /\ s.refPool[v].object = d THEN s.freed[d] + 1 ELSE s.freed[d]
  BY ReleaseFacts
<1> HIDE DEF t
<1>2. \A j \in DOMAIN t.refPool : t.refPool[j].nextFree =
        IF j = v THEN s.freeRefEntry ELSE s.refPool[j].nextFree
  BY <1>1
<1>3. Links(t)
  BY <1>1, <1>2 DEF Links
<1>4. \A j \in DOMAIN t.refPool : t.refPool[j].armed => j # v /\ s.refPool[j].armed /\ t.refPool[j] = s.refPool[j]
  BY <1>1
<1>5. Hooks(t)
  <2>1. \A i \in DOMAIN t.refPool : t.refPool[i].armed => t.refPool[i].object \in Call
    BY <1>1, <1>4 DEF Hooks
  <2>2. \A i, j \in DOMAIN t.refPool :
          t.refPool[i].armed /\ t.refPool[j].armed /\ t.refPool[i].object = t.refPool[j].object => i = j
    BY <1>1, <1>4 DEF Hooks
  <2>3. ASSUME NEW d \in Call
        PROVE  \/ t.freed[d] = 0
               \/ /\ t.freed[d] = 1
                  /\ \A i \in DOMAIN t.refPool : t.refPool[i].armed => t.refPool[i].object # d
    <3>1. CASE s.refPool[v].armed /\ s.refPool[v].object = d
      <4>1. s.freed[d] = 0
        BY <3>1 DEF Hooks
      <4>2. t.freed[d] = 1
        BY <1>1, <3>1, <4>1
      <4>3. \A i \in DOMAIN s.refPool : s.refPool[i].armed /\ s.refPool[i].object = d => i = v
        BY <3>1 DEF Hooks
      <4>4. QED
        BY <1>1, <1>4, <4>2, <4>3
    <3>2. CASE ~(s.refPool[v].armed /\ s.refPool[v].object = d)
      <4>1. t.freed[d] = s.freed[d]
        BY <1>1, <3>2
      <4>2. QED
        BY <1>1, <1>4, <4>1 DEF Hooks
    <3>3. QED
      BY <3>1, <3>2
  <2>4. QED
    BY <2>1, <2>2, <2>3 DEF Hooks
<1>6. ASSUME NEW d \in Call, NoHook(s, d) PROVE NoHook(t, d)
  BY <1>1, <1>4, <1>6 DEF NoHook
<1>7. Leads(s, t, NoCall)
  BY <1>1, <1>3, <1>5, <1>6 DEF Leads
<1>8. ASSUME FreeChain(s), ~Vacant(s, v) PROVE FreeChain(t)
  <2>1. \A j \in DOMAIN s.refPool : Vacant(t, j) <=> Vacant(s, j) \/ j = v
    BY <1>1 DEF Vacant
  <2>2. s.freeRefEntry # Nil => Vacant(s, s.freeRefEntry) /\ s.freeRefEntry \in DOMAIN s.refPool
    BY <1>8 DEF FreeChain, Vacant
  <2>3. Vacant(t, t.freeRefEntry)
    BY <1>1, <2>1
  <2>4. ASSUME NEW i \in DOMAIN t.refPool, Vacant(t, i), t.refPool[i].nextFree # Nil
        PROVE  Vacant(t, t.refPool[i].nextFree) /\ t.refPool[i].nextFree # t.freeRefEntry
    <3>1. CASE i = v
      BY <1>1, <1>8, <2>1, <2>2, <2>4, <3>1
    <3>2. CASE i # v
      <4>1. i \in DOMAIN s.refPool /\ Vacant(s, i) /\ t.refPool[i].nextFree = s.refPool[i].nextFree
        BY <1>1, <2>1, <2>4, <3>2
      <4>2. Vacant(s, s.refPool[i].nextFree)
        BY <1>8, <2>4, <4>1 DEF FreeChain
      <4>3. s.refPool[i].nextFree \in DOMAIN s.refPool
        BY <4>2 DEF Vacant
      <4>4. QED
        BY <1>1, <1>8, <2>1, <4>1, <4>2, <4>3
    <3>3. QED
      BY <3>1, <3>2
  <2>5. ASSUME NEW i \in DOMAIN t.refPool, NEW j \in DOMAIN t.refPool, Vacant(t, i), Vacant(t, j),
               t.refPool[i].nextFree # Nil, t.refPool[i].nextFree = t.refPool[j].nextFree
        PROVE  i = j
    <3>1. ASSUME NEW k \in DOMAIN t.refPool, k # v, Vacant(t, k), t.refPool[k].nextFree # Nil
          PROVE  /\ k \in DOMAIN s.refPool /\ Vacant(s, k) /\ t.refPool[k].nextFree = s.refPool[k].nextFree
                 /\ s.refPool[k].nextFree # s.freeRefEntry
      <4>1. k \in DOMAIN s.refPool /\ Vacant(s, k) /\ t.refPool[k].nextFree = s.refPool[k].nextFree
        BY <1>1, <2>1, <3>1
      <4>2. s.refPool[k].nextFree # s.freeRefEntry
        BY <1>8, <3>1, <4>1 DEF FreeChain
      <4>3. QED
        BY <4>1, <4>2
    <3>2. CASE i = v /\ j # v
      BY <1>1, <2>5, <3>1, <3>2
    <3>3. CASE i # v /\ j = v
      BY <1>1, <2>5, <3>1, <3>3
    <3>4. CASE i # v /\ j # v
      <4>1. /\ i \in DOMAIN s.refPool /\ Vacant(s, i) /\ j \in DOMAIN s.refPool /\ Vacant(s, j)
            /\ s.refPool[i].nextFree # Nil /\ s.refPool[i].nextFree = s.refPool[j].nextFree
        BY <2>5, <3>1, <3>4
      <4>2. QED
        BY <1>8, <4>1 DEF FreeChain
    <3>5. QED
      BY <3>2, <3>3, <3>4
  <2>6. QED
    BY <2>3, <2>4, <2>5 DEF FreeChain
<1>9. Effect(s, t, v, NoCall)
  <2>1. v # Nil
    BY PoolTypes DEF Nil
  <2>2. QED
    BY <1>1, <1>8, <2>1 DEF Effect
<1>10. QED
  BY <1>7, <1>9 DEF t

LEMMA OneMore ==
  ASSUME NEW m \in Nat
  PROVE  \E l \in Nat : l - 1 = m
<1>1. m + 1 \in Nat /\ (m + 1) - 1 = m
  OBVIOUS
<1>2. QED
  BY <1>1

(* Slots are added, of which each links to the next one or ends the chain. *)
LEMMA AddedLeads ==
  ASSUME NEW s \in Context, Links(s), Hooks(s), s.freeRefEntry = Nil, NoCall \notin Call,
         NEW n \in Nat, DOMAIN s.refPool = 0 .. n - 1, NEW m \in Nat, m >= n,
         NEW pool \in [0 .. m -> SlotRec],
         NEW r, r = [refPool |-> pool, freeRefEntry |-> n, running |-> s.running,
                     shut |-> s.shut, freed |-> s.freed],
         \A i \in 0 .. n - 1 : pool[i] = s.refPool[i],
         \A i \in n .. m : /\ pool[i].object = NoCall /\ ~pool[i].armed
                           /\ \/ pool[i].nextFree = Nil
                              \/ pool[i].nextFree = i + 1 /\ i + 1 \in n .. m
  PROVE  Leads(s, r, NoCall) /\ Effect(s, r, Nil, NoCall) /\ r.freeRefEntry # Nil
<1>1. n \in 0 .. m /\ n \in n .. m /\ \A i \in 0 .. m : i \in 0 .. n - 1 \/ i \in n .. m
  OBVIOUS
<1>2. /\ \A i \in 0 .. n - 1 : i \notin n .. m /\ i \in 0 .. m /\ i # Nil
      /\ \A i \in n .. m : i \in 0 .. m /\ i # Nil /\ i + 1 # n
  BY DEF Nil
<1>3. s.freed \in [Call -> Nat] /\ s.running \in BOOLEAN /\ s.shut \in BOOLEAN
  BY PoolTypes
<1>4. /\ r.freed = s.freed /\ r.running = s.running /\ r.shut = s.shut /\ r.refPool = pool
      /\ r.freeRefEntry = n /\ DOMAIN r.refPool = 0 .. m
  OBVIOUS
<1>5. r \in Context
  <2>1. PICK l \in Nat : l - 1 = m
    BY OneMore
  <2>2. pool \in [0 .. l - 1 -> SlotRec] /\ n \in Index
    BY <2>1 DEF Index
  <2>3. QED
    BY <1>3, <2>2, ContextOf
<1>6. Links(r)
  <2>1. ASSUME NEW i \in 0 .. m PROVE pool[i].nextFree \in 0 .. m \cup {Nil}
    <3>1. CASE i \in 0 .. n - 1
      <4>1. s.refPool[i].nextFree \in 0 .. n - 1 \cup {Nil}
        BY <3>1 DEF Links
      <4>2. QED
        BY <1>2, <3>1, <4>1
    <3>2. CASE i \in n .. m
      BY <1>2, <3>2
    <3>3. QED
      BY <1>1, <3>1, <3>2
  <2>2. QED
    BY <1>1, <1>4, <2>1 DEF Links
<1>7. \A i \in 0 .. m : pool[i].armed => i \in 0 .. n - 1 /\ pool[i] = s.refPool[i]
  BY <1>1
<1>8. Hooks(r)
  <2>1. \A i \in 0 .. m : pool[i].armed => pool[i].object \in Call
    BY <1>7 DEF Hooks
  <2>2. ASSUME NEW i \in 0 .. m, NEW j \in 0 .. m, pool[i].armed, pool[j].armed,
               pool[i].object = pool[j].object
        PROVE  i = j
    <3>1. /\ i \in 0 .. n - 1 /\ j \in 0 .. n - 1 /\ s.refPool[i].armed /\ s.refPool[j].armed
          /\ s.refPool[i].object = s.refPool[j].object
      BY <1>7, <2>2
    <3>2. QED
      BY <3>1 DEF Hooks
  <2>3. ASSUME NEW d \in Call
        PROVE  \/ s.freed[d] = 0
               \/ s.freed[d] = 1 /\ \A i \in 0 .. m : pool[i].armed => pool[i].object # d
    BY <1>7 DEF Hooks
  <2>4. QED
    BY <1>4, <2>1, <2>2, <2>3 DEF Hooks
<1>9. \A d \in Call : NoHook(s, d) => NoHook(r, d)
  BY <1>4, <1>7 DEF NoHook
<1>10. Leads(s, r, NoCall)
  BY <1>2, <1>4, <1>5, <1>6, <1>8, <1>9 DEF Leads
<1>11. ASSUME FreeChain(s) PROVE FreeChain(r)
  <2>1. /\ \A i \in 0 .. n - 1 : Vacant(r, i) <=> Vacant(s, i)
        /\ \A i \in n .. m : Vacant(r, i)
    BY <1>2, <1>4 DEF Vacant
  <2>2. Vacant(r, r.freeRefEntry)
    BY <1>1, <1>4, <2>1
  <2>3. ASSUME NEW i \in 0 .. n - 1, Vacant(r, i), pool[i].nextFree # Nil
        PROVE  Vacant(s, i) /\ Vacant(s, pool[i].nextFree) /\ pool[i].nextFree \in 0 .. n - 1
    <3>1. Vacant(s, i)
      BY <2>1, <2>3
    <3>2. Vacant(s, s.refPool[i].nextFree)
      BY <1>11, <2>3, <3>1 DEF FreeChain
    <3>3. QED
      BY <3>1, <3>2 DEF Vacant
  <2>4. ASSUME NEW i \in 0 .. m, Vacant(r, i), pool[i].nextFree # Nil
        PROVE  Vacant(r, pool[i].nextFree) /\ pool[i].nextFree # n
    <3>1. CASE i \in 0 .. n - 1
      BY <1>1, <1>2, <2>1, <2>3, <2>4, <3>1
    <3>2. CASE i \in n .. m
      BY <1>2, <2>1, <2>4, <3>2
    <3>3. QED
      BY <1>1, <3>1, <3>2
  <2>5. ASSUME NEW i \in 0 .. m, NEW j \in 0 .. m, Vacant(r, i), Vacant(r, j),
               pool[i].nextFree # Nil, pool[i].nextFree = pool[j].nextFree
        PROVE  i = j
    <3>1. CASE i \in 0 .. n - 1 /\ j \in 0 .. n - 1
      <4>1. /\ Vacant(s, i) /\ Vacant(s, j) /\ s.refPool[i].nextFree # Nil
            /\ s.refPool[i].nextFree = s.refPool[j].nextFree
        BY <2>3, <2>5, <3>1
      <4>2. QED
        BY <1>11, <3>1, <4>1 DEF FreeChain
    <3>2. CASE i \in n .. m /\ j \in n .. m
      <4>1. i + 1 = j + 1
        BY <2>5, <3>2
      <4>2. QED
        BY <3>2, <4>1
    <3>3. CASE i \in 0 .. n - 1 /\ j \in n .. m
      BY <1>2, <2>3, <2>5, <3>3
    <3>4. CASE i \in n .. m /\ j \in 0 .. n - 1
      BY <1>2, <2>3, <2>5, <3>4
    <3>5. QED
      BY <1>1, <3>1, <3>2, <3>3, <3>4
  <2>6. QED
    BY <1>4, <2>2, <2>4, <2>5 DEF FreeChain
<1>12. Effect(s, r, Nil, NoCall)
  <2>1. Nil \notin 0 .. n - 1
    BY DEF Nil
  <2>2. QED
    BY <1>2, <1>4, <1>11, <2>1 DEF Effect
<1>13. QED
  BY <1>1, <1>2, <1>4, <1>10, <1>12

LEMMA ExpandLeads ==
  ASSUME NEW s \in Context, Links(s), Hooks(s), s.freeRefEntry = Nil
  PROVE  /\ Leads(s, PyExpand(s), NoCall) /\ Effect(s, PyExpand(s), Nil, NoCall)
         /\ PyExpand(s).freeRefEntry # Nil
         /\ Leads(s, TsExpand(s), NoCall) /\ Effect(s, TsExpand(s), Nil, NoCall)
         /\ TsExpand(s).freeRefEntry # Nil
<1>1. NoCall \notin Call /\ ExpandCount \in Nat /\ ExpandCount # 0
  BY RpcAssumption
<1>2. PICK n \in Nat : /\ DOMAIN s.refPool = 0 .. n - 1 /\ Cardinality(DOMAIN s.refPool) = n
                       /\ s.refPool \in [0 .. n - 1 -> SlotRec]
  BY PoolTypes
<1>3. ASSUME NEW k \in Index
      PROVE  Linked(k) \in SlotRec /\ Linked(k).object = NoCall /\ ~Linked(k).armed /\ Linked(k).nextFree = k
  BY LinkedSlot DEF SlotRec
<1>4. /\ Leads(s, PyExpand(s), NoCall) /\ Effect(s, PyExpand(s), Nil, NoCall)
      /\ PyExpand(s).freeRefEntry # Nil
  <2>1. PICK m \in Nat : m = n + ExpandCount /\ m >= n
    BY <1>1
  <2> DEFINE next(t) == IF t < m - 1 THEN t + 1 ELSE IF t = m THEN s.freeRefEntry ELSE Nil
             pool == [t \in 0 .. m |-> IF t < n THEN s.refPool[t] ELSE Linked(next(t))]
  <2>2. PyExpand(s) = [s EXCEPT !.refPool = pool, !.freeRefEntry = n]
    BY <1>2, <2>1 DEF PyExpand
  <2>3. ASSUME NEW t \in n .. m
        PROVE  next(t) \in Index /\ (next(t) = Nil \/ (next(t) = t + 1 /\ t + 1 \in n .. m))
    <3>1. t \in Nat /\ t + 1 \in Nat /\ (t < m => t + 1 \in n .. m) /\ (t < m - 1 => t < m)
      OBVIOUS
    <3>2. next(t) = Nil \/ (next(t) = t + 1 /\ t < m)
      BY <3>1
    <3> HIDE DEF next
    <3>3. QED
      BY <3>1, <3>2 DEF Index
  <2>4. ASSUME NEW t \in 0 .. m
        PROVE  /\ pool[t] \in SlotRec
               /\ t \in 0 .. n - 1 => pool[t] = s.refPool[t]
               /\ t \in n .. m => pool[t] = Linked(next(t))
    <3> HIDE DEF next
    <3>1. t \in 0 .. n - 1 \/ t \in n .. m
      OBVIOUS
    <3>2. t \in 0 .. n - 1 => t < n /\ t \notin n .. m
      OBVIOUS
    <3>3. t \in n .. m => ~(t < n)
      OBVIOUS
    <3>4. QED
      BY <1>2, <1>3, <2>3, <3>1, <3>2, <3>3
  <2>5. pool \in [0 .. m -> SlotRec]
    <3> HIDE DEF next
    <3>1. QED
      BY <2>4
  <2>6. ASSUME NEW i \in n .. m
        PROVE  /\ pool[i].object = NoCall /\ ~pool[i].armed
               /\ pool[i].nextFree = Nil \/ (pool[i].nextFree = i + 1 /\ i + 1 \in n .. m)
    <3>1. i \in 0 .. m
      OBVIOUS
    <3> HIDE DEF pool, next
    <3>2. QED
      BY <1>3, <2>3, <2>4, <3>1
  <2>7. \A i \in 0 .. n - 1 : pool[i] = s.refPool[i] /\ i \in 0 .. m
    <3>1. \A i \in 0 .. n - 1 : i \in 0 .. m
      BY <2>1
    <3> HIDE DEF pool, next
    <3>2. QED
      BY <2>4, <3>1
  <2> HIDE DEF pool, next
  <2>8. PICK r : r = PyExpand(s)
    OBVIOUS
  <2>9. r = [s EXCEPT !.refPool = pool, !.freeRefEntry = n]
    BY <2>2, <2>8
  <2>10. Leads(s, r, NoCall) /\ Effect(s, r, Nil, NoCall) /\ r.freeRefEntry # Nil
    <3>1. \A i \in 0 .. n - 1 : pool[i] = s.refPool[i]
      BY <2>7
    <3>2. \A i \in n .. m : /\ pool[i].object = NoCall /\ ~pool[i].armed
                            /\ \/ pool[i].nextFree = Nil
                               \/ pool[i].nextFree = i + 1 /\ i + 1 \in n .. m
      BY <2>6
    <3>3. DOMAIN s.refPool = 0 .. n - 1 /\ m >= n /\ NoCall \notin Call
      BY <1>1, <1>2, <2>1
    <3>4. r = [refPool |-> pool, freeRefEntry |-> n, running |-> s.running,
               shut |-> s.shut, freed |-> s.freed]
      BY <2>9 DEF Context
    <3>5. /\ \A i \in n .. m : /\ pool[i].object = NoCall /\ ~pool[i].armed
                              /\ \/ pool[i].nextFree = Nil
                                 \/ pool[i].nextFree = i + 1 /\ i + 1 \in n .. m
          /\ NoCall \notin Call /\ DOMAIN s.refPool = 0 .. n - 1 /\ m >= n
          /\ pool \in [0 .. m -> SlotRec]
      BY <2>5, <3>2, <3>3, Zenon
    <3>6. QED
      BY <3>1, <3>4, <3>5, AddedLeads
  <2>11. QED
    BY <2>8, <2>10
<1>5. /\ Leads(s, TsExpand(s), NoCall) /\ Effect(s, TsExpand(s), Nil, NoCall)
      /\ TsExpand(s).freeRefEntry # Nil
  <2>1. PICK m \in Nat : m = n + ExpandCount - 1 /\ m >= n
    BY <1>1
  <2> DEFINE next(t) == IF t < m THEN t + 1 ELSE s.freeRefEntry
             pool == [t \in 0 .. m |-> IF t < n THEN s.refPool[t] ELSE Linked(next(t))]
  <2>2. TsExpand(s) = [s EXCEPT !.refPool = pool, !.freeRefEntry = n]
    BY <1>2, <2>1 DEF TsExpand
  <2>3. ASSUME NEW t \in n .. m
        PROVE  next(t) \in Index /\ (next(t) = Nil \/ (next(t) = t + 1 /\ t + 1 \in n .. m))
    <3>1. t \in Nat /\ t + 1 \in Nat /\ (t < m => t + 1 \in n .. m) /\ (t < m - 1 => t < m)
      OBVIOUS
    <3>2. next(t) = Nil \/ (next(t) = t + 1 /\ t < m)
      BY <3>1
    <3> HIDE DEF next
    <3>3. QED
      BY <3>1, <3>2 DEF Index
  <2>4. ASSUME NEW t \in 0 .. m
        PROVE  /\ pool[t] \in SlotRec
               /\ t \in 0 .. n - 1 => pool[t] = s.refPool[t]
               /\ t \in n .. m => pool[t] = Linked(next(t))
    <3> HIDE DEF next
    <3>1. t \in 0 .. n - 1 \/ t \in n .. m
      OBVIOUS
    <3>2. t \in 0 .. n - 1 => t < n /\ t \notin n .. m
      OBVIOUS
    <3>3. t \in n .. m => ~(t < n)
      OBVIOUS
    <3>4. QED
      BY <1>2, <1>3, <2>3, <3>1, <3>2, <3>3
  <2>5. pool \in [0 .. m -> SlotRec]
    <3> HIDE DEF next
    <3>1. QED
      BY <2>4
  <2>6. ASSUME NEW i \in n .. m
        PROVE  /\ pool[i].object = NoCall /\ ~pool[i].armed
               /\ pool[i].nextFree = Nil \/ (pool[i].nextFree = i + 1 /\ i + 1 \in n .. m)
    <3>1. i \in 0 .. m
      OBVIOUS
    <3> HIDE DEF pool, next
    <3>2. QED
      BY <1>3, <2>3, <2>4, <3>1
  <2>7. \A i \in 0 .. n - 1 : pool[i] = s.refPool[i] /\ i \in 0 .. m
    <3>1. \A i \in 0 .. n - 1 : i \in 0 .. m
      BY <2>1
    <3> HIDE DEF pool, next
    <3>2. QED
      BY <2>4, <3>1
  <2> HIDE DEF pool, next
  <2>8. PICK r : r = TsExpand(s)
    OBVIOUS
  <2>9. r = [s EXCEPT !.refPool = pool, !.freeRefEntry = n]
    BY <2>2, <2>8
  <2>10. Leads(s, r, NoCall) /\ Effect(s, r, Nil, NoCall) /\ r.freeRefEntry # Nil
    <3>1. \A i \in 0 .. n - 1 : pool[i] = s.refPool[i]
      BY <2>7
    <3>2. \A i \in n .. m : /\ pool[i].object = NoCall /\ ~pool[i].armed
                            /\ \/ pool[i].nextFree = Nil
                               \/ pool[i].nextFree = i + 1 /\ i + 1 \in n .. m
      BY <2>6
    <3>3. DOMAIN s.refPool = 0 .. n - 1 /\ m >= n /\ NoCall \notin Call
      BY <1>1, <1>2, <2>1
    <3>4. r = [refPool |-> pool, freeRefEntry |-> n, running |-> s.running,
               shut |-> s.shut, freed |-> s.freed]
      BY <2>9 DEF Context
    <3>5. /\ \A i \in n .. m : /\ pool[i].object = NoCall /\ ~pool[i].armed
                              /\ \/ pool[i].nextFree = Nil
                                 \/ pool[i].nextFree = i + 1 /\ i + 1 \in n .. m
          /\ NoCall \notin Call /\ DOMAIN s.refPool = 0 .. n - 1 /\ m >= n
          /\ pool \in [0 .. m -> SlotRec]
      BY <2>5, <3>2, <3>3, Zenon
    <3>6. QED
      BY <3>1, <3>4, <3>5, AddedLeads
  <2>11. QED
    BY <2>8, <2>10
<1>6. QED
  BY <1>4, <1>5

LEMMA AllocLeads ==
  ASSUME NEW s \in Context, Links(s), Hooks(s), NEW c \in Call, NEW armed \in BOOLEAN,
         armed => NoHook(s, c)
  PROVE  /\ Leads(s, PyAllocRef(s, c, armed), IF armed THEN c ELSE NoCall)
         /\ Effect(s, PyAllocRef(s, c, armed), PyRoom(s).freeRefEntry, c)
         /\ PyRoom(s).freeRefEntry \in Nat
         /\ Leads(s, TsAllocRef(s, c, armed), IF armed THEN c ELSE NoCall)
         /\ Effect(s, TsAllocRef(s, c, armed), TsRoom(s).freeRefEntry, c)
         /\ TsRoom(s).freeRefEntry \in Nat
<1>1. NoCall \notin Call /\ c # NoCall
  BY RpcAssumption
<1>2. ASSUME NEW r, Leads(s, r, NoCall), Effect(s, r, Nil, NoCall), r.freeRefEntry # Nil
      PROVE  /\ Leads(s, Take(r, c, armed), IF armed THEN c ELSE NoCall)
             /\ Effect(s, Take(r, c, armed), r.freeRefEntry, c)
             /\ r.freeRefEntry \in Nat
  <2>1. r \in Context /\ Links(r) /\ Hooks(r) /\ (armed => NoHook(r, c))
    BY <1>1, <1>2 DEF Leads
  <2>2. /\ Leads(r, Take(r, c, armed), IF armed THEN c ELSE NoCall)
        /\ Effect(r, Take(r, c, armed), r.freeRefEntry, c)
    BY <1>1, <1>2, <2>1, TakeLeads
  <2>3. r.freeRefEntry \in Nat
    BY <1>2, <2>1, PoolTypes DEF Index
  <2>4. PICK t, i, b : /\ t = Take(r, c, armed) /\ i = r.freeRefEntry
                       /\ b = IF armed THEN c ELSE NoCall
    OBVIOUS
  <2>5. Leads(r, t, b) /\ Effect(r, t, i, c)
    BY <2>2, <2>4
  <2>6. Leads(s, t, b) /\ Effect(s, t, i, c)
    BY <1>1, <1>2, <2>5, LeadsOn
  <2>7. QED
    BY <2>3, <2>4, <2>6
<1>3. /\ Leads(s, s, NoCall) /\ Effect(s, s, Nil, NoCall)
      /\ s.freeRefEntry = Nil =>
           /\ Leads(s, PyExpand(s), NoCall) /\ Effect(s, PyExpand(s), Nil, NoCall)
           /\ PyExpand(s).freeRefEntry # Nil
           /\ Leads(s, TsExpand(s), NoCall) /\ Effect(s, TsExpand(s), Nil, NoCall)
           /\ TsExpand(s).freeRefEntry # Nil
  BY StayLeads, ExpandLeads
<1>4. /\ Leads(s, PyRoom(s), NoCall) /\ Effect(s, PyRoom(s), Nil, NoCall) /\ PyRoom(s).freeRefEntry # Nil
      /\ Leads(s, TsRoom(s), NoCall) /\ Effect(s, TsRoom(s), Nil, NoCall) /\ TsRoom(s).freeRefEntry # Nil
  BY <1>3 DEF PyRoom, TsRoom
<1>5. QED
  BY <1>2, <1>4 DEF PyAllocRef, TsAllocRef

-----------------------------------------------------------------------------
(* What the server's tasks do.  The task of c reads its request m or goes  *)
(* on with it, comes to the state st, puts c into the slot i or empties    *)
(* that, and sends one packet or none.                                     *)
Reads(m) ==
  toServer # <<>> /\ m = Head(toServer) /\ toServer' = Tail(toServer) /\ toClient' = toClient

Continues(c, m) == task[c] \in Pending /\ m = req[c] /\ toServer' = toServer

Given(c, i, o) == {Nil} \cup {x \in {i} : o = c}

Births(c, m, st) ==
  \E b \in {c, NoCall} :
    /\ Leads(srv, srv', b)
    /\ b = c => Unborn(c) /\ st # "ready" /\ ~(st = "called" /\ m.op = "call")

Queued(c, m, st) ==
  \/ st = "ready" /\ Reads(m) /\ ready' = Append(ready, c)
  \/ st # "ready" /\ task[c] # "ready" /\ ready' = ready
  \/ st # "ready" /\ ready # <<>> /\ c = Head(ready) /\ ready' = Tail(ready)

Leaving(c, st, i, o) ==
  /\ result' \in [Call -> Outcome]
  /\ \A d \in Call : d # c => result'[d] = result[d]
  /\ st = "answer" \/ result'[c] # result[c] => result'[c].value \in Given(c, i, o)

Answers(c, m, st, i, o) ==
  \E p \in Packet :
    /\ Continues(c, m) /\ m.sid # Signal /\ toClient' = Append(toClient, p)
    /\ p.call = c /\ p.sid = m.sid
    /\ p.rejected \/ m.op # "poll" => st = "ended"
    /\ p.value \in Given(c, i, o) \/ (task[c] = "answer" /\ p.value = result[c].value)

Works(c, m, st, i, o) ==
  /\ m \in Request /\ m.call = c /\ (Reads(m) \/ Continues(c, m))
  /\ st \in Pending \cup {"ended"}
  /\ task' = [task EXCEPT ![c] = st] /\ req' = [req EXCEPT ![c] = m]
  /\ st = "again" => m.op = "poll"
  /\ st = "called" /\ m.op = "call" => Unborn(c)
  /\ Queued(c, m, st)
  /\ o \in {c, NoCall} /\ Births(c, m, st) /\ Effect(srv, srv', i, o)
  /\ i # Nil /\ o = NoCall => m.op = "freeRef" /\ i = m.index /\ (Reads(m) \/ task[c] = "ready") /\ st # "ready"
  /\ Leaving(c, st, i, o)
  /\ toClient' = toClient \/ Answers(c, m, st, i, o)

Serves ==
  /\ UNCHANGED <<pair, clientVars, lost>>
  /\ serve' \in {"receive", "ended"} /\ rounds' \in [Call -> Nat]
  /\ \/ /\ UNCHANGED <<toServer, toClient, ready, task, req, result>>
        /\ Leads(srv, srv', NoCall) /\ Effect(srv, srv', Nil, NoCall)
     \/ \E c \in Call, m \in Request, st \in Pending \cup {"ended"}, i \in Index, o \in Call \cup {NoCall} :
          Works(c, m, st, i, o)

(* An answer, for what was done to the context before it. *)
LEMMA ReplySteps ==
  ASSUME BaseInv, NEW c \in Call, task[c] # "none", NEW x \in Outcome, NEW t, NEW b, NEW i, NEW o,
         Leads(srv, t, b), Effect(srv, t, i, o),
         \/ PyAnswer(t, c, x)
         \/ IF req[c].sid = Signal THEN Silent(t) ELSE Reply(t, c, x, TsCloses(t))
  PROVE  /\ Leads(srv, srv', b) /\ Effect(srv, srv', i, o)
         /\ \/ toClient' = toClient
            \/ \E p \in Packet : /\ req[c].sid # Signal /\ toClient' = Append(toClient, p)
                                 /\ p.call = c /\ p.sid = req[c].sid
                                 /\ p.rejected = x.rejected /\ p.value = x.value
<1>1. srv \in Context /\ req[c] \in Request
  BY DEF BaseInv, TypeOK, ServerTypes
<1>2. \A u \in Closings(t) : Leads(srv, u, b) /\ Effect(srv, u, i, o)
  BY <1>1, CloseLeads
<1>3. srv' \in {t} \cup Closings(t)
  BY DEF PyAnswer, Silent, Reply, Closings
<1>4. Leads(srv, srv', b) /\ Effect(srv, srv', i, o)
  BY <1>2, <1>3
<1>5. \/ toClient' = toClient
      \/ /\ req[c].sid # Signal
         /\ toClient' = Append(toClient, [call |-> c, sid |-> req[c].sid,
                                          rejected |-> x.rejected, value |-> x.value])
  BY DEF PyAnswer, Silent, Reply
<1>6. ASSUME req[c].sid # Signal
      PROVE  [call |-> c, sid |-> req[c].sid, rejected |-> x.rejected, value |-> x.value] \in Packet
  <2>1. req[c].sid \in Sid
    BY <1>1, <1>6 DEF Request, AnySid
  <2>2. x.rejected \in BOOLEAN /\ x.value \in Index
    BY DEF Outcome
  <2>3. QED
    BY <2>1, <2>2 DEF Packet
<1>7. QED
  <2>1. CASE toClient' = toClient
    BY <1>4, <2>1
  <2>2. CASE toClient' # toClient
    <3>1. PICK p \in Packet : /\ p = [call |-> c, sid |-> req[c].sid, rejected |-> x.rejected, value |-> x.value]
                              /\ req[c].sid # Signal /\ toClient' = Append(toClient, p)
      BY <1>5, <1>6, <2>2
    <3>2. p.call = c /\ p.sid = req[c].sid /\ p.rejected = x.rejected /\ p.value = x.value
      BY <3>1
    <3>3. QED
      BY <1>4, <3>1, <3>2
  <2>3. QED
    BY <2>1, <2>2

LEMMA Contexts ==
  ASSUME BaseInv
  PROVE  /\ srv \in Context /\ Links(srv) /\ Hooks(srv)
         /\ \A c : /\ Leads(srv, srv, c) /\ Effect(srv, srv, Nil, NoCall)
                   /\ \A u \in Closings(srv) : Leads(srv, u, c) /\ Effect(srv, u, Nil, NoCall)
<1>1. srv \in Context /\ Links(srv) /\ Hooks(srv)
  BY DEF BaseInv, TypeOK, ServerTypes, HooksOK
<1>2. QED
  BY <1>1, StayLeads, CloseLeads

(* The task of c sends what it leaves, or nothing. *)
LEMMA Continued ==
  ASSUME BaseInv, NEW c \in Call, task[c] \in Pending
  PROVE  /\ req[c] \in Request /\ req[c].call = c /\ req = [req EXCEPT ![c] = req[c]]
         /\ task[c] # "none"
         /\ result \in [Call -> Outcome] /\ rounds \in [Call -> Nat] /\ ready \in Seq(Call)
         /\ Done \in Outcome /\ Done.value = Nil /\ Done.rejected = FALSE
         /\ \A x \in BOOLEAN : /\ [Done EXCEPT !.rejected = x] \in Outcome
                               /\ [Done EXCEPT !.rejected = x].value = Nil
                               /\ [Done EXCEPT !.rejected = x].rejected = x
<1>1. task[c] # "none"
  BY DEF Pending
<1>2. req[c] \in Request /\ req[c].call = c /\ req \in [Call -> Request \cup {NoRequest}]
  BY <1>1 DEF BaseInv, TypeOK, ServerTypes, Kinds
<1>3. Done = [rejected |-> FALSE, value |-> Nil] /\ Nil \in Index
  BY DEF Done, Index
<1>4. Done \in Outcome /\ Done.value = Nil /\ Done.rejected = FALSE
  BY <1>3 DEF Outcome
<1>5. PICK dn \in Outcome : dn = Done /\ dn.value = Nil
  BY <1>4
<1>6. ASSUME NEW x \in BOOLEAN
      PROVE  /\ [dn EXCEPT !.rejected = x] \in Outcome
             /\ [dn EXCEPT !.rejected = x].value = Nil
             /\ [dn EXCEPT !.rejected = x].rejected = x
  BY <1>5 DEF Outcome
<1>7. QED
  BY <1>1, <1>2, <1>4, <1>5, <1>6 DEF BaseInv, TypeOK, ServerTypes

LEMMA WorksAnswer ==
  ASSUME BaseInv, NEW c \in Call, task[c] \in Pending, NEW x \in Outcome, NEW t, NEW b \in {c, NoCall},
         NEW i \in Index, NEW o \in {c, NoCall}, NEW st \in {"ended", "again"},
         Leads(srv, t, b), Effect(srv, t, i, o),
         \/ PyAnswer(t, c, x)
         \/ IF req[c].sid = Signal THEN Silent(t) ELSE Reply(t, c, x, TsCloses(t)),
         b = c => Unborn(c),
         i # Nil /\ o = NoCall => req[c].op = "freeRef" /\ i = req[c].index /\ task[c] = "ready",
         x.value \in Given(c, i, o) \/ (task[c] = "answer" /\ x.value = result[c].value),
         st = "again" => req[c].op = "poll" /\ ~x.rejected,
         task' = [task EXCEPT ![c] = st],
         UNCHANGED <<toServer, req, result>>,
         \/ task[c] # "ready" /\ ready' = ready
         \/ ready # <<>> /\ c = Head(ready) /\ ready' = Tail(ready)
  PROVE  Works(c, req[c], st, i, o)
<1>1. /\ req[c] \in Request /\ req[c].call = c /\ req = [req EXCEPT ![c] = req[c]]
      /\ task[c] # "none" /\ result \in [Call -> Outcome]
  BY Continued
<1>2. /\ Leads(srv, srv', b) /\ Effect(srv, srv', i, o)
      /\ \/ toClient' = toClient
         \/ \E p \in Packet : /\ req[c].sid # Signal /\ toClient' = Append(toClient, p)
                              /\ p.call = c /\ p.sid = req[c].sid
                              /\ p.rejected = x.rejected /\ p.value = x.value
  BY <1>1, ReplySteps
<1>3. Continues(c, req[c])
  BY DEF Continues
<1>4. Births(c, req[c], st)
  BY <1>2 DEF Births
<1>5. Queued(c, req[c], st)
  BY DEF Queued
<1>6. Leaving(c, st, i, o)
  BY <1>1 DEF Leaving
<1>7. st \in Pending \cup {"ended"}
  BY DEF Pending
<1>8. toClient' = toClient \/ Answers(c, req[c], st, i, o)
  <2>1. ASSUME NEW p \in Packet, req[c].sid # Signal, toClient' = Append(toClient, p),
               p.call = c, p.sid = req[c].sid, p.rejected = x.rejected, p.value = x.value
        PROVE  Answers(c, req[c], st, i, o)
    BY <1>3, <2>1 DEF Answers
  <2>2. QED
    BY <1>2, <2>1
<1>9. QED
  BY <1>1, <1>2, <1>3, <1>4, <1>5, <1>6, <1>7, <1>8 DEF Works

(* The task of c sends nothing. *)
LEMMA WorksQuiet ==
  ASSUME BaseInv, NEW c \in Call, task[c] \in Pending,
         NEW st \in {"ended", "called"},
         Leads(srv, srv', NoCall), Effect(srv, srv', Nil, NoCall),
         st = "called" /\ req[c].op = "call" => Unborn(c),
         task' = [task EXCEPT ![c] = st],
         UNCHANGED <<toServer, toClient, req, result>>,
         \/ task[c] # "ready" /\ ready' = ready
         \/ ready # <<>> /\ c = Head(ready) /\ ready' = Tail(ready)
  PROVE  Works(c, req[c], st, Nil, NoCall)
<1>1. /\ req[c] \in Request /\ req[c].call = c /\ req = [req EXCEPT ![c] = req[c]]
      /\ task[c] # "none" /\ result \in [Call -> Outcome]
  BY Continued
<1>2. Continues(c, req[c])
  BY DEF Continues
<1>3. Births(c, req[c], st)
  BY RpcAssumption DEF Births
<1>4. Queued(c, req[c], st)
  BY DEF Queued
<1>5. Leaving(c, st, Nil, NoCall)
  BY <1>1 DEF Leaving
<1>6. st \in Pending \cup {"ended"}
  BY DEF Pending
<1>7. QED
  BY <1>1, <1>2, <1>3, <1>4, <1>5, <1>6 DEF Works

LEMMA ReadyHead ==
  ASSUME BaseInv, ready # <<>>
  PROVE  Head(ready) \in Call /\ task[Head(ready)] = "ready" /\ task[Head(ready)] \in Pending
<1>1. Head(ready) \in Elems(ready) /\ Head(ready) \in Call
  BY ElemsTail DEF BaseInv, TypeOK, ServerTypes
<1>2. QED
  BY <1>1 DEF BaseInv, OnePlace, Pending

(* The task of c answers right when it runs first, and ends. *)
LEMMA WorksReady ==
  ASSUME BaseInv, NEW c \in Call, task[c] = "ready", NEW x \in Outcome, NEW t,
         NEW i \in Index, NEW o \in {c, NoCall},
         Leads(srv, t, NoCall), Effect(srv, t, i, o), PyAnswer(t, c, x),
         i # Nil /\ o = NoCall => req[c].op = "freeRef" /\ i = req[c].index,
         x.value \in Given(c, i, o), task' = [task EXCEPT ![c] = "ended"],
         UNCHANGED <<toServer, req, result>>,
         ready # <<>>, c = Head(ready), ready' = Tail(ready)
  PROVE  Works(c, req[c], "ended", i, o)
<1>1. task[c] \in Pending /\ NoCall \notin Call
  BY RpcAssumption DEF Pending
<1>2. /\ req[c] \in Request /\ req[c].call = c /\ req' = [req EXCEPT ![c] = req[c]]
      /\ task[c] # "none" /\ result \in [Call -> Outcome]
  BY <1>1, Continued
<1>3. PICK b \in {c, NoCall} : b = NoCall
  OBVIOUS
<1>4. /\ Leads(srv, srv', NoCall) /\ Effect(srv, srv', i, o)
      /\ \/ toClient' = toClient
         \/ \E p \in Packet : /\ req[c].sid # Signal /\ toClient' = Append(toClient, p)
                              /\ p.call = c /\ p.sid = req[c].sid
                              /\ p.rejected = x.rejected /\ p.value = x.value
  BY <1>2, <1>3, ReplySteps
<1>5. Continues(c, req[c])
  BY <1>1 DEF Continues
<1>6. Births(c, req[c], "ended")
  BY <1>1, <1>4 DEF Births
<1>7. Queued(c, req[c], "ended") /\ Leaving(c, "ended", i, o)
  BY <1>2 DEF Queued, Leaving
<1>8. toClient' = toClient \/ Answers(c, req[c], "ended", i, o)
  <2>1. ASSUME NEW p \in Packet, req[c].sid # Signal, toClient' = Append(toClient, p),
               p.call = c, p.sid = req[c].sid, p.rejected = x.rejected, p.value = x.value
        PROVE  Answers(c, req[c], "ended", i, o)
    BY <1>5, <2>1 DEF Answers
  <2>2. QED
    BY <1>4, <2>1
<1>9. "ended" \in Pending \cup {"ended"}
  OBVIOUS
<1>10. QED
  BY <1>2, <1>4, <1>5, <1>6, <1>7, <1>8, <1>9 DEF Works

LEMMA PyTaskBeginsWorks ==
  ASSUME BaseInv, PyTaskBegins
  PROVE  \E c \in Call, st \in Pending \cup {"ended"}, i \in Index, o \in Call \cup {NoCall} :
           Works(c, req[c], st, i, o)
<1>1. PICK c \in Call : /\ c = Head(ready) /\ ready # <<>> /\ task[c] = "ready" /\ task[c] \in Pending
                        /\ ready' = Tail(ready)
  BY ReadyHead DEF PyTaskBegins
<1>2. UNCHANGED <<toServer, req, result>>
  BY DEF PyTaskBegins
<1>3. Unborn(c)
  BY <1>1 DEF Unborn
<1>4. NoCall \notin Call /\ Nil \in Index /\ "ended" \in Pending \cup {"ended"} /\ "called" \in Pending
  BY RpcAssumption DEF Index, Pending
<1>5. /\ srv \in Context /\ Links(srv) /\ Hooks(srv)
      /\ Leads(srv, srv, NoCall) /\ Effect(srv, srv, Nil, NoCall)
      /\ \A u \in Closings(srv) : Leads(srv, u, NoCall) /\ Effect(srv, u, Nil, NoCall)
  BY Contexts
<1>6. CASE PyEnter(c)
  <2>1. PICK st \in {"ended", "called"} : task' = [task EXCEPT ![c] = st]
    BY <1>6 DEF PyEnter, Goes
  <2>2. srv' \in {srv} \cup Closings(srv) /\ toClient' = toClient
    BY <1>6 DEF PyEnter, PyAborts, Silent, Closings
  <2>3. Leads(srv, srv', NoCall) /\ Effect(srv, srv', Nil, NoCall)
    BY <1>5, <2>2
  <2>4. Works(c, req[c], st, Nil, NoCall)
    BY <1>1, <1>2, <1>3, <2>1, <2>2, <2>3, WorksQuiet
  <2>5. QED
    BY <1>4, <2>4
<1>7. CASE PyHandler(c) /\ Goes(c, "ended")
  <2>1. task' = [task EXCEPT ![c] = "ended"]
    BY <1>7 DEF Goes
  <2>2. /\ Done \in Outcome /\ Done.value = Nil
    BY <1>1, Continued
  <2>3. ASSUME NEW x \in Outcome, NEW t, NEW i \in Index, NEW o \in {c, NoCall},
               Leads(srv, t, NoCall), Effect(srv, t, i, o), PyAnswer(t, c, x),
               i # Nil /\ o = NoCall => req[c].op = "freeRef" /\ i = req[c].index,
               x.value \in Given(c, i, o)
        PROVE  Works(c, req[c], "ended", i, o)
    BY <1>1, <1>2, <2>1, <2>3, WorksReady
  <2>4. CASE PyAnswer(PyAllocRef(srv, c, FALSE), c, At(srv))
    <3>1. PICK i \in Nat : i = PyRoom(srv).freeRefEntry
      BY <1>5, AllocLeads
    <3>2. Leads(srv, PyAllocRef(srv, c, FALSE), NoCall) /\ Effect(srv, PyAllocRef(srv, c, FALSE), i, c)
      BY <1>5, <3>1, AllocLeads
    <3>3. At(srv) \in Outcome /\ At(srv).value = i
      BY <3>1 DEF At, Outcome, Index
    <3>4. i \in Index /\ i \in Given(c, i, c) /\ c # NoCall
      BY <1>4 DEF Index, Given
    <3>5. Works(c, req[c], "ended", i, c)
      BY <2>3, <2>4, <3>2, <3>3, <3>4
    <3>6. QED
      BY <1>4, <3>4, <3>5
  <2>5. CASE PyAnswer(srv, c, Done)
    <3>1. Nil \in Given(c, Nil, NoCall)
      BY DEF Given
    <3>2. Works(c, req[c], "ended", Nil, NoCall)
      BY <1>4, <1>5, <2>2, <2>3, <2>5, <3>1
    <3>3. QED
      BY <1>4, <3>2
  <2>6. CASE req[c].op = "freeRef" /\ PyAnswer(Release(srv, req[c].index), c, Done)
    <3>1. PICK i \in DOMAIN srv.refPool : i = req[c].index
      BY <1>1, <2>6 DEF BaseInv, Indexed, Slots
    <3>2. i \in Index
      BY <1>5, PoolTypes DEF Index
    <3>3. Leads(srv, Release(srv, i), NoCall) /\ Effect(srv, Release(srv, i), i, NoCall)
      BY <1>4, <1>5, ReleaseLeads
    <3>4. Done.value \in Given(c, i, NoCall)
      BY <2>2 DEF Given
    <3>5. Works(c, req[c], "ended", i, NoCall)
      BY <2>2, <2>3, <2>6, <3>1, <3>2, <3>3, <3>4
    <3>6. QED
      BY <1>4, <3>2, <3>5
  <2>7. CASE PyAborts \/ Silent(srv)
    <3>1. srv' \in {srv} \cup Closings(srv) /\ toClient' = toClient
      BY <2>7 DEF PyAborts, Silent, Closings
    <3>2. Leads(srv, srv', NoCall) /\ Effect(srv, srv', Nil, NoCall)
      BY <1>5, <3>1
    <3>3. Works(c, req[c], "ended", Nil, NoCall)
      BY <1>1, <1>2, <1>3, <2>1, <3>1, <3>2, WorksQuiet
    <3>4. QED
      BY <1>4, <3>3
  <2>8. QED
    BY <1>7, <2>4, <2>5, <2>6, <2>7 DEF PyHandler
<1>8. QED
  BY <1>1, <1>6, <1>7 DEF PyTaskBegins

LEMMA PyServerWorks ==
  ASSUME BaseInv, NEW c \in Call, PyCallReturns(c) \/ PyPollReturns(c) \/ PyPollAgain(c)
  PROVE  \E st \in Pending \cup {"ended"}, i \in Index, o \in Call \cup {NoCall} :
           Works(c, req[c], st, i, o)
<1>1. NoCall \notin Call /\ Nil \in Index /\ "called" \in Pending /\ "again" \in Pending
  BY RpcAssumption DEF Index, Pending
<1>2. /\ srv \in Context /\ Links(srv) /\ Hooks(srv)
      /\ Leads(srv, srv, NoCall) /\ Effect(srv, srv, Nil, NoCall)
      /\ \A u \in Closings(srv) : Leads(srv, u, NoCall) /\ Effect(srv, u, Nil, NoCall)
  BY Contexts
<1>3. task[c] \in Pending /\ task[c] # "ready" /\ UNCHANGED <<toServer, req, result>> /\ ready' = ready
  BY DEF PyCallReturns, PyPollReturns, PyPollAgain, Pending
<1>4. /\ \A x \in BOOLEAN : /\ [Done EXCEPT !.rejected = x] \in Outcome
                            /\ [Done EXCEPT !.rejected = x].value = Nil
                            /\ [Done EXCEPT !.rejected = x].rejected = x
  BY <1>3, Continued
<1>5. Nil \in Given(c, Nil, NoCall)
  BY DEF Given
<1>6. ASSUME NEW x \in Outcome, x.value = Nil, PyAnswer(srv, c, x), NEW st \in {"ended", "again"},
             Goes(c, st), st = "again" => req[c].op = "poll" /\ ~x.rejected
      PROVE  Works(c, req[c], st, Nil, NoCall)
  <2>1. task' = [task EXCEPT ![c] = st]
    BY <1>6 DEF Goes
  <2>2. x.value \in Given(c, Nil, NoCall)
    BY <1>5, <1>6
  <2>3. PICK b, i, o : b = NoCall /\ i = Nil /\ o = NoCall
    OBVIOUS
  <2>4. /\ b \in {c, NoCall} /\ o \in {c, NoCall} /\ i \in Index
        /\ Leads(srv, srv, b) /\ Effect(srv, srv, i, o) /\ x.value \in Given(c, i, o)
        /\ b # c
    BY <1>1, <1>2, <2>2, <2>3
  <2>5. Works(c, req[c], st, i, o)
    BY <1>3, <1>6, <2>1, <2>3, <2>4, WorksAnswer
  <2>6. QED
    BY <2>3, <2>5
<1>7. CASE PyCallReturns(c)
  <2>1. task[c] = "called" /\ req[c].op = "call" /\ Unborn(c) /\ Goes(c, "ended")
    BY <1>7 DEF PyCallReturns, Unborn
  <2>2. CASE PyAnswer(PyAllocRef(srv, c, TRUE), c, At(srv))
    <3>1. NoHook(srv, c)
      BY <2>1 DEF BaseInv, HooksOK
    <3>2. PICK i \in Nat : i = PyRoom(srv).freeRefEntry
      BY <1>2, <3>1, AllocLeads
    <3>3. Leads(srv, PyAllocRef(srv, c, TRUE), c) /\ Effect(srv, PyAllocRef(srv, c, TRUE), i, c)
      BY <1>2, <3>1, <3>2, AllocLeads
    <3>4. At(srv) \in Outcome /\ At(srv).value = i
      BY <3>2 DEF At, Outcome, Index
    <3>5. i \in Index /\ i \in Given(c, i, c) /\ c # NoCall /\ task' = [task EXCEPT ![c] = "ended"]
      BY <1>1, <2>1 DEF Index, Given, Goes
    <3>6. Works(c, req[c], "ended", i, c)
      BY <1>3, <2>1, <2>2, <3>3, <3>4, <3>5, WorksAnswer
    <3>7. QED
      BY <3>5, <3>6
  <2>3. CASE \E rejected \in BOOLEAN : PyAnswer(srv, c, [Done EXCEPT !.rejected = rejected])
    <3>1. PICK x \in Outcome : x.value = Nil /\ PyAnswer(srv, c, x)
      BY <1>4, <2>3
    <3>2. Works(c, req[c], "ended", Nil, NoCall)
      BY <1>6, <2>1, <3>1
    <3>3. QED
      BY <1>1, <3>2
  <2>4. QED
    BY <1>7, <2>2, <2>3 DEF PyCallReturns
<1>8. CASE PyPollReturns(c)
  <2>1. PICK y \in BOOLEAN : /\ PyAnswer(srv, c, [Done EXCEPT !.rejected = y])
                             /\ Goes(c, IF y THEN "ended" ELSE "again")
    BY <1>8 DEF PyPollReturns
  <2>2. PICK x \in Outcome : x.value = Nil /\ x.rejected = y /\ PyAnswer(srv, c, x)
    BY <1>4, <2>1
  <2>3. PICK st \in {"ended", "again"} : Goes(c, st) /\ (st = "again" => ~y)
    BY <2>1
  <2>4. req[c].op = "poll"
    BY <1>8 DEF PyPollReturns
  <2>5. Works(c, req[c], st, Nil, NoCall)
    BY <1>6, <2>2, <2>3, <2>4
  <2>6. QED
    BY <1>1, <2>5
<1>9. CASE PyPollAgain(c)
  <2>1. task[c] = "again" /\ req[c].op = "poll"
    BY <1>9 DEF PyPollAgain, BaseInv, Kinds
  <2>2. /\ \E st \in {"ended", "called"} : task' = [task EXCEPT ![c] = st]
        /\ srv' \in {srv} \cup Closings(srv) /\ toClient' = toClient
    BY <1>9 DEF PyPollAgain, PyEnter, PyAborts, Goes, Silent, Closings
  <2>3. PICK st \in {"ended", "called"} : task' = [task EXCEPT ![c] = st]
    BY <2>2
  <2>4. Leads(srv, srv', NoCall) /\ Effect(srv, srv', Nil, NoCall)
    BY <1>2, <2>2
  <2>5. Works(c, req[c], st, Nil, NoCall)
    BY <1>3, <2>1, <2>2, <2>3, <2>4, WorksQuiet
  <2>6. QED
    BY <1>1, <2>5
<1>10. QED
  BY <1>7, <1>8, <1>9

(* A request is read. *)
LEMMA Received ==
  ASSUME BaseInv, toServer # <<>>
  PROVE  /\ Head(toServer) \in Request /\ Head(toServer).call \in Call
         /\ Head(toServer) \in Elems(toServer) /\ task[Head(toServer).call] = "none"
<1>1. Head(toServer) \in Request /\ Head(toServer) \in Elems(toServer)
  BY ElemsTail DEF BaseInv, TypeOK, NetTypes
<1>2. QED
  BY <1>1 DEF BaseInv, OnePlace, Request

LEMMA WorksRead ==
  ASSUME BaseInv, NEW c \in Call, NEW m \in Request, m.call = c, Reads(m),
         NEW st \in {"ready", "called", "answer", "ended"}, NEW i \in Index, NEW o \in {c, NoCall},
         Leads(srv, srv', NoCall), Effect(srv, srv', i, o),
         task' = [task EXCEPT ![c] = st], req' = [req EXCEPT ![c] = m],
         ready' = IF st = "ready" THEN Append(ready, c) ELSE ready,
         i # Nil /\ o = NoCall => m.op = "freeRef" /\ i = m.index /\ st # "ready",
         Leaving(c, st, i, o)
  PROVE  Works(c, m, st, i, o)
<1>1. task[c] = "none" /\ Unborn(c)
  BY Received DEF Reads, Unborn
<1>2. NoCall # c
  BY RpcAssumption
<1>3. Births(c, m, st)
  BY <1>2 DEF Births
<1>4. Queued(c, m, st)
  BY <1>1 DEF Queued
<1>6. st \in Pending \cup {"ended"} /\ st # "again"
  BY DEF Pending
<1>7. toClient' = toClient
  BY DEF Reads
<1>8. QED
  BY <1>1, <1>3, <1>4, <1>6, <1>7 DEF Works

LEMMA Leavings ==
  ASSUME BaseInv, NEW c \in Call, NEW i, NEW o, NEW st
  PROVE  /\ st # "answer" /\ result' = result => Leaving(c, st, i, o)
         /\ \A r \in Outcome : result' = [result EXCEPT ![c] = r] /\ r.value \in Given(c, i, o) =>
              Leaving(c, st, i, o)
<1>1. result \in [Call -> Outcome]
  BY DEF BaseInv, TypeOK, ServerTypes
<1>2. ASSUME NEW r \in Outcome, result' = [result EXCEPT ![c] = r], r.value \in Given(c, i, o)
      PROVE  Leaving(c, st, i, o)
  <2>1. result' \in [Call -> Outcome] /\ result'[c] = r /\ \A d \in Call : d # c => result'[d] = result[d]
    BY <1>1, <1>2
  <2>2. QED
    BY <1>2, <2>1 DEF Leaving
<1>3. QED
  BY <1>1, <1>2 DEF Leaving

LEMMA DoneFacts ==
  /\ Done \in Outcome /\ Done.value = Nil
  /\ \A v \in Index : [Done EXCEPT !.value = v] \in Outcome /\ [Done EXCEPT !.value = v].value = v
  /\ \A x \in BOOLEAN : [Done EXCEPT !.rejected = x] \in Outcome /\ [Done EXCEPT !.rejected = x].value = Nil
<1>1. Done = [rejected |-> FALSE, value |-> Nil] /\ Nil \in Index
  BY DEF Done, Index
<1>2. Done \in Outcome /\ Done.value = Nil
  BY <1>1 DEF Outcome
<1>3. PICK dn \in Outcome : dn = Done /\ dn.value = Nil
  BY <1>2
<1>4. ASSUME NEW v \in Index PROVE [dn EXCEPT !.value = v] \in Outcome /\ [dn EXCEPT !.value = v].value = v
  BY <1>3 DEF Outcome
<1>5. ASSUME NEW x \in BOOLEAN
      PROVE  [dn EXCEPT !.rejected = x] \in Outcome /\ [dn EXCEPT !.rejected = x].value = Nil
  BY <1>3 DEF Outcome
<1>6. QED
  BY <1>3, <1>4, <1>5

LEMMA PyReceiveWorks ==
  ASSUME BaseInv, PyServeReceive
  PROVE  \E c \in Call, m \in Request, st \in Pending \cup {"ended"}, i \in Index, o \in Call \cup {NoCall} :
           Works(c, m, st, i, o)
<1>1. PICK m \in Request : m = Head(toServer) /\ m.call \in Call
  BY Received DEF PyServeReceive
<1>2. PICK c \in Call : c = m.call
  BY <1>1
<1>3. Reads(m) /\ task' = [task EXCEPT ![c] = "ready"] /\ req' = [req EXCEPT ![c] = m]
  BY <1>1, <1>2 DEF PyServeReceive, Goes, Reads
<1>4. ready' = Append(ready, c) /\ result' = result /\ srv' = srv
  BY <1>1, <1>2 DEF PyServeReceive
<1>5. Leads(srv, srv', NoCall) /\ Effect(srv, srv', Nil, NoCall)
  BY <1>4, Contexts
<1>6. PICK st, i, o : st = "ready" /\ i = Nil /\ o = NoCall
  OBVIOUS
<1>7. /\ st \in {"ready", "called", "answer", "ended"} /\ i \in Index /\ o \in {c, NoCall}
      /\ st \in Pending \cup {"ended"} /\ st # "answer"
      /\ Effect(srv, srv', i, o) /\ task' = [task EXCEPT ![c] = st]
      /\ ready' = IF st = "ready" THEN Append(ready, c) ELSE ready
  BY <1>3, <1>4, <1>5, <1>6 DEF Index, Pending
<1>8. Works(c, m, st, i, o)
  <2>1. Leaving(c, st, i, o)
    BY <1>4, <1>7, Leavings
  <2>2. QED
    BY <1>2, <1>3, <1>4, <1>5, <1>6, <1>7, <2>1, WorksRead
<1>9. QED
  BY <1>7, <1>8

LEMMA TsReceiveWorks ==
  ASSUME BaseInv, TsServeReceive
  PROVE  \E c \in Call, m \in Request, st \in Pending \cup {"ended"}, i \in Index, o \in Call \cup {NoCall} :
           Works(c, m, st, i, o)
<1>1. PICK m \in Request : m = Head(toServer) /\ m.call \in Call /\ m \in Elems(toServer)
  BY Received DEF TsServeReceive
<1>2. PICK c \in Call : c = m.call
  BY <1>1
<1>3. Reads(m) /\ TsHandler(c, m) /\ req' = [req EXCEPT ![c] = m] /\ ready' = ready
  BY <1>1, <1>2 DEF TsServeReceive, Reads
<1>4. NoCall \notin Call /\ Nil \in Index
  BY RpcAssumption DEF Index
<1>5. /\ srv \in Context /\ Links(srv) /\ Hooks(srv)
      /\ Leads(srv, srv, NoCall) /\ Effect(srv, srv, Nil, NoCall)
      /\ \A u \in Closings(srv) : Leads(srv, u, NoCall) /\ Effect(srv, u, Nil, NoCall)
  BY Contexts
<1> DEFINE Goal == \E x \in Pending \cup {"ended"}, j \in Index, p \in Call \cup {NoCall} : Works(c, m, x, j, p)
<1>6. ASSUME NEW st \in {"called", "answer", "ended"}, NEW i \in Index, NEW o \in {c, NoCall},
             Leads(srv, srv', NoCall), Effect(srv, srv', i, o), Goes(c, st),
             i # Nil /\ o = NoCall => m.op = "freeRef" /\ i = m.index,
             Leaving(c, st, i, o)
      PROVE  Goal
  <2>1. task' = [task EXCEPT ![c] = st]
    BY <1>6 DEF Goes
  <2>2. /\ st \in {"ready", "called", "answer", "ended"} /\ st # "ready"
        /\ ready' = IF st = "ready" THEN Append(ready, c) ELSE ready
    BY <1>3
  <2>3. Works(c, m, st, i, o)
    BY <1>2, <1>3, <1>6, <2>1, <2>2, WorksRead
  <2>4. st \in Pending \cup {"ended"} /\ o \in Call \cup {NoCall}
    BY DEF Pending
  <2>5. QED
    BY <2>3, <2>4
<1>7. ASSUME NEW t, NEW v \in Index, NEW i \in Index, NEW o \in {c, NoCall}, Leaves(c, t, v),
             Leads(srv, t, NoCall), Effect(srv, t, i, o), v \in Given(c, i, o),
             i # Nil /\ o = NoCall => m.op = "freeRef" /\ i = m.index
      PROVE  Goal
  <2>1. srv' = t /\ Goes(c, "answer") /\ result' = [result EXCEPT ![c] = [Done EXCEPT !.value = v]]
    BY <1>7 DEF Leaves
  <2>2. Leaving(c, "answer", i, o)
    <3>1. PICK r \in Outcome : r = [Done EXCEPT !.value = v] /\ r.value = v
      BY DoneFacts
    <3>2. QED
      BY <1>7, <2>1, <3>1, Leavings
  <2>3. QED
    BY <1>6, <1>7, <2>1, <2>2
<1>8. ASSUME NEW st \in {"called", "ended"}, Goes(c, st), srv' \in {srv} \cup Closings(srv), result' = result
      PROVE  Goal
  <2>1. Leads(srv, srv', NoCall) /\ Effect(srv, srv', Nil, NoCall)
    BY <1>5, <1>8
  <2>2. Leaving(c, st, Nil, NoCall)
    BY <1>8, Leavings
  <2>3. PICK i, o : i = Nil /\ o = NoCall
    OBVIOUS
  <2>4. /\ i \in Index /\ o \in {c, NoCall} /\ st \in {"called", "answer", "ended"}
        /\ Effect(srv, srv', i, o) /\ Leaving(c, st, i, o)
    BY <1>4, <2>1, <2>2, <2>3
  <2>5. QED
    BY <1>6, <1>8, <2>1, <2>3, <2>4
<1>9. CASE Leaves(c, TsAllocRef(srv, c, FALSE), TsRoom(srv).freeRefEntry)
  <2>1. PICK i \in Nat : i = TsRoom(srv).freeRefEntry
    BY <1>5, AllocLeads
  <2>2. Leads(srv, TsAllocRef(srv, c, FALSE), NoCall) /\ Effect(srv, TsAllocRef(srv, c, FALSE), i, c)
    BY <1>5, <2>1, AllocLeads
  <2>3. i \in Index /\ i \in Given(c, i, c) /\ c # NoCall
    BY <1>4 DEF Index, Given
  <2>4. QED
    BY <1>7, <1>9, <2>1, <2>2, <2>3
<1>10. CASE Leaves(c, srv, Nil)
  <2>1. Nil \in Given(c, Nil, NoCall)
    BY DEF Given
  <2>2. QED
    BY <1>4, <1>5, <1>7, <1>10, <2>1
<1>11. CASE m.op = "freeRef" /\ Leaves(c, Release(srv, m.index), Nil)
  <2>1. PICK i \in DOMAIN srv.refPool : i = m.index
    BY <1>1, <1>11 DEF BaseInv, Indexed, Slots
  <2>2. i \in Index /\ Nil \in Given(c, i, NoCall)
    BY <1>5, PoolTypes DEF Index, Given
  <2>3. Leads(srv, Release(srv, i), NoCall) /\ Effect(srv, Release(srv, i), i, NoCall)
    BY <1>4, <1>5, ReleaseLeads
  <2>4. PICK t, v, o : t = Release(srv, i) /\ v = Nil /\ o = NoCall
    OBVIOUS
  <2>5. /\ v \in Index /\ o \in {c, NoCall} /\ Leaves(c, t, v) /\ v \in Given(c, i, o)
        /\ Leads(srv, t, NoCall) /\ Effect(srv, t, i, o)
        /\ m.op = "freeRef" /\ i = m.index
    BY <1>4, <1>11, <2>1, <2>2, <2>3, <2>4
  <2>6. QED
    BY <1>7, <2>2, <2>5
<1>12. CASE TsAborts(c)
  BY <1>8, <1>12 DEF TsAborts, Closings
<1>13. CASE srv' = srv /\ Goes(c, "ended") /\ result' = result
  BY <1>8, <1>13
<1>14. CASE TsEnter(c, m.index)
  <2>1. \E st \in {"called", "ended"} : Goes(c, st)
    BY <1>14 DEF TsEnter
  <2>2. srv' \in {srv} \cup Closings(srv) /\ result' = result
    BY <1>14 DEF TsEnter, Closings
  <2>3. QED
    BY <1>8, <2>1, <2>2
<1>15. \/ Leaves(c, TsAllocRef(srv, c, FALSE), TsRoom(srv).freeRefEntry)
       \/ Leaves(c, srv, Nil)
       \/ m.op = "freeRef" /\ Leaves(c, Release(srv, m.index), Nil)
       \/ TsAborts(c)
       \/ srv' = srv /\ Goes(c, "ended") /\ result' = result
       \/ TsEnter(c, m.index)
  BY <1>3 DEF TsHandler
<1>16. QED
  BY <1>9, <1>10, <1>11, <1>12, <1>13, <1>14, <1>15

LEMMA TsServerWorks ==
  ASSUME BaseInv, NEW c \in Call, TsCallReturns(c) \/ TsAnswers(c) \/ TsPollAgain(c)
  PROVE  \E st \in Pending \cup {"ended"}, i \in Index, o \in Call \cup {NoCall} :
           Works(c, req[c], st, i, o)
<1>1. NoCall \notin Call /\ Nil \in Index /\ {"called", "answer", "again"} \subseteq Pending
  BY RpcAssumption DEF Index, Pending
<1>2. /\ srv \in Context /\ Links(srv) /\ Hooks(srv)
      /\ Leads(srv, srv, NoCall) /\ Effect(srv, srv, Nil, NoCall)
      /\ \A u \in Closings(srv) : Leads(srv, u, NoCall) /\ Effect(srv, u, Nil, NoCall)
  BY Contexts
<1>3. /\ task[c] \in Pending /\ task[c] # "ready"
      /\ toServer' = toServer /\ req' = req /\ ready' = ready
  BY DEF TsCallReturns, TsAnswers, TsPollAgain, Pending, netVars
<1>4. /\ req[c] \in Request /\ req[c].call = c /\ req = [req EXCEPT ![c] = req[c]]
      /\ result \in [Call -> Outcome]
  BY <1>3, Continued
<1>5. CASE TsCallReturns(c)
  <2>1. task[c] = "called" /\ Goes(c, "answer") /\ toClient' = toClient
    BY <1>5 DEF TsCallReturns, Leaves, netVars
  <2>2. ASSUME NEW i \in Index, NEW o \in {c, NoCall}, NEW b \in {c, NoCall},
               Leads(srv, srv', b), Effect(srv, srv', i, o), b = c => Unborn(c),
               i = Nil \/ o = c, Leaving(c, "answer", i, o)
        PROVE  Works(c, req[c], "answer", i, o)
    <3>1. Births(c, req[c], "answer")
      BY <2>2 DEF Births
    <3>2. Continues(c, req[c])
      BY <1>3 DEF Continues
    <3>3. Queued(c, req[c], "answer")
      BY <1>3 DEF Queued
    <3>4. task' = [task EXCEPT ![c] = "answer"]
      BY <2>1 DEF Goes
    <3>5. c # NoCall
      BY <1>1
    <3>6. QED
      BY <1>1, <1>3, <1>4, <2>1, <2>2, <3>1, <3>2, <3>3, <3>4, <3>5 DEF Works
  <2>3. CASE req[c].op = "call" /\ Leaves(c, TsAllocRef(srv, c, TRUE), TsRoom(srv).freeRefEntry)
    <3>1. Unborn(c)
      BY <2>1, <2>3 DEF Unborn
    <3>2. NoHook(srv, c)
      BY <3>1 DEF BaseInv, HooksOK
    <3>3. PICK i \in Nat : i = TsRoom(srv).freeRefEntry
      BY <1>2, <3>2, AllocLeads
    <3>4. Leads(srv, TsAllocRef(srv, c, TRUE), c) /\ Effect(srv, TsAllocRef(srv, c, TRUE), i, c)
      BY <1>2, <3>2, <3>3, AllocLeads
    <3>5. i \in Index /\ i \in Given(c, i, c)
      BY DEF Index, Given
    <3>6. srv' = TsAllocRef(srv, c, TRUE) /\ result' = [result EXCEPT ![c] = [Done EXCEPT !.value = i]]
      BY <2>3, <3>3 DEF Leaves
    <3>7. PICK r \in Outcome : r = [Done EXCEPT !.value = i] /\ r.value = i
      BY <3>5, DoneFacts
    <3>8. Leaving(c, "answer", i, c)
      BY <3>5, <3>6, <3>7, Leavings
    <3>9. Works(c, req[c], "answer", i, c)
      BY <2>2, <3>1, <3>4, <3>5, <3>6, <3>8
    <3>10. QED
      BY <1>1, <3>5, <3>9
  <2>4. CASE /\ \E rejected \in BOOLEAN : result' = [result EXCEPT ![c] = [Done EXCEPT !.rejected = rejected]]
             /\ UNCHANGED srv
    <3>1. PICK r \in Outcome : result' = [result EXCEPT ![c] = r] /\ r.value = Nil
      BY <2>4, DoneFacts
    <3>2. Nil \in Given(c, Nil, NoCall)
      BY DEF Given
    <3>3. Leaving(c, "answer", Nil, NoCall)
      BY <3>1, <3>2, Leavings
    <3>4. PICK i, o : i = Nil /\ o = NoCall
      OBVIOUS
    <3>5. Leads(srv, srv', NoCall) /\ Effect(srv, srv', i, o) /\ i \in Index /\ o \in {c, NoCall}
      BY <1>1, <1>2, <2>4, <3>4
    <3>6. Works(c, req[c], "answer", i, o)
      BY <1>1, <2>2, <3>3, <3>4, <3>5
    <3>7. QED
      BY <1>1, <3>5, <3>6
  <2>5. QED
    BY <1>5, <2>3, <2>4 DEF TsCallReturns
<1>6. CASE TsAnswers(c)
  <2>1. PICK x \in Outcome : x = result[c]
    BY <1>4
  <2>2. IF req[c].sid = Signal THEN Silent(srv) ELSE Reply(srv, c, x, TsCloses(srv))
    BY <1>6, <2>1 DEF TsAnswers
  <2>3. PICK st \in {"ended", "again"} : /\ task' = [task EXCEPT ![c] = st]
                                         /\ st = "again" => req[c].op = "poll" /\ ~x.rejected
    BY <1>6, <2>1 DEF TsAnswers, Goes
  <2>4. task[c] = "answer" /\ UNCHANGED <<toServer, req, result>>
    BY <1>6 DEF TsAnswers
  <2>5. PICK b, i, o : b = NoCall /\ i = Nil /\ o = NoCall
    OBVIOUS
  <2>6. /\ b \in {c, NoCall} /\ o \in {c, NoCall} /\ i \in Index /\ b # c
        /\ Leads(srv, srv, b) /\ Effect(srv, srv, i, o)
    BY <1>1, <1>2, <2>5
  <2>7. Works(c, req[c], st, i, o)
    BY <1>3, <2>1, <2>2, <2>3, <2>4, <2>5, <2>6, WorksAnswer
  <2>8. QED
    BY <1>1, <2>3, <2>5, <2>6, <2>7
<1>7. CASE TsPollAgain(c)
  <2>1. task[c] = "again" /\ req[c].op = "poll"
    BY <1>7 DEF TsPollAgain, BaseInv, Kinds
  <2>2. /\ \E st \in {"ended", "called"} : task' = [task EXCEPT ![c] = st]
        /\ srv' \in {srv} \cup Closings(srv) /\ toClient' = toClient /\ result' = result
    BY <1>7 DEF TsPollAgain, TsEnter, Goes, netVars, Closings
  <2>3. PICK st \in {"ended", "called"} : task' = [task EXCEPT ![c] = st]
    BY <2>2
  <2>4. Leads(srv, srv', NoCall) /\ Effect(srv, srv', Nil, NoCall)
    BY <1>2, <2>2
  <2>5. Works(c, req[c], st, Nil, NoCall)
    BY <1>3, <2>1, <2>2, <2>3, <2>4, WorksQuiet
  <2>6. QED
    BY <1>1, <2>5
<1>8. QED
  BY <1>5, <1>6, <1>7

LEMMA ServerSteps ==
  ASSUME BaseInv, PyServerTask \/ TsServerTask
  PROVE  Serves
<1>1. /\ UNCHANGED <<pair, clientVars>>
      /\ \/ PyServeReceive \/ PyServeRaises \/ PyTaskBegins \/ PyServerStop
         \/ TsServeReceive \/ TsServeRaises
         \/ \E c \in Call : \/ PyCallReturns(c) \/ PyPollReturns(c) \/ PyPollAgain(c)
                            \/ TsCallReturns(c) \/ TsAnswers(c) \/ TsPollAgain(c)
  BY DEF PyServerTask, TsServerTask, PyServerRuns, TsServerRuns
<1>2. /\ srv \in Context /\ Links(srv) /\ Hooks(srv)
      /\ \A u \in Closings(srv) : Leads(srv, u, NoCall) /\ Effect(srv, u, Nil, NoCall)
  BY Contexts
<1>3. serve \in {"receive", "ended"} /\ rounds \in [Call -> Nat]
  BY DEF BaseInv, TypeOK, ServerTypes
<1>4. CASE PyServeRaises \/ TsServeRaises \/ PyServerStop
  <2>1. /\ UNCHANGED <<toServer, toClient, lost, ready, task, req, result>>
        /\ serve' \in {"receive", "ended"} /\ rounds' \in [Call -> Nat]
    BY <1>3, <1>4 DEF PyServeRaises, TsServeRaises, PyServerStop, netVars
  <2>2. Leads(srv, srv', NoCall) /\ Effect(srv, srv', Nil, NoCall)
    <3>1. CASE PyServeRaises \/ TsServeRaises
      BY <1>2, <3>1 DEF PyServeRaises, TsServeRaises, Closings
    <3>2. CASE PyServerStop
      BY <1>2, <3>2, StopLeads DEF PyServerStop
    <3>3. QED
      BY <1>4, <3>1, <3>2
  <2>3. QED
    BY <1>1, <2>1, <2>2 DEF Serves
<1>5. CASE PyServeReceive \/ TsServeReceive \/ PyTaskBegins
  <2>1. /\ lost' = lost /\ serve' \in {"receive", "ended"} /\ rounds' \in [Call -> Nat]
    BY <1>3, <1>5 DEF PyServeReceive, TsServeReceive, PyTaskBegins
  <2>2. \E c \in Call, m \in Request, st \in Pending \cup {"ended"}, i \in Index, o \in Call \cup {NoCall} :
           Works(c, m, st, i, o)
    <3>1. CASE PyServeReceive \/ TsServeReceive
      BY <3>1, PyReceiveWorks, TsReceiveWorks
    <3>2. CASE PyTaskBegins
      <4>1. PICK c \in Call, st \in Pending \cup {"ended"}, i \in Index, o \in Call \cup {NoCall} :
              Works(c, req[c], st, i, o)
        BY <3>2, PyTaskBeginsWorks
      <4>2. req[c] \in Request
        BY <4>1 DEF Works
      <4>3. QED
        BY <4>1, <4>2
    <3>3. QED
      BY <1>5, <3>1, <3>2
  <2>3. QED
    BY <1>1, <2>1, <2>2 DEF Serves
<1>6. ASSUME NEW c \in Call, \/ PyCallReturns(c) \/ PyPollReturns(c) \/ PyPollAgain(c)
                             \/ TsCallReturns(c) \/ TsAnswers(c) \/ TsPollAgain(c)
      PROVE  Serves
  <2>1. lost' = lost /\ serve' = serve
    BY <1>6 DEF PyCallReturns, PyPollReturns, PyPollAgain, TsCallReturns, TsAnswers, TsPollAgain, netVars
  <2>2. rounds' \in [Call -> Nat]
    <3>1. \/ rounds' = rounds
          \/ rounds' = [rounds EXCEPT ![c] = rounds[c] + 1]
      BY <1>6 DEF PyCallReturns, PyPollReturns, PyPollAgain, TsCallReturns, TsAnswers, TsPollAgain
    <3>2. rounds[c] + 1 \in Nat
      BY <1>3
    <3>3. QED
      BY <1>3, <3>1, <3>2
  <2>3. PICK st \in Pending \cup {"ended"}, i \in Index, o \in Call \cup {NoCall} :
           Works(c, req[c], st, i, o)
    BY <1>6, PyServerWorks, TsServerWorks
  <2>4. req[c] \in Request
    BY <2>3 DEF Works
  <2>5. QED
    BY <1>1, <1>3, <2>1, <2>2, <2>3, <2>4 DEF Serves
<1>7. QED
  BY <1>1, <1>4, <1>5, <1>6


-----------------------------------------------------------------------------
(* The server keeps BaseInv. *)

LEMMA WorksFacts ==
  ASSUME BaseInv, NEW c \in Call, NEW m \in Request, NEW st \in Pending \cup {"ended"},
         NEW i \in Index, NEW o \in Call \cup {NoCall}, Works(c, m, st, i, o)
  PROVE  /\ m.call = c /\ task'[c] = st /\ req'[c] = m
         /\ st # "none" /\ (st = "ready" => task[c] = "none")
         /\ \A d \in Call : d # c => task'[d] = task[d] /\ req'[d] = req[d] /\ result'[d] = result[d]
         /\ toServer' \in Seq(Request) /\ Once(toServer') /\ Elems(toServer') \subseteq Elems(toServer)
         /\ \A x \in Elems(toServer') \cup Elems(signals) : x.call # c
         /\ \/ m \in Elems(toServer) /\ task[c] = "none" /\ toClient' = toClient
            \/ task[c] \in Pending /\ m = req[c] /\ toServer' = toServer
         /\ pc[c] # "idle"
<1>1. /\ m.call = c /\ (Reads(m) \/ Continues(c, m))
      /\ task' = [task EXCEPT ![c] = st] /\ req' = [req EXCEPT ![c] = m]
      /\ Queued(c, m, st) /\ \A d \in Call : d # c => result'[d] = result[d]
  BY DEF Works, Leaving
<1>2. /\ DOMAIN task = Call /\ DOMAIN req = Call /\ toServer \in Seq(Request) /\ Once(toServer)
      /\ \A x \in Elems(toServer), y \in Elems(signals) : x.call # y.call
      /\ \A x \in Elems(toServer) \cup Elems(signals) : task[x.call] = "none" /\ pc[x.call] # "idle"
      /\ \A d \in Call : pc[d] = "idle" => task[d] = "none"
  BY DEF BaseInv, TypeOK, NetTypes, ServerTypes, OnePlace
<1>3. /\ task'[c] = st /\ req'[c] = m
      /\ \A d \in Call : d # c => task'[d] = task[d] /\ req'[d] = req[d] /\ result'[d] = result[d]
  BY <1>1, <1>2
<1>4. st # "none"
  BY DEF Pending
<1>5. CASE Reads(m)
  <2>1. toServer # <<>> /\ m = Head(toServer) /\ toServer' = Tail(toServer) /\ toClient' = toClient
    BY <1>5 DEF Reads
  <2>2. /\ toServer' \in Seq(Request) /\ Elems(toServer) = Elems(toServer') \cup {m}
        /\ Once(toServer') /\ \A x \in Elems(toServer') : x.call # c
    BY <1>1, <1>2, <2>1, ElemsTail, OnceTail
  <2>3. m \in Elems(toServer) /\ task[c] = "none" /\ pc[c] # "idle" /\ \A x \in Elems(signals) : x.call # c
    BY <1>1, <1>2, <2>2
  <2>4. QED
    BY <1>1, <1>3, <1>4, <2>1, <2>2, <2>3
<1>6. CASE Continues(c, m)
  <2>1. task[c] \in Pending /\ m = req[c] /\ toServer' = toServer /\ task[c] # "none"
    BY <1>6 DEF Continues, Pending
  <2>2. st # "ready"
    <3>1. CASE st = "ready" /\ toServer # <<>> /\ toServer' = Tail(toServer)
      BY <1>2, <2>1, <3>1, TailFacts
    <3>2. QED
      BY <1>1, <3>1 DEF Queued, Reads
  <2>3. QED
    BY <1>1, <1>2, <1>3, <1>4, <2>1, <2>2
<1>7. QED
  BY <1>1, <1>5, <1>6

(* The packet that is sent, if one is. *)
LEMMA WorksSends ==
  ASSUME BaseInv, NEW c \in Call, NEW m \in Request, NEW st \in Pending \cup {"ended"},
         NEW i \in Index, NEW o \in Call \cup {NoCall}, Works(c, m, st, i, o)
  PROVE  \/ toClient' = toClient
         \/ \E p \in Packet :
              /\ task[c] \in Pending /\ m = req[c] /\ m.sid # Signal
              /\ toClient' = Append(toClient, p) /\ toClient' \in Seq(Packet)
              /\ Elems(toClient') = Elems(toClient) \cup {p}
              /\ p.call = c /\ p.sid = m.sid
              /\ p.rejected \/ m.op # "poll" => st = "ended"
              /\ p.value \in Given(c, i, o) \/ (task[c] = "answer" /\ p.value = result[c].value)
<1>1. toClient \in Seq(Packet)
  BY DEF BaseInv, TypeOK, NetTypes
<1>2. CASE Answers(c, m, st, i, o)
  BY <1>1, <1>2, ElemsAppend DEF Answers, Continues
<1>3. QED
  BY <1>2 DEF Works

LEMMA WorksTypes ==
  ASSUME BaseInv, Serves, NEW c \in Call, NEW m \in Request, NEW st \in Pending \cup {"ended"},
         NEW i \in Index, NEW o \in Call \cup {NoCall}, Works(c, m, st, i, o)
  PROVE  TypeOK'
<1>1. /\ toServer' \in Seq(Request) /\ st # "none"
      /\ \A d \in Call : d # c => task'[d] = task[d] /\ req'[d] = req[d]
      /\ task'[c] = st /\ req'[c] = m
  BY WorksFacts
<1>2. /\ UNCHANGED <<pair, clientVars, lost>>
      /\ serve' \in {"receive", "ended"} /\ rounds' \in [Call -> Nat]
  BY DEF Serves
<1>3. toClient' \in Seq(Packet)
  <2>1. toClient \in Seq(Packet)
    BY DEF BaseInv, TypeOK, NetTypes
  <2>2. QED
    BY <2>1, WorksSends
<1>4. NetTypes'
  BY <1>1, <1>2, <1>3 DEF BaseInv, TypeOK, NetTypes
<1>5. pair' \in Pairs /\ ClientTypes'
  BY <1>2 DEF BaseInv, TypeOK, ClientTypes, clientVars
<1>6. /\ task \in [Call -> Pending \cup {"none", "ended"}]
      /\ req \in [Call -> Request \cup {NoRequest}]
      /\ \A d \in Call : task[d] # "none" => req[d] \in Request
      /\ ready \in Seq(Call)
  BY DEF BaseInv, TypeOK, ServerTypes
<1>7. task' = [task EXCEPT ![c] = st] /\ req' = [req EXCEPT ![c] = m] /\ result' \in [Call -> Outcome]
      /\ Queued(c, m, st) /\ Births(c, m, st)
  BY DEF Works, Leaving
<1>8. task' \in [Call -> Pending \cup {"none", "ended"}] /\ req' \in [Call -> Request \cup {NoRequest}]
  BY <1>6, <1>7
<1>9. \A d \in Call : task'[d] # "none" => req'[d] \in Request
  BY <1>1, <1>6
<1>10. ready' \in Seq(Call)
  <2>1. CASE ready' = Append(ready, c)
    BY <1>6, <2>1, AppendProperties
  <2>2. CASE ready # <<>> /\ ready' = Tail(ready)
    BY <1>6, <2>2, HeadTailProperties
  <2>3. QED
    BY <1>6, <1>7, <2>1, <2>2 DEF Queued
<1>11. srv' \in Context
  BY <1>7 DEF Births, Leads
<1>12. ServerTypes'
  BY <1>2, <1>7, <1>8, <1>9, <1>10, <1>11 DEF ServerTypes
<1>13. QED
  BY <1>4, <1>5, <1>12 DEF TypeOK


LEMMA WorksPlaces ==
  ASSUME BaseInv, Serves, NEW c \in Call, NEW m \in Request, NEW st \in Pending \cup {"ended"},
         NEW i \in Index, NEW o \in Call \cup {NoCall}, Works(c, m, st, i, o)
  PROVE  OnePlace' /\ Kinds'
<1>1. /\ m.call = c /\ task'[c] = st /\ req'[c] = m
      /\ st # "none" /\ (st = "ready" => task[c] = "none")
      /\ \A d \in Call : d # c => task'[d] = task[d] /\ req'[d] = req[d]
      /\ Once(toServer') /\ Elems(toServer') \subseteq Elems(toServer)
      /\ \A x \in Elems(toServer') \cup Elems(signals) : x.call # c
      /\ \/ m \in Elems(toServer) /\ task[c] = "none"
         \/ task[c] \in Pending /\ m = req[c]
      /\ pc[c] # "idle"
  BY WorksFacts
<1>2. pc' = pc /\ signals' = signals /\ kind' = kind /\ waiting' = waiting
  BY DEF Serves, clientVars
<1>3. /\ toServer \in Seq(Request) /\ signals \in Seq(Request) /\ toClient \in Seq(Packet)
      /\ waiting \in Seq(Entry) /\ ready \in Seq(Call)
  BY DEF BaseInv, TypeOK, NetTypes, ServerTypes, ClientTypes
<1>4. /\ \A x \in Elems(toServer) \cup Elems(signals) : x.call \in Call
      /\ \A x \in Elems(toClient) : x.call \in Call
      /\ Elems(ready) \subseteq Call
  <2>1. /\ Elems(toServer) \subseteq Request /\ Elems(signals) \subseteq Request
        /\ Elems(toClient) \subseteq Packet /\ Elems(ready) \subseteq Call
    <3>1. Elems(toServer) \subseteq Request /\ Elems(signals) \subseteq Request
      BY <1>3, InElems
    <3>2. Elems(toClient) \subseteq Packet
      BY <1>3, InElems
    <3>3. Elems(ready) \subseteq Call
      BY <1>3, InElems
    <3>4. QED
      BY <3>1, <3>2, <3>3
  <2>2. (\A x \in Request : x.call \in Call) /\ (\A x \in Packet : x.call \in Call)
    BY DEF Request, Packet
  <2>3. QED
    BY <2>1, <2>2
<1>5. /\ Once(signals)
      /\ \A x \in Elems(toServer), y \in Elems(signals) : x.call # y.call
      /\ \A x \in Elems(toServer) \cup Elems(signals) : task[x.call] = "none" /\ pc[x.call] # "idle"
      /\ \A d \in Call : pc[d] = "idle" => task[d] = "none"
      /\ \A x \in Elems(toClient) : task[x.call] # "none"
      /\ \A e \in Elems(waiting) : pc[e.call] # "idle"
      /\ \A j, k \in 1 .. Len(ready) : ready[j] = ready[k] => j = k
      /\ \A d \in Elems(ready) : task[d] = "ready"
  BY DEF BaseInv, OnePlace
<1>6. \A x \in Elems(toServer') \cup Elems(signals) : task'[x.call] = "none" /\ pc[x.call] # "idle"
  BY <1>1, <1>4, <1>5
<1>7. \A d \in Call : pc[d] = "idle" => task'[d] = "none"
  BY <1>1, <1>5
<1>8. \A x \in Elems(toClient') : task'[x.call] # "none"
  <2>1. \A x \in Elems(toClient) : task'[x.call] # "none"
    BY <1>1, <1>4, <1>5
  <2>2. toClient' = toClient \/ \E p \in Packet : Elems(toClient') = Elems(toClient) \cup {p} /\ p.call = c
    BY WorksSends
  <2>3. QED
    BY <1>1, <2>1, <2>2
<1>9. /\ \A j, k \in 1 .. Len(ready') : ready'[j] = ready'[k] => j = k
      /\ \A d \in Elems(ready') : task'[d] = "ready"
  <2>1. CASE st = "ready" /\ ready' = Append(ready, c)
    <3>1. c \notin Elems(ready)
      BY <1>1, <1>5, <2>1
    <3>2. Elems(ready') = Elems(ready) \cup {c}
      BY <1>3, <2>1, ElemsAppend
    <3>3. \A j, k \in 1 .. Len(ready') : ready'[j] = ready'[k] => j = k
      <4> DEFINE Alone(q) == \A j, k \in 1 .. Len(q) : q[j] = q[k] => j = k
      <4>1. Alone(Append(ready, c))
        <5>1. ready \in Seq(Call) /\ c \in Call /\ Alone(ready)
          BY <1>3, <1>5
        <5>2. QED
          BY <3>1, <5>1, NoRepeatSteps, Zenon
      <4>2. QED
        BY <2>1, <4>1
    <3>4. QED
      BY <1>1, <1>4, <1>5, <2>1, <3>2, <3>3
  <2>2. CASE task[c] # "ready" /\ ready' = ready
    BY <1>1, <1>4, <1>5, <2>2
  <2>3. CASE ready # <<>> /\ c = Head(ready) /\ ready' = Tail(ready)
    <3>1. Elems(ready') \subseteq Elems(ready) /\ c \notin Elems(ready')
      BY <1>3, <1>5, <2>3, ElemsTail, NoRepeatSteps
    <3>2. \A j, k \in 1 .. Len(ready') : ready'[j] = ready'[k] => j = k
      BY <1>3, <1>5, <2>3, NoRepeatSteps
    <3>3. QED
      BY <1>1, <1>4, <1>5, <3>1, <3>2
  <2>4. Queued(c, m, st)
    BY DEF Works
  <2>5. QED
    BY <2>1, <2>2, <2>3, <2>4 DEF Queued
<1>10. OnePlace'
  BY <1>1, <1>2, <1>5, <1>6, <1>7, <1>8, <1>9 DEF OnePlace
<1>11. /\ \A x \in Elems(toServer) : x.op = "poll" <=> kind[x.call] = "poll"
       /\ \A x \in Elems(signals) : x.op = "call" /\ x.sid = Signal /\ kind[x.call] = "signal"
       /\ \A d \in Call : task[d] # "none" => req[d].call = d /\ (req[d].op = "poll" <=> kind[d] = "poll")
       /\ \A d \in Call : task[d] = "again" => req[d].op = "poll"
       /\ \A e \in Elems(waiting) : e.callback <=> kind[e.call] = "poll"
       /\ \A d \in Call : /\ pc[d] = "waiting" => kind[d] # "poll"
                          /\ pc[d] = "polling" => kind[d] = "poll"
  BY DEF BaseInv, Kinds
<1>12. m.op = "poll" <=> kind[c] = "poll"
  <2>1. CASE m \in Elems(toServer)
    BY <1>1, <1>11, <2>1
  <2>2. CASE task[c] \in Pending /\ m = req[c]
    BY <1>11, <2>2 DEF Pending
  <2>3. QED
    BY <1>1, <2>1, <2>2
<1>13. st = "again" => m.op = "poll"
  BY DEF Works
<1>14. \A d \in Call : task'[d] # "none" => req'[d].call = d /\ (req'[d].op = "poll" <=> kind[d] = "poll")
  BY <1>1, <1>11, <1>12
<1>15. \A d \in Call : task'[d] = "again" => req'[d].op = "poll"
  BY <1>1, <1>11, <1>13
<1>16. Kinds'
  BY <1>1, <1>2, <1>11, <1>14, <1>15 DEF Kinds
<1>17. QED
  BY <1>10, <1>16

LEMMA WorksSlots ==
  ASSUME BaseInv, Serves, NEW c \in Call, NEW m \in Request, NEW st \in Pending \cup {"ended"},
         NEW i \in Index, NEW o \in Call \cup {NoCall}, Works(c, m, st, i, o)
  PROVE  Links(srv)' /\ Indexed' /\ HooksOK'
<1>1. /\ m.call = c /\ task'[c] = st /\ req'[c] = m
      /\ st = "ready" => task[c] = "none"
      /\ \A d \in Call : d # c => task'[d] = task[d] /\ req'[d] = req[d] /\ result'[d] = result[d]
      /\ Elems(toServer') \subseteq Elems(toServer)
      /\ \/ m \in Elems(toServer) /\ task[c] = "none"
         \/ task[c] \in Pending /\ m = req[c]
  BY WorksFacts
<1>2. handle' = handle /\ answer' = answer
  BY DEF Serves, clientVars
<1>3. PICK b \in {c, NoCall} : /\ Leads(srv, srv', b)
                               /\ b = c => Unborn(c) /\ st # "ready" /\ ~(st = "called" /\ m.op = "call")
  BY DEF Works, Births
<1>4. Links(srv') /\ Hooks(srv') /\ Slots \subseteq Slots'
  BY <1>3 DEF Leads, Slots
<1>5. Links(srv)'
  BY <1>4 DEF Links
<1>6. Given(c, i, o) \subseteq Slots' \cup {Nil}
  <2>1. i \in Slots' \cup {Nil}
    BY DEF Works, Effect, Slots
  <2>2. QED
    BY <2>1 DEF Given
<1>7. /\ \A d \in Call : {handle[d], answer[d].value, result[d].value} \subseteq Slots \cup {Nil}
      /\ \A x \in Elems(toClient) : x.value \in Slots \cup {Nil}
      /\ \A x \in Elems(toServer) : x.op = "freeRef" => x.index \in Slots
      /\ \A d \in Call : task[d] = "ready" /\ req[d].op = "freeRef" => req[d].index \in Slots
  BY DEF BaseInv, Indexed
<1>8. \A d \in Call : result'[d].value \in Slots' \cup {Nil}
  <2>1. result'[c] = result[c] \/ result'[c].value \in Given(c, i, o)
    BY DEF Works, Leaving
  <2>2. result'[c].value \in Slots' \cup {Nil}
    BY <1>4, <1>6, <1>7, <2>1
  <2>3. QED
    BY <1>1, <1>4, <1>7, <2>2
<1>9. \A x \in Elems(toClient') : x.value \in Slots' \cup {Nil}
  <2>1. \/ toClient' = toClient
        \/ \E p \in Packet : /\ Elems(toClient') = Elems(toClient) \cup {p}
                             /\ p.value \in Given(c, i, o) \/ p.value = result[c].value
    BY WorksSends
  <2>2. \A x \in Elems(toClient) : x.value \in Slots' \cup {Nil}
    BY <1>4, <1>7
  <2>3. result[c].value \in Slots' \cup {Nil}
    BY <1>4, <1>7
  <2>4. QED
    BY <1>6, <2>1, <2>2, <2>3
<1>10. /\ \A x \in Elems(toServer') : x.op = "freeRef" => x.index \in Slots'
       /\ \A d \in Call : task'[d] = "ready" /\ req'[d].op = "freeRef" => req'[d].index \in Slots'
  <2>1. st = "ready" /\ m.op = "freeRef" => m.index \in Slots
    BY <1>1, <1>7 DEF Pending
  <2>2. QED
    BY <1>1, <1>4, <1>7, <2>1
<1>11. Indexed'
  <2>1. \A d \in Call : handle[d] \in Slots' \cup {Nil} /\ answer[d].value \in Slots' \cup {Nil}
    BY <1>4, <1>7
  <2>2. \A d \in Call : {handle'[d], answer'[d].value, result'[d].value} \subseteq Slots' \cup {Nil}
    BY <1>2, <1>8, <2>1
  <2>3. QED
    BY <1>9, <1>10, <2>2 DEF Indexed
<1>12. ASSUME NEW d \in Call, Unborn(d)' PROVE NoHook(srv', d)
  <2>1. Unborn(d) /\ d # b
    <3>1. CASE d = c
      <4>1. st = "ready" \/ (st = "called" /\ m.op = "call")
        BY <1>1, <1>12, <3>1 DEF Unborn, Pending
      <4>2. st = "called" /\ m.op = "call" => Unborn(c)
        BY DEF Works
      <4>3. st = "ready" => Unborn(c)
        BY <1>1 DEF Unborn
      <4>4. QED
        BY <1>3, <3>1, <4>1, <4>2, <4>3
    <3>2. CASE d # c
      <4>1. Unborn(d)
        BY <1>1, <1>12, <3>2 DEF Unborn
      <4>2. d # NoCall
        BY RpcAssumption
      <4>3. QED
        BY <1>3, <3>2, <4>1, <4>2
    <3>3. QED
      BY <3>1, <3>2
  <2>2. NoHook(srv, d)
    BY <2>1 DEF BaseInv, HooksOK
  <2>3. QED
    BY <1>3, <2>1, <2>2 DEF Leads
<1>13. HooksOK'
  BY <1>4, <1>12 DEF HooksOK, Hooks, NoHook
<1>14. QED
  BY <1>5, <1>11, <1>13


LEMMA Members ==
  ASSUME TypeOK
  PROVE  /\ Elems(toServer) \subseteq Request /\ Elems(signals) \subseteq Request
         /\ Elems(toClient) \subseteq Packet /\ Elems(waiting) \subseteq Entry
         /\ Elems(ready) \subseteq Call
         /\ \A x \in Elems(toServer) \cup Elems(signals) : x.call \in Call
         /\ \A x \in Elems(toClient) : x.call \in Call
         /\ \A e \in Elems(waiting) : e.call \in Call /\ e.sid \in Sid
<1>1. /\ toServer \in Seq(Request) /\ signals \in Seq(Request) /\ toClient \in Seq(Packet)
      /\ waiting \in Seq(Entry) /\ ready \in Seq(Call)
  BY DEF TypeOK, NetTypes, ServerTypes, ClientTypes
<1>2. Elems(toServer) \subseteq Request /\ Elems(signals) \subseteq Request
  BY <1>1, InElems
<1>3. Elems(toClient) \subseteq Packet
  BY <1>1, InElems
<1>4. Elems(waiting) \subseteq Entry
  BY <1>1, InElems
<1>5. Elems(ready) \subseteq Call
  BY <1>1, InElems
<1>6. /\ \A x \in Request : x.call \in Call
      /\ \A x \in Packet : x.call \in Call
      /\ \A e \in Entry : e.call \in Call /\ e.sid \in Sid
  BY DEF Request, Packet, Entry
<1>7. QED
  BY <1>2, <1>3, <1>4, <1>5, <1>6

LEMMA ServerIdles ==
  ASSUME BaseInv, Serves, UNCHANGED <<toServer, toClient, ready, task, req, result>>,
         Leads(srv, srv', NoCall)
  PROVE  BaseInv'
<1>1. /\ pair' = pair /\ lost' = lost /\ UNCHANGED clientVars
      /\ serve' \in {"receive", "ended"} /\ rounds' \in [Call -> Nat]
  BY DEF Serves
<1>2. srv' \in Context /\ Links(srv') /\ Hooks(srv') /\ Slots \subseteq Slots'
      /\ \A d \in Call : NoHook(srv, d) => NoHook(srv', d)
  BY RpcAssumption DEF Leads, Slots
<1>3. TypeOK'
  <2>1. NetTypes' /\ ClientTypes' /\ pair' \in Pairs
    BY <1>1 DEF BaseInv, TypeOK, NetTypes, ClientTypes, clientVars
  <2>2. ServerTypes'
    BY <1>1, <1>2 DEF BaseInv, TypeOK, ServerTypes
  <2>3. QED
    BY <2>1, <2>2 DEF TypeOK
<1>4. OnePlace' /\ Kinds'
  BY <1>1 DEF BaseInv, OnePlace, Kinds, clientVars
<1>5. Indexed'
  <2>1. handle' = handle /\ answer' = answer
    BY <1>1 DEF clientVars
  <2>2. \A x \in Slots \cup {Nil} : x \in Slots' \cup {Nil}
    BY <1>2
  <2>3. \A d \in Call : {handle[d], answer[d].value, result[d].value} \subseteq Slots' \cup {Nil}
    BY <2>2 DEF BaseInv, Indexed
  <2>4. /\ \A m \in Elems(toClient) : m.value \in Slots' \cup {Nil}
        /\ \A m \in Elems(toServer) : m.op = "freeRef" => m.index \in Slots'
        /\ \A c \in Call : task[c] = "ready" /\ req[c].op = "freeRef" => req[c].index \in Slots'
    BY <1>2, <2>2 DEF BaseInv, Indexed
  <2>5. QED
    BY <2>1, <2>3, <2>4 DEF Indexed
<1>6. HooksOK'
  <2>1. \A d \in Call : Unborn(d)' => NoHook(srv', d)
    BY <1>2 DEF BaseInv, HooksOK, Unborn
  <2>2. QED
    BY <1>2, <2>1 DEF HooksOK, Hooks, NoHook
<1>7. Links(srv)'
  BY <1>2 DEF Links
<1>8. QED
  BY <1>3, <1>4, <1>5, <1>6, <1>7 DEF BaseInv

LEMMA ServerBase ==
  ASSUME BaseInv, Serves
  PROVE  BaseInv'
<1>1. CASE /\ UNCHANGED <<toServer, toClient, ready, task, req, result>>
           /\ Leads(srv, srv', NoCall)
  BY <1>1, ServerIdles
<1>2. ASSUME NEW c \in Call, NEW m \in Request, NEW st \in Pending \cup {"ended"}, NEW i \in Index,
             NEW o \in Call \cup {NoCall}, Works(c, m, st, i, o)
      PROVE  BaseInv'
  <2>1. TypeOK'
    BY <1>2, WorksTypes
  <2>2. OnePlace' /\ Kinds'
    BY <1>2, WorksPlaces
  <2>3. Links(srv)' /\ Indexed' /\ HooksOK'
    BY <1>2, WorksSlots
  <2>4. QED
    BY <2>1, <2>2, <2>3 DEF BaseInv
<1>3. QED
  BY <1>1, <1>2 DEF Serves


-----------------------------------------------------------------------------
(* The table. *)

LEMMA RemoveSpec ==
  ASSUME NEW S, NEW q \in Seq(S), NEW i \in 1 .. Len(q)
  PROVE  /\ RemoveAt(q, i) \in Seq(S) /\ Len(RemoveAt(q, i)) = Len(q) - 1
         /\ \A k \in 1 .. Len(q) - 1 :
              RemoveAt(q, i)[k] = IF k < i THEN q[k] ELSE q[k + 1]
<1>1. Len(q) \in Nat
  BY LenProperties
<1>2. /\ SubSeq(q, 1, i - 1) \in Seq(S) /\ Len(SubSeq(q, 1, i - 1)) = i - 1
      /\ \A k \in 1 .. i - 1 : SubSeq(q, 1, i - 1)[k] = q[k]
  BY <1>1, SubSeqProperties
<1>3. /\ SubSeq(q, i + 1, Len(q)) \in Seq(S) /\ Len(SubSeq(q, i + 1, Len(q))) = Len(q) - i
      /\ \A k \in 1 .. Len(q) - i : SubSeq(q, i + 1, Len(q))[k] = q[i + k]
  BY <1>1, SubSeqProperties
<1>4. RemoveAt(q, i) = SubSeq(q, 1, i - 1) \o SubSeq(q, i + 1, Len(q))
  BY DEF RemoveAt
<1>5. /\ RemoveAt(q, i) \in Seq(S) /\ Len(RemoveAt(q, i)) = Len(q) - 1
      /\ \A k \in 1 .. Len(q) - 1 : RemoveAt(q, i)[k] =
           IF k <= i - 1 THEN SubSeq(q, 1, i - 1)[k] ELSE SubSeq(q, i + 1, Len(q))[k - (i - 1)]
  <2> DEFINE a == SubSeq(q, 1, i - 1)
             b == SubSeq(q, i + 1, Len(q))
  <2>1. a \in Seq(S) /\ b \in Seq(S) /\ Len(a) = i - 1 /\ Len(b) = Len(q) - i
    BY <1>2, <1>3
  <2>2. RemoveAt(q, i) = a \o b
    BY <1>4
  <2> HIDE DEF a, b
  <2>3. Len(a) + Len(b) = Len(q) - 1
    BY <1>1, <2>1
  <2>4. /\ a \o b \in Seq(S) /\ Len(a \o b) = Len(a) + Len(b)
        /\ \A k \in 1 .. Len(a) + Len(b) : (a \o b)[k] = IF k <= Len(a) THEN a[k] ELSE b[k - Len(a)]
    BY <2>1, ConcatProperties
  <2>5. /\ RemoveAt(q, i) \in Seq(S) /\ Len(RemoveAt(q, i)) = Len(q) - 1
        /\ \A k \in 1 .. Len(q) - 1 : RemoveAt(q, i)[k] = IF k <= i - 1 THEN a[k] ELSE b[k - (i - 1)]
    BY <2>1, <2>2, <2>3, <2>4
  <2>6. QED
    BY <2>5 DEF a, b
<1>6. ASSUME NEW k \in 1 .. Len(q) - 1
      PROVE  RemoveAt(q, i)[k] = IF k < i THEN q[k] ELSE q[k + 1]
  <2>1. CASE k < i
    <3>1. k \in 1 .. i - 1 /\ k <= i - 1
      BY <1>1, <2>1
    <3>2. QED
      BY <1>2, <1>5, <2>1, <3>1
  <2>2. CASE ~(k < i)
    <3>1. k - (i - 1) \in 1 .. Len(q) - i /\ ~(k <= i - 1) /\ i + (k - (i - 1)) = k + 1
      BY <1>1, <2>2
    <3>2. QED
      BY <1>3, <1>5, <2>2, <3>1
  <2>3. QED
    BY <2>1, <2>2
<1>7. QED
  BY <1>5, <1>6

(* Of entries with different session ids one can be put, with its own, or  *)
(* be taken out.                                                           *)
Unique(w) == \A j, k \in 1 .. Len(w) : w[j].sid = w[k].sid => j = k

LEMMA PutFacts ==
  ASSUME NEW w \in Seq(Entry), NEW e \in Entry
  PROVE  /\ Put(w, e) \in Seq(Entry)
         /\ Elems(Put(w, e)) = {f \in Elems(w) : f.sid # e.sid} \cup {e}
         /\ Unique(w) => Unique(Put(w, e))
<1>1. PICK n \in Nat : n = Len(w) /\ w \in [1 .. n -> Entry]
  BY LenProperties
<1>2. CASE \E k \in 1 .. n : w[k].sid = e.sid
  <2> DEFINE p == [k \in 1 .. n |-> IF w[k].sid = e.sid THEN e ELSE w[k]]
  <2>1. Put(w, e) = p
    BY <1>1, <1>2 DEF Put
  <2>2. p \in [1 .. n -> Entry]
    BY <1>1
  <2>3. \A k \in 1 .. n : p[k] = IF w[k].sid = e.sid THEN e ELSE w[k]
    OBVIOUS
  <2> HIDE DEF p
  <2>4. p \in Seq(Entry) /\ Len(p) = n
    BY <1>1, <2>2, IsASeq, LenProperties
  <2>5. \A k \in 1 .. n : p[k].sid = w[k].sid
    BY <2>3
  <2>6. Elems(p) = {f \in Elems(w) : f.sid # e.sid} \cup {e}
    BY <1>1, <1>2, <2>3, <2>4 DEF Elems
  <2>7. Unique(w) => Unique(p)
    BY <1>1, <2>4, <2>5 DEF Unique
  <2>8. QED
    BY <2>1, <2>4, <2>6, <2>7
<1>3. CASE ~\E k \in 1 .. n : w[k].sid = e.sid
  <2> DEFINE p == Append(w, e)
  <2>1. Put(w, e) = p
    BY <1>1, <1>3 DEF Put
  <2>2. p \in Seq(Entry) /\ Elems(p) = Elems(w) \cup {e}
    BY ElemsAppend
  <2>3. Len(p) = n + 1 /\ p[n + 1] = e /\ \A k \in 1 .. n : p[k] = w[k]
    BY <1>1, AppendProperties
  <2> HIDE DEF p
  <2>4. \A f \in Elems(w) : f.sid # e.sid
    BY <1>1, <1>3 DEF Elems
  <2>5. ASSUME Unique(w), NEW j \in 1 .. n + 1, NEW k \in 1 .. n + 1, p[j].sid = p[k].sid
        PROVE  j = k
    <3>1. \A x \in 1 .. n + 1 : x \in 1 .. n \/ x = n + 1
      BY <1>1
    <3>2. CASE j \in 1 .. n /\ k \in 1 .. n
      BY <1>1, <2>3, <2>5, <3>2 DEF Unique
    <3>3. CASE j \in 1 .. n /\ k = n + 1
      BY <1>3, <2>3, <2>5, <3>3
    <3>4. CASE j = n + 1 /\ k \in 1 .. n
      BY <1>3, <2>3, <2>5, <3>4
    <3>5. QED
      BY <3>1, <3>2, <3>3, <3>4
  <2>6. QED
    BY <2>1, <2>2, <2>3, <2>4, <2>5 DEF Unique
<1>4. QED
  BY <1>2, <1>3

LEMMA WithoutFacts ==
  ASSUME NEW w \in Seq(Entry), NEW sid
  PROVE  /\ Without(w, sid) \in Seq(Entry) /\ Elems(Without(w, sid)) \subseteq Elems(w)
         /\ Unique(w) => /\ Unique(Without(w, sid))
                         /\ Elems(Without(w, sid)) = {f \in Elems(w) : f.sid # sid}
<1>1. PICK n \in Nat : n = Len(w)
  BY LenProperties
<1>2. CASE \E k \in 1 .. n : w[k].sid = sid
  <2>1. PICK i \in 1 .. n : w[i].sid = sid /\ Without(w, sid) = RemoveAt(w, i)
    <3>1. (CHOOSE k \in 1 .. n : w[k].sid = sid) \in 1 .. n /\ w[CHOOSE k \in 1 .. n : w[k].sid = sid].sid = sid
      BY <1>2
    <3>2. Without(w, sid) = RemoveAt(w, CHOOSE k \in 1 .. n : w[k].sid = sid)
      BY <1>1, <1>2 DEF Without
    <3>3. QED
      BY <3>1, <3>2
  <2> DEFINE p == RemoveAt(w, i)
  <2>2. /\ p \in Seq(Entry) /\ Len(p) = n - 1
        /\ \A k \in 1 .. n - 1 : p[k] = IF k < i THEN w[k] ELSE w[k + 1]
    BY <1>1, RemoveSpec
  <2> HIDE DEF p
  <2>3. ASSUME NEW k \in 1 .. n - 1
        PROVE  \E l \in 1 .. n : /\ l = IF k < i THEN k ELSE k + 1
                                 /\ l # i /\ p[k] = w[l]
    <3>1. k \in 1 .. n /\ k + 1 \in 1 .. n /\ (k < i => k # i) /\ (~(k < i) => k + 1 # i)
      BY <1>1
    <3>2. QED
      BY <2>2, <3>1
  <2>4. Elems(p) \subseteq Elems(w)
    BY <1>1, <2>2, <2>3 DEF Elems
  <2>5. ASSUME Unique(w) PROVE Unique(p) /\ Elems(p) = {f \in Elems(w) : f.sid # sid}
    <3>1. ASSUME NEW j \in 1 .. n - 1, NEW k \in 1 .. n - 1, p[j].sid = p[k].sid PROVE j = k
      <4>1. PICK a \in 1 .. n : a = (IF j < i THEN j ELSE j + 1) /\ p[j] = w[a]
        BY <2>3
      <4>2. PICK b \in 1 .. n : b = (IF k < i THEN k ELSE k + 1) /\ p[k] = w[b]
        BY <2>3
      <4>3. a = b
        BY <1>1, <2>5, <3>1, <4>1, <4>2 DEF Unique
      <4>4. QED
        BY <1>1, <4>1, <4>2, <4>3
    <3>2. \A f \in Elems(p) : f.sid # sid
      BY <1>1, <2>1, <2>2, <2>3, <2>5 DEF Elems, Unique
    <3>3. ASSUME NEW l \in 1 .. n, w[l].sid # sid PROVE w[l] \in Elems(p)
      <4>1. l # i
        BY <2>1, <3>3
      <4>2. CASE l < i
        <5>1. l \in 1 .. n - 1
          BY <4>2
        <5>2. QED
          BY <2>2, <4>2, <5>1 DEF Elems
      <4>3. CASE ~(l < i)
        <5>1. l - 1 \in 1 .. n - 1 /\ ~(l - 1 < i) /\ (l - 1) + 1 = l
          BY <4>1, <4>3
        <5>2. QED
          BY <2>2, <5>1 DEF Elems
      <4>4. QED
        BY <4>2, <4>3
    <3>4. Unique(p)
      BY <2>2, <3>1 DEF Unique
    <3>5. \A f \in Elems(w) : f.sid # sid => f \in Elems(p)
      BY <1>1, <3>3 DEF Elems
    <3>6. QED
      BY <2>4, <3>2, <3>4, <3>5
  <2>6. QED
    BY <2>1, <2>2, <2>4, <2>5 DEF p
<1>3. CASE ~\E k \in 1 .. n : w[k].sid = sid
  <2>1. Without(w, sid) = w
    BY <1>1, <1>3 DEF Without
  <2>2. \A f \in Elems(w) : f.sid # sid
    BY <1>1, <1>3 DEF Elems
  <2>3. QED
    BY <2>1, <2>2
<1>4. QED
  BY <1>2, <1>3

(* The entries of D are marked as done. *)
Marked(w, D) == [k \in 1 .. Len(w) |-> [w[k] EXCEPT !.done = @ \/ w[k].call \in D]]

LEMMA MarkFacts ==
  ASSUME NEW w \in Seq(Entry), NEW D, NEW v, v = Marked(w, D)
  PROVE  /\ v \in Seq(Entry) /\ Len(v) = Len(w)
         /\ \A k \in 1 .. Len(w) :
              /\ v[k].sid = w[k].sid /\ v[k].call = w[k].call /\ v[k].callback = w[k].callback
              /\ v[k].done <=> w[k].done \/ w[k].call \in D
<1>1. PICK n \in Nat : n = Len(w) /\ w \in [1 .. n -> Entry]
  BY LenProperties
<1>2. \A k \in 1 .. n : v[k] = [w[k] EXCEPT !.done = (w[k].done \/ w[k].call \in D)]
  BY <1>1 DEF Marked
<1>3. \A k \in 1 .. n : w[k] \in Entry /\ (w[k].done \/ w[k].call \in D) \in BOOLEAN
  BY <1>1 DEF Entry
<1>4. ASSUME NEW k \in 1 .. n
      PROVE  /\ v[k] \in Entry
             /\ v[k].sid = w[k].sid /\ v[k].call = w[k].call /\ v[k].callback = w[k].callback
             /\ v[k].done <=> w[k].done \/ w[k].call \in D
  <2>1. PICK e \in Entry, b \in BOOLEAN : e = w[k] /\ b = (w[k].done \/ w[k].call \in D)
    BY <1>3
  <2>2. v[k] = [e EXCEPT !.done = b]
    BY <1>2, <2>1
  <2>3. v[k] \in Entry /\ v[k].sid = e.sid /\ v[k].call = e.call /\ v[k].callback = e.callback
        /\ v[k].done = b
    <3>1. PICK x : x = v[k]
      OBVIOUS
    <3>2. x = [e EXCEPT !.done = b]
      BY <2>2, <3>1
    <3>3. x \in Entry /\ x.sid = e.sid /\ x.call = e.call /\ x.callback = e.callback /\ x.done = b
      BY <3>2 DEF Entry
    <3>4. QED
      BY <3>1, <3>3
  <2>4. QED
    BY <2>1, <2>3
<1>5. v \in [1 .. n -> Entry]
  <2>1. DOMAIN v = 1 .. n /\ v = [k \in 1 .. n |-> v[k]]
    BY <1>1 DEF Marked
  <2>2. QED
    BY <1>4, <2>1
<1>6. v \in Seq(Entry) /\ Len(v) = n
  BY <1>1, <1>5, IsASeq, LenProperties
<1>7. QED
  BY <1>1, <1>4, <1>6


-----------------------------------------------------------------------------
(* The operation c of kind k begins, on the object that h returned: its    *)
(* request m is sent, left to a task that is to send it, or lost.          *)
Asks(c, k, m) ==
  /\ m.call = c /\ (m.op = "poll" <=> k = "poll") /\ (m.op = "freeRef" <=> k = "freeRef")
  /\ kind' = [kind EXCEPT ![c] = k]
  /\ pc[c] = "idle" /\ pc' = [pc EXCEPT ![c] = pc'[c]]
  /\ pc'[c] \in {"waiting", "polling", "raised", "returned"}
  /\ pc'[c] = "waiting" => k # "poll"
  /\ pc'[c] = "polling" => k = "poll"
  /\ toServer' = toServer \/ (~Down /\ toServer' = Append(toServer, m))
  /\ k = "poll" => toServer' = toServer \/ pc'[c] = "polling"

Enters(c, k, m) ==
  \/ /\ waiting' = waiting /\ mySid' = mySid /\ pc'[c] \in {"raised", "returned"}
     /\ m.sid = Signal \/ toServer' = toServer
  \/ /\ Free \in Sid /\ m.sid = Free /\ (StaleReuse \/ ~Outstanding(Free))
     /\ mySid' = [mySid EXCEPT ![c] = Free]
     /\ pc'[c] = "raised" \/ Free \in usedSid'
     /\ \E e \in Entry : /\ e.sid = Free /\ e.call = c /\ (e.callback <=> k = "poll")
                         /\ waiting' = Put(waiting, e)

Keeps(c, k, h, m) ==
  /\ k \in {"freeRef", "poll"} => handle[h] # Nil /\ m.index = handle[h]
  /\ pollOn' = pollOn \/ (k = "poll" /\ pollOn' = [pollOn EXCEPT ![c] = h])
  /\ k = "poll" => toServer' = toServer \/ pollOn' = [pollOn EXCEPT ![c] = h]
  /\ handle' = handle \/ (k = "freeRef" /\ handle' = [handle EXCEPT ![h] = Nil])
  /\ k = "freeRef" => /\ \A d \in Call : pc[d] = "polling" => pollOn[d] # h
                      /\ toServer' = toServer \/ handle' = [handle EXCEPT ![h] = Nil]

Begins(c, k, h, m) ==
  /\ UNCHANGED <<pair, serverVars, answer>> /\ ClientTypes'
  /\ Asks(c, k, m) /\ Enters(c, k, m) /\ Keeps(c, k, h, m)
  /\ usedSid \subseteq usedSid' /\ loop' \in {loop, "ended"}
  /\ \/ signals' = signals
     \/ /\ k = "signal" /\ m.op = "call" /\ m.sid = Signal
        /\ toServer' = toServer /\ signals' = Append(signals, m)
  /\ k = "signal" => m.sid = Signal
  /\ \/ toClient' = toClient /\ lost' = lost
     \/ \E n \in 0 .. Len(toClient) : toClient' = SubSeq(toClient, 1, n) /\ lost' = TRUE

LEMMA AskingFor ==
  ASSUME BaseInv, NEW c \in Call, pc[c] = "idle", NEW k \in {"getFunc", "call", "poll", "freeRef"},
         NEW index \in Index,
         \/ \E raises \in BOOLEAN : Registers(c, k, Free, index, raises) /\ (raises \/ Free \in usedSid')
         \/ Refused(c, k)
  PROVE  \E m \in Request :
           /\ m.index = index /\ Asks(c, k, m) /\ Enters(c, k, m)
           /\ waiting' \in Seq(Entry) /\ kind' \in [Call -> Kind] /\ mySid' \in [Call -> AnySid]
           /\ pc' \in [Call -> {"idle", "waiting", "polling", "raised", "returned", "cancelled"}]
<1>1. /\ waiting \in Seq(Entry) /\ kind \in [Call -> Kind] /\ mySid \in [Call -> AnySid]
      /\ pc \in [Call -> {"idle", "waiting", "polling", "raised", "returned", "cancelled"}]
      /\ Free = 0 \/ Free \in Sid
  BY FreeSid DEF BaseInv, TypeOK, ClientTypes
<1>2. k \in Op /\ k \in Kind /\ Signal \in AnySid /\ Sid \subseteq AnySid
  BY DEF Op, Kind, AnySid
<1>3. ASSUME NEW sid \in AnySid
      PROVE  \E m \in Request : m.call = c /\ m.op = k /\ m.sid = sid /\ m.index = index
                                /\ m = [call |-> c, op |-> k, sid |-> sid, index |-> index]
  <2>1. PICK m : m = [call |-> c, op |-> k, sid |-> sid, index |-> index]
    OBVIOUS
  <2>2. m \in Request
    BY <1>2, <2>1 DEF Request
  <2>3. QED
    BY <2>1, <2>2
<1>4. ASSUME kind' = [kind EXCEPT ![c] = k] PROVE kind' \in [Call -> Kind]
  BY <1>1, <1>2, <1>4
<1>5. ASSUME NEW st \in {"waiting", "polling", "raised", "returned"}, pc' = [pc EXCEPT ![c] = st]
      PROVE  /\ pc' \in [Call -> {"idle", "waiting", "polling", "raised", "returned", "cancelled"}]
             /\ pc'[c] = st
  BY <1>1, <1>5
<1>6. ASSUME NEW raises \in BOOLEAN, Registers(c, k, Free, index, raises), raises \/ Free \in usedSid'
      PROVE  \E m \in Request :
               /\ m.index = index /\ Asks(c, k, m) /\ Enters(c, k, m)
               /\ waiting' \in Seq(Entry) /\ kind' \in [Call -> Kind] /\ mySid' \in [Call -> AnySid]
               /\ pc' \in [Call -> {"idle", "waiting", "polling", "raised", "returned", "cancelled"}]
  <2>1. /\ Free \in Sid /\ (StaleReuse \/ ~Outstanding(Free))
        /\ kind' = [kind EXCEPT ![c] = k] /\ mySid' = [mySid EXCEPT ![c] = Free]
        /\ waiting' = Put(waiting, [sid |-> Free, call |-> c, callback |-> k = "poll", done |-> FALSE])
        /\ SendRequest([call |-> c, op |-> k, sid |-> Free, index |-> index], raises)
        /\ pc' = [pc EXCEPT ![c] = IF raises THEN "raised"
                                   ELSE IF k = "poll" THEN "polling" ELSE "waiting"]
    BY <1>1, <1>6 DEF Registers
  <2>2. PICK sid \in Sid : sid = Free
    BY <2>1
  <2>3. PICK e \in Entry : /\ e.sid = sid /\ e.call = c /\ (e.callback <=> k = "poll")
                           /\ waiting' = Put(waiting, e)
    <3>1. PICK e : e = [sid |-> sid, call |-> c, callback |-> k = "poll", done |-> FALSE]
      OBVIOUS
    <3>2. e \in Entry /\ e.sid = sid /\ e.call = c /\ (e.callback <=> k = "poll")
      BY <3>1 DEF Entry
    <3>3. waiting' = Put(waiting, e)
      BY <2>1, <2>2, <3>1
    <3>4. QED
      BY <3>2, <3>3
  <2>4. PICK m \in Request : m.call = c /\ m.op = k /\ m.sid = sid /\ m.index = index
                             /\ SendRequest(m, raises)
    <3>1. PICK m \in Request : m.call = c /\ m.op = k /\ m.sid = sid /\ m.index = index
                               /\ m = [call |-> c, op |-> k, sid |-> sid, index |-> index]
      BY <1>2, <1>3
    <3>2. SendRequest(m, raises)
      BY <2>1, <2>2, <3>1
    <3>3. QED
      BY <3>1, <3>2
  <2>5. PICK st \in {"waiting", "polling", "raised"} :
          /\ pc' = [pc EXCEPT ![c] = st]
          /\ st = "waiting" => k # "poll"
          /\ st = "polling" => k = "poll"
          /\ raises => st = "raised"
          /\ k = "poll" /\ ~raises => st = "polling"
    BY <2>1
  <2>6. pc'[c] = st /\ pc' \in [Call -> {"idle", "waiting", "polling", "raised", "returned", "cancelled"}]
    BY <1>5, <2>5
  <2>7. toServer' = toServer \/ (~Down /\ ~raises /\ toServer' = Append(toServer, m))
    BY <2>4 DEF SendRequest
  <2>8. Asks(c, k, m)
    BY <2>1, <2>4, <2>5, <2>6, <2>7 DEF Asks
  <2>9. Enters(c, k, m)
    BY <1>6, <2>1, <2>2, <2>3, <2>4, <2>5, <2>6 DEF Enters
  <2>10. waiting' \in Seq(Entry)
    BY <1>1, <2>3, PutFacts
  <2>11. mySid' \in [Call -> AnySid]
    BY <1>1, <1>2, <2>1
  <2>12. QED
    BY <1>4, <2>1, <2>4, <2>6, <2>8, <2>9, <2>10, <2>11
<1>7. CASE Refused(c, k)
  <2>1. /\ kind' = [kind EXCEPT ![c] = k] /\ pc' = [pc EXCEPT ![c] = "raised"]
        /\ waiting' = waiting /\ mySid' = mySid /\ toServer' = toServer
    BY <1>7 DEF Refused
  <2>2. PICK m \in Request : m.call = c /\ m.op = k /\ m.sid = Signal /\ m.index = index
    BY <1>2, <1>3
  <2>3. pc'[c] = "raised" /\ pc' \in [Call -> {"idle", "waiting", "polling", "raised", "returned", "cancelled"}]
    BY <1>5, <2>1
  <2>4. Asks(c, k, m)
    BY <2>1, <2>2, <2>3 DEF Asks
  <2>5. Enters(c, k, m)
    BY <2>1, <2>2, <2>3 DEF Enters
  <2>6. QED
    BY <1>1, <1>4, <2>1, <2>2, <2>3, <2>4, <2>5
<1>8. QED
  BY <1>6, <1>7


(* A request that waits for no answer. *)
Unawaits(c, k, m, op, index, st) ==
  /\ pc[c] = "idle" /\ pc' = [pc EXCEPT ![c] = st] /\ kind' = [kind EXCEPT ![c] = k]
  /\ waiting' = waiting /\ mySid' = mySid
  /\ m = [call |-> c, op |-> op, sid |-> Signal, index |-> index]
  /\ toServer' = toServer \/ (~Down /\ toServer' = Append(toServer, m))

LEMMA Unawaited ==
  ASSUME BaseInv, NEW c \in Call, NEW k \in {"signal", "close"}, NEW op \in {"call", "close"},
         NEW index \in Index, NEW st \in {"raised", "returned"}, NEW m,
         Unawaits(c, k, m, op, index, st)
  PROVE  /\ m \in Request /\ m.op = op /\ m.sid = Signal
         /\ Asks(c, k, m) /\ Enters(c, k, m)
         /\ kind' \in [Call -> Kind]
         /\ pc' \in [Call -> {"idle", "waiting", "polling", "raised", "returned", "cancelled"}]
<1> USE DEF Unawaits
<1>1. /\ kind \in [Call -> Kind]
      /\ pc \in [Call -> {"idle", "waiting", "polling", "raised", "returned", "cancelled"}]
  BY DEF BaseInv, TypeOK, ClientTypes
<1>2. op \in Op /\ k \in Kind /\ Signal \in AnySid
  BY DEF Op, Kind, AnySid
<1>3. m \in Request /\ m.call = c /\ m.op = op /\ m.sid = Signal
  BY <1>2 DEF Request
<1>4. pc'[c] = st /\ pc' \in [Call -> {"idle", "waiting", "polling", "raised", "returned", "cancelled"}]
  BY <1>1
<1>5. kind' \in [Call -> Kind]
  BY <1>1, <1>2
<1>6. Asks(c, k, m)
  BY <1>3, <1>4 DEF Asks
<1>7. Enters(c, k, m)
  BY <1>3, <1>4 DEF Enters
<1>8. QED
  BY <1>3, <1>4, <1>5, <1>6, <1>7

LEMMA PyBegun ==
  ASSUME BaseInv, NEW c \in Call, PyOperation(c)
  PROVE  \E k \in Kind, h \in Call, m \in Request : Begins(c, k, h, m)
<1>1. /\ pc[c] = "idle" /\ UNCHANGED <<pair, serverVars>> /\ toClient' = toClient /\ lost' = lost
      /\ \/ PyGetFunc(c) \/ PyCloseClient(c)
         \/ \E h \in Call : PyCall(c, h) \/ PyPoll(c, h) \/ PyFree(c, h) \/ PySignal(c, h)
  BY DEF PyOperation, MayBegin
<1>2. ClientTypes
  BY DEF BaseInv, TypeOK
<1>3. Nil \in Index /\ \A h \in Call : handle[h] \in Index
  BY <1>2 DEF Index, ClientTypes
<1>4. ASSUME NEW k \in {"getFunc", "call", "poll", "freeRef"}, NEW index \in Index, NEW h \in Call,
             PyBegins(c, k, index),
             crunning' = crunning, loop' = loop, answer' = answer, told' = told, signals' = signals,
             \A m : m.index = index => Keeps(c, k, h, m),
             handle' \in [Call -> Index], pollOn' \in [Call -> Call \cup {NoCall}]
      PROVE  \E m \in Request : Begins(c, k, h, m)
  <2>1. /\ \/ \E raises \in BOOLEAN : Registers(c, k, Free, index, raises) /\ (raises \/ Free \in usedSid')
           \/ Refused(c, k)
        /\ usedSid' = usedSid \/ (Free # 0 /\ usedSid' = usedSid \cup {Free})
        /\ nextSid' = Following(Free)
    BY <1>4 DEF PyBegins, Registers
  <2>2. PICK m \in Request :
           /\ m.index = index /\ Asks(c, k, m) /\ Enters(c, k, m)
           /\ waiting' \in Seq(Entry) /\ kind' \in [Call -> Kind] /\ mySid' \in [Call -> AnySid]
           /\ pc' \in [Call -> {"idle", "waiting", "polling", "raised", "returned", "cancelled"}]
    BY <1>1, <2>1, AskingFor
  <2>3. nextSid' \in Sid /\ usedSid' \subseteq Sid /\ usedSid \subseteq usedSid'
    BY <1>2, <2>1, FreeSid DEF ClientTypes
  <2>4. ClientTypes'
    BY <1>2, <1>4, <2>2, <2>3 DEF ClientTypes
  <2>5. Begins(c, k, h, m)
    BY <1>1, <1>4, <2>2, <2>3, <2>4 DEF Begins
  <2>6. QED
    BY <2>5
<1>5. \A k \in {"getFunc", "call", "poll", "freeRef", "signal", "close"} : k \in Kind
  BY DEF Kind, Op
<1>6. CASE PyGetFunc(c)
  <2>1. \A m : Keeps(c, "getFunc", c, m)
    BY <1>6 DEF PyGetFunc, Keeps
  <2>2. /\ PyBegins(c, "getFunc", Nil) /\ handle' = handle /\ pollOn' = pollOn
        /\ crunning' = crunning /\ loop' = loop /\ answer' = answer /\ told' = told /\ signals' = signals
    BY <1>6 DEF PyGetFunc
  <2>3. \E m \in Request : Begins(c, "getFunc", c, m)
    BY <1>2, <1>3, <1>4, <2>1, <2>2 DEF ClientTypes
  <2>4. QED
    BY <1>5, <2>3
<1>7. ASSUME NEW h \in Call, PyCall(c, h)
      PROVE  \E m \in Request : Begins(c, "call", h, m)
  <2>1. \A m : Keeps(c, "call", h, m)
    BY <1>7 DEF PyCall, Keeps
  <2>2. /\ PyBegins(c, "call", handle[h]) /\ handle' = handle /\ pollOn' = pollOn
        /\ crunning' = crunning /\ loop' = loop /\ answer' = answer /\ told' = told /\ signals' = signals
    BY <1>7 DEF PyCall
  <2>3. QED
    BY <1>2, <1>3, <1>4, <2>1, <2>2 DEF ClientTypes
<1>8. ASSUME NEW h \in Call, PyPoll(c, h)
      PROVE  \E m \in Request : Begins(c, "poll", h, m)
  <2>1. \A m : m.index = handle[h] => Keeps(c, "poll", h, m)
    BY <1>8 DEF PyPoll, Keeps
  <2>2. /\ PyBegins(c, "poll", handle[h]) /\ handle' = handle /\ pollOn' = [pollOn EXCEPT ![c] = h]
        /\ crunning' = crunning /\ loop' = loop /\ answer' = answer /\ told' = told /\ signals' = signals
    BY <1>8 DEF PyPoll
  <2>3. handle' \in [Call -> Index] /\ pollOn' \in [Call -> Call \cup {NoCall}]
    BY <1>2, <2>2 DEF ClientTypes
  <2>4. QED
    BY <1>3, <1>4, <2>1, <2>2, <2>3
<1>9. ASSUME NEW h \in Call, PyFree(c, h)
      PROVE  \E m \in Request : Begins(c, "freeRef", h, m)
  <2>1. \A m : m.index = handle[h] => Keeps(c, "freeRef", h, m)
    BY <1>9 DEF PyFree, Keeps
  <2>2. /\ PyBegins(c, "freeRef", handle[h]) /\ pollOn' = pollOn /\ handle' = [handle EXCEPT ![h] = Nil]
        /\ crunning' = crunning /\ loop' = loop /\ answer' = answer /\ told' = told /\ signals' = signals
    BY <1>9 DEF PyFree
  <2>3. handle' \in [Call -> Index] /\ pollOn' \in [Call -> Call \cup {NoCall}]
    BY <1>2, <1>3, <2>2 DEF ClientTypes
  <2>4. QED
    BY <1>3, <1>4, <2>1, <2>2, <2>3
<1>10. ASSUME NEW h \in Call, PySignal(c, h)
       PROVE  \E m \in Request : Begins(c, "signal", h, m)
  <2>1. PICK m : m = [call |-> c, op |-> "call", sid |-> Signal, index |-> handle[h]]
    OBVIOUS
  <2>2. /\ signals' = Append(signals, m) /\ toServer' = toServer
        /\ pc' = [pc EXCEPT ![c] = "returned"] /\ kind' = [kind EXCEPT ![c] = "signal"]
        /\ UNCHANGED <<waiting, usedSid, nextSid, crunning, loop, mySid, answer, handle, pollOn, told>>
    BY <1>10, <2>1 DEF PySignal
  <2>3. handle[h] \in Index
    BY <1>3
  <2>4. /\ m \in Request /\ m.op = "call" /\ m.sid = Signal
        /\ Asks(c, "signal", m) /\ Enters(c, "signal", m)
        /\ kind' \in [Call -> Kind]
        /\ pc' \in [Call -> {"idle", "waiting", "polling", "raised", "returned", "cancelled"}]
    <3>1. PICK k \in {"signal", "close"}, op \in {"call", "close"}, st \in {"raised", "returned"}, index \in Index :
            k = "signal" /\ op = "call" /\ st = "returned" /\ index = handle[h]
      BY <2>3
    <3>2. Unawaits(c, k, m, op, index, st)
      BY <1>1, <2>1, <2>2, <3>1 DEF Unawaits
    <3>3. /\ m \in Request /\ m.op = op /\ m.sid = Signal
          /\ Asks(c, k, m) /\ Enters(c, k, m)
          /\ kind' \in [Call -> Kind]
          /\ pc' \in [Call -> {"idle", "waiting", "polling", "raised", "returned", "cancelled"}]
      BY <3>2, Unawaited
    <3>4. QED
      BY <3>1, <3>3
  <2>5. signals' \in Seq(Request)
    BY <1>2, <2>2, <2>4, AppendProperties DEF ClientTypes
  <2>6. ClientTypes'
    BY <1>2, <2>2, <2>4, <2>5 DEF ClientTypes
  <2>7. Keeps(c, "signal", h, m)
    BY <2>2 DEF Keeps
  <2>8. QED
    BY <1>1, <2>2, <2>4, <2>6, <2>7 DEF Begins
<1>11. CASE PyCloseClient(c)
  <2>1. PICK m : m = [call |-> c, op |-> "close", sid |-> Signal, index |-> Nil]
    OBVIOUS
  <2>2. PICK raises \in BOOLEAN, stop \in BOOLEAN :
          /\ SendRequest(m, raises)
          /\ pc' = [pc EXCEPT ![c] = IF raises THEN "raised" ELSE "returned"]
          /\ crunning' = (raises /\ ~stop /\ crunning)
          /\ loop' = IF stop THEN "ended" ELSE loop
    BY <1>11, <2>1 DEF PyCloseClient
  <2>3. /\ kind' = [kind EXCEPT ![c] = "close"]
        /\ UNCHANGED <<waiting, usedSid, nextSid, mySid, answer, handle, pollOn, told, signals>>
    BY <1>11 DEF PyCloseClient
  <2>4. PICK st \in {"raised", "returned"} : pc' = [pc EXCEPT ![c] = st]
    BY <2>2
  <2>5. toServer' = toServer \/ (~Down /\ toServer' = Append(toServer, m))
    BY <2>2 DEF SendRequest
  <2>6. /\ m \in Request /\ m.op = "close" /\ m.sid = Signal
        /\ Asks(c, "close", m) /\ Enters(c, "close", m)
        /\ kind' \in [Call -> Kind]
        /\ pc' \in [Call -> {"idle", "waiting", "polling", "raised", "returned", "cancelled"}]
    <3>1. PICK k \in {"signal", "close"}, op \in {"call", "close"}, index \in Index :
            k = "close" /\ op = "close" /\ index = Nil
      BY <1>3
    <3>2. Unawaits(c, k, m, op, index, st)
      BY <1>1, <2>1, <2>3, <2>4, <2>5, <3>1 DEF Unawaits
    <3>3. /\ m \in Request /\ m.op = op /\ m.sid = Signal
          /\ Asks(c, k, m) /\ Enters(c, k, m)
          /\ kind' \in [Call -> Kind]
          /\ pc' \in [Call -> {"idle", "waiting", "polling", "raised", "returned", "cancelled"}]
      BY <3>2, Unawaited
    <3>4. QED
      BY <3>1, <3>3
  <2>7. crunning' \in BOOLEAN /\ loop' \in {loop, "ended"}
    BY <2>2
  <2>8. ClientTypes'
    BY <1>2, <2>3, <2>6, <2>7 DEF ClientTypes
  <2>9. Keeps(c, "close", c, m)
    BY <2>3 DEF Keeps
  <2>10. Begins(c, "close", c, m)
    BY <1>1, <2>3, <2>6, <2>7, <2>8, <2>9 DEF Begins
  <2>11. QED
    BY <1>5, <2>6, <2>10
<1>12. QED
  BY <1>1, <1>5, <1>6, <1>7, <1>8, <1>9, <1>10, <1>11


LEMMA TsBegun ==
  ASSUME BaseInv, NEW c \in Call, TsOperation(c)
  PROVE  \E k \in Kind, h \in Call, m \in Request : Begins(c, k, h, m)
<1>1. /\ pc[c] = "idle" /\ UNCHANGED <<pair, serverVars>> /\ signals' = signals
      /\ \/ TsGetFunc(c) \/ TsCloseClient(c)
         \/ \E h \in Call : TsCall(c, h) \/ TsPoll(c, h) \/ TsPollRefused(c, h)
                            \/ TsFree(c, h) \/ TsSignal(c, h)
  BY DEF TsOperation, MayBegin
<1>2. ClientTypes
  BY DEF BaseInv, TypeOK
<1>3. Nil \in Index /\ \A h \in Call : handle[h] \in Index
  BY <1>2 DEF Index, ClientTypes
<1>4. ASSUME NEW k \in {"getFunc", "call", "poll", "freeRef"}, NEW index \in Index, NEW h \in Call,
             \/ \E raises \in BOOLEAN : Registers(c, k, Free, index, raises) /\ (raises \/ Free \in usedSid')
             \/ Refused(c, k),
             usedSid' = usedSid \/ (Free # 0 /\ usedSid' = usedSid \cup {Free}),
             nextSid' = Following(Free), told' \in [Call -> Nat],
             crunning' = crunning, loop' = loop, answer' = answer, lost' = lost, toClient' = toClient,
             \A m : m.index = index => Keeps(c, k, h, m),
             handle' \in [Call -> Index], pollOn' \in [Call -> Call \cup {NoCall}]
      PROVE  \E m \in Request : Begins(c, k, h, m)
  <2>1. PICK m \in Request :
           /\ m.index = index /\ Asks(c, k, m) /\ Enters(c, k, m)
           /\ waiting' \in Seq(Entry) /\ kind' \in [Call -> Kind] /\ mySid' \in [Call -> AnySid]
           /\ pc' \in [Call -> {"idle", "waiting", "polling", "raised", "returned", "cancelled"}]
    BY <1>1, <1>4, AskingFor
  <2>2. nextSid' \in Sid /\ usedSid' \subseteq Sid /\ usedSid \subseteq usedSid'
    BY <1>2, <1>4, FreeSid DEF ClientTypes
  <2>3. ClientTypes'
    BY <1>1, <1>2, <1>4, <2>1, <2>2 DEF ClientTypes
  <2>4. Begins(c, k, h, m)
    BY <1>1, <1>4, <2>1, <2>2, <2>3 DEF Begins
  <2>5. QED
    BY <2>4
<1>5. \A k \in {"getFunc", "call", "poll", "freeRef", "signal", "close"} : k \in Kind
  BY DEF Kind, Op
<1>6. ASSUME NEW k \in {"getFunc", "call", "poll", "freeRef"}, NEW index \in Index, TsBegins(c, k, index)
      PROVE  /\ \/ \E raises \in BOOLEAN : Registers(c, k, Free, index, raises) /\ (raises \/ Free \in usedSid')
                \/ Refused(c, k)
             /\ usedSid' = usedSid \/ (Free # 0 /\ usedSid' = usedSid \cup {Free})
             /\ nextSid' = Following(Free) /\ told' \in [Call -> Nat]
             /\ Free = 0 => toServer' = toServer
  <2>1. \/ \E raises \in BOOLEAN : Registers(c, k, Free, index, raises) /\ (raises \/ Free \in usedSid')
        \/ Refused(c, k)
    BY <1>6 DEF TsBegins
  <2>2. usedSid' = usedSid \/ (Free # 0 /\ usedSid' = usedSid \cup {Free})
    BY <1>6 DEF TsBegins, Registers
  <2>3. told' = told \/ told' = [told EXCEPT ![c] = told[c] + 1]
    BY <1>6 DEF TsBegins
  <2>4. told' \in [Call -> Nat]
    <3>1. told \in [Call -> Nat] /\ told[c] + 1 \in Nat
      BY <1>2 DEF ClientTypes
    <3>2. QED
      BY <2>3, <3>1
  <2>5. Free = 0 => toServer' = toServer
    BY <2>1 DEF Registers, Refused
  <2>6. nextSid' = Following(Free)
    BY <1>6 DEF TsBegins
  <2>7. QED
    BY <2>1, <2>2, <2>4, <2>5, <2>6
<1>7. CASE TsGetFunc(c)
  <2>1. \A m : Keeps(c, "getFunc", c, m)
    BY <1>7 DEF TsGetFunc, Keeps
  <2>2. /\ TsBegins(c, "getFunc", Nil) /\ handle' = handle /\ pollOn' = pollOn /\ lost' = lost
        /\ crunning' = crunning /\ loop' = loop /\ answer' = answer /\ toClient' = toClient
    BY <1>7 DEF TsGetFunc
  <2>3. \E m \in Request : Begins(c, "getFunc", c, m)
    BY <1>2, <1>3, <1>4, <1>6, <2>1, <2>2 DEF ClientTypes
  <2>4. QED
    BY <1>5, <2>3
<1>8. ASSUME NEW h \in Call, TsCall(c, h)
      PROVE  \E m \in Request : Begins(c, "call", h, m)
  <2>1. \A m : Keeps(c, "call", h, m)
    BY <1>8 DEF TsCall, Keeps
  <2>2. /\ TsBegins(c, "call", handle[h]) /\ handle' = handle /\ pollOn' = pollOn /\ lost' = lost
        /\ crunning' = crunning /\ loop' = loop /\ answer' = answer /\ toClient' = toClient
    BY <1>8 DEF TsCall
  <2>3. QED
    BY <1>2, <1>3, <1>4, <1>6, <2>1, <2>2 DEF ClientTypes
<1>9. ASSUME NEW h \in Call, TsPoll(c, h)
      PROVE  \E m \in Request : Begins(c, "poll", h, m)
  <2>1. \A m : m.index = handle[h] => Keeps(c, "poll", h, m)
    BY <1>9 DEF TsPoll, Keeps
  <2>2. /\ TsBegins(c, "poll", handle[h]) /\ handle' = handle /\ pollOn' = [pollOn EXCEPT ![c] = h]
        /\ crunning' = crunning /\ loop' = loop /\ answer' = answer /\ toClient' = toClient /\ lost' = lost
    BY <1>9 DEF TsPoll
  <2>3. handle' \in [Call -> Index] /\ pollOn' \in [Call -> Call \cup {NoCall}]
    BY <1>2, <2>2 DEF ClientTypes
  <2>4. QED
    BY <1>3, <1>4, <1>6, <2>1, <2>2, <2>3
<1>10. ASSUME NEW h \in Call, TsPollRefused(c, h)
       PROVE  \E m \in Request : Begins(c, "poll", h, m)
  <2>1. /\ Refused(c, "poll") /\ handle[h] # Nil
        /\ usedSid' = usedSid \cup ({Free} \ {0}) /\ nextSid' = Following(Free)
        /\ crunning' = crunning /\ loop' = loop /\ answer' = answer /\ handle' = handle
        /\ pollOn' = pollOn /\ told' = told /\ lost' = lost /\ toClient' = toClient
    BY <1>10 DEF TsPollRefused
  <2>2. toServer' = toServer
    BY <2>1 DEF Refused
  <2>3. \A m : m.index = handle[h] => Keeps(c, "poll", h, m)
    BY <2>1, <2>2 DEF Keeps
  <2>4. usedSid' = usedSid \/ (Free # 0 /\ usedSid' = usedSid \cup {Free})
    BY <2>1
  <2>5. handle' \in [Call -> Index] /\ pollOn' \in [Call -> Call \cup {NoCall}] /\ told' \in [Call -> Nat]
    BY <1>2, <2>1 DEF ClientTypes
  <2>6. QED
    BY <1>3, <1>4, <2>1, <2>3, <2>4, <2>5
<1>11. ASSUME NEW h \in Call, TsFree(c, h)
       PROVE  \E m \in Request : Begins(c, "freeRef", h, m)
  <2>1. /\ TsBegins(c, "freeRef", handle[h]) /\ pollOn' = pollOn /\ handle[h] # Nil
        /\ handle' = IF Free = 0 THEN handle ELSE [handle EXCEPT ![h] = Nil]
        /\ \A d \in Call : pc[d] = "polling" => pollOn[d] # h
        /\ crunning' = crunning /\ loop' = loop /\ answer' = answer /\ lost' = lost /\ toClient' = toClient
    BY <1>11 DEF TsFree
  <2>2. Free = 0 => toServer' = toServer
    BY <1>3, <1>6, <2>1
  <2>3. \A m : m.index = handle[h] => Keeps(c, "freeRef", h, m)
    BY <2>1, <2>2 DEF Keeps
  <2>4. handle' \in [Call -> Index] /\ pollOn' \in [Call -> Call \cup {NoCall}]
    BY <1>2, <1>3, <2>1 DEF ClientTypes
  <2>5. QED
    BY <1>3, <1>4, <1>6, <2>1, <2>3, <2>4
<1>12. ASSUME NEW h \in Call, TsSignal(c, h)
       PROVE  \E m \in Request : Begins(c, "signal", h, m)
  <2>1. PICK m : m = [call |-> c, op |-> "call", sid |-> Signal, index |-> handle[h]]
    OBVIOUS
  <2>2. /\ SendRequest(m, FALSE)
        /\ pc' = [pc EXCEPT ![c] = "returned"] /\ kind' = [kind EXCEPT ![c] = "signal"]
        /\ UNCHANGED <<waiting, usedSid, nextSid, crunning, loop, mySid, answer, handle, pollOn,
                       told, lost, toClient>>
    BY <1>12, <2>1 DEF TsSignal
  <2>3. toServer' = toServer \/ (~Down /\ toServer' = Append(toServer, m))
    BY <2>2 DEF SendRequest
  <2>4. /\ m \in Request /\ m.op = "call" /\ m.sid = Signal
        /\ Asks(c, "signal", m) /\ Enters(c, "signal", m)
        /\ kind' \in [Call -> Kind]
        /\ pc' \in [Call -> {"idle", "waiting", "polling", "raised", "returned", "cancelled"}]
    <3>1. PICK k \in {"signal", "close"}, op \in {"call", "close"}, st \in {"raised", "returned"}, index \in Index :
            k = "signal" /\ op = "call" /\ st = "returned" /\ index = handle[h]
      BY <1>3
    <3>2. Unawaits(c, k, m, op, index, st)
      BY <1>1, <2>1, <2>2, <2>3, <3>1 DEF Unawaits
    <3>3. /\ m \in Request /\ m.op = op /\ m.sid = Signal
          /\ Asks(c, k, m) /\ Enters(c, k, m)
          /\ kind' \in [Call -> Kind]
          /\ pc' \in [Call -> {"idle", "waiting", "polling", "raised", "returned", "cancelled"}]
      BY <3>2, Unawaited
    <3>4. QED
      BY <3>1, <3>3
  <2>5. ClientTypes'
    BY <1>1, <1>2, <2>2, <2>4 DEF ClientTypes
  <2>6. Keeps(c, "signal", h, m)
    BY <2>2 DEF Keeps
  <2>7. QED
    BY <1>1, <2>2, <2>4, <2>5, <2>6 DEF Begins
<1>13. CASE TsCloseClient(c)
  <2>1. PICK m : m = [call |-> c, op |-> "close", sid |-> Signal, index |-> Nil]
    OBVIOUS
  <2>2. PICK raises \in BOOLEAN :
          /\ SendRequest(m, raises)
          /\ pc' = [pc EXCEPT ![c] = IF raises THEN "raised" ELSE "returned"]
          /\ IF raises THEN crunning' = crunning /\ lost' = lost /\ toClient' = toClient
             ELSE /\ crunning' = FALSE /\ lost' = TRUE
                  /\ \E n \in (0 .. 1) \cap (0 .. Len(toClient)) : toClient' = SubSeq(toClient, 1, n)
    BY <1>13, <2>1 DEF TsCloseClient
  <2>3. /\ kind' = [kind EXCEPT ![c] = "close"]
        /\ UNCHANGED <<waiting, usedSid, nextSid, loop, mySid, answer, handle, pollOn, told>>
    BY <1>13 DEF TsCloseClient
  <2>4. PICK st \in {"raised", "returned"} : pc' = [pc EXCEPT ![c] = st]
    BY <2>2
  <2>5. toServer' = toServer \/ (~Down /\ toServer' = Append(toServer, m))
    BY <2>2 DEF SendRequest
  <2>6. /\ m \in Request /\ m.op = "close" /\ m.sid = Signal
        /\ Asks(c, "close", m) /\ Enters(c, "close", m)
        /\ kind' \in [Call -> Kind]
        /\ pc' \in [Call -> {"idle", "waiting", "polling", "raised", "returned", "cancelled"}]
    <3>1. PICK k \in {"signal", "close"}, op \in {"call", "close"}, index \in Index :
            k = "close" /\ op = "close" /\ index = Nil
      BY <1>3
    <3>2. Unawaits(c, k, m, op, index, st)
      BY <1>1, <2>1, <2>3, <2>4, <2>5, <3>1 DEF Unawaits
    <3>3. /\ m \in Request /\ m.op = op /\ m.sid = Signal
          /\ Asks(c, k, m) /\ Enters(c, k, m)
          /\ kind' \in [Call -> Kind]
          /\ pc' \in [Call -> {"idle", "waiting", "polling", "raised", "returned", "cancelled"}]
      BY <3>2, Unawaited
    <3>4. QED
      BY <3>1, <3>3
  <2>7. crunning' \in BOOLEAN
    BY <1>2, <2>2 DEF ClientTypes
  <2>8. ClientTypes'
    BY <1>1, <1>2, <2>3, <2>6, <2>7 DEF ClientTypes
  <2>9. Keeps(c, "close", c, m)
    BY <2>3 DEF Keeps
  <2>10. \/ toClient' = toClient /\ lost' = lost
         \/ \E n \in 0 .. Len(toClient) : toClient' = SubSeq(toClient, 1, n) /\ lost' = TRUE
    BY <2>2
  <2>11. Begins(c, "close", c, m)
    BY <1>1, <2>3, <2>6, <2>8, <2>9, <2>10 DEF Begins
  <2>12. QED
    BY <1>5, <2>6, <2>11
<1>14. QED
  BY <1>1, <1>5, <1>7, <1>8, <1>9, <1>10, <1>11, <1>12, <1>13


-----------------------------------------------------------------------------
(* The client keeps BaseInv when an operation begins. *)

LEMMA BeginsFacts ==
  ASSUME BaseInv, NEW c \in Call, NEW k \in Kind, NEW h \in Call, NEW m \in Request, Begins(c, k, h, m)
  PROVE  /\ m.call = c /\ pc[c] = "idle" /\ pc'[c] # "idle" /\ kind'[c] = k /\ task[c] = "none"
         /\ \A d \in Call : d # c => pc'[d] = pc[d] /\ kind'[d] = kind[d]
         /\ \A x \in Elems(toServer) \cup Elems(signals) \cup Elems(toClient) \cup Elems(waiting) : x.call # c
         /\ toServer' \in Seq(Request) /\ Once(toServer') /\ Once(signals')
         /\ \/ Elems(toServer') \subseteq Elems(toServer) \cup {m} /\ signals' = signals
            \/ /\ toServer' = toServer /\ Elems(signals') = Elems(signals) \cup {m}
               /\ k = "signal" /\ m.op = "call" /\ m.sid = Signal
         /\ toClient' \in Seq(Packet) /\ Elems(toClient') \subseteq Elems(toClient)
         /\ \A e \in Elems(waiting') : e \in Elems(waiting) \/ (e.call = c /\ (e.callback <=> k = "poll"))
<1>1. /\ toServer \in Seq(Request) /\ signals \in Seq(Request) /\ toClient \in Seq(Packet)
      /\ waiting \in Seq(Entry) /\ DOMAIN pc = Call /\ DOMAIN kind = Call
  BY DEF BaseInv, TypeOK, NetTypes, ClientTypes
<1>2. /\ m.call = c /\ pc[c] = "idle" /\ pc' = [pc EXCEPT ![c] = pc'[c]] /\ pc'[c] # "idle"
      /\ kind' = [kind EXCEPT ![c] = k]
      /\ toServer' = toServer \/ toServer' = Append(toServer, m)
  BY DEF Begins, Asks
<1>3. task[c] = "none" /\ \A x \in Elems(toServer) \cup Elems(signals) \cup Elems(toClient) \cup Elems(waiting) : x.call # c
  BY <1>2 DEF BaseInv, OnePlace
<1>4. Once(toServer) /\ Once(signals)
  BY DEF BaseInv, OnePlace
<1>5. /\ toServer' \in Seq(Request) /\ Once(toServer')
      /\ Elems(toServer') \subseteq Elems(toServer) \cup {m}
  <2>1. CASE toServer' = toServer
    BY <1>1, <1>4, <2>1
  <2>2. CASE toServer' = Append(toServer, m)
    <3>1. Append(toServer, m) \in Seq(Request) /\ Elems(Append(toServer, m)) = Elems(toServer) \cup {m}
      BY <1>1, ElemsAppend
    <3>2. Once(Append(toServer, m))
      BY <1>1, <1>2, <1>3, <1>4, OnceAppend
    <3>3. QED
      BY <2>2, <3>1, <3>2
  <2>3. QED
    BY <1>2, <2>1, <2>2
<1>6. /\ Once(signals')
      /\ \/ signals' = signals
         \/ /\ toServer' = toServer /\ Elems(signals') = Elems(signals) \cup {m}
            /\ k = "signal" /\ m.op = "call" /\ m.sid = Signal
  <2>1. CASE signals' = signals
    BY <1>4, <2>1
  <2>2. CASE signals' # signals
    <3>1. k = "signal" /\ m.op = "call" /\ m.sid = Signal /\ toServer' = toServer /\ signals' = Append(signals, m)
      BY <2>2 DEF Begins
    <3>2. Elems(Append(signals, m)) = Elems(signals) \cup {m}
      BY <1>1, ElemsAppend
    <3>3. Once(Append(signals, m))
      BY <1>1, <1>2, <1>3, <1>4, OnceAppend
    <3>4. QED
      BY <3>1, <3>2, <3>3
  <2>3. QED
    BY <2>1, <2>2
<1>7. toClient' \in Seq(Packet) /\ Elems(toClient') \subseteq Elems(toClient)
  <2>1. ASSUME NEW n \in 0 .. Len(toClient)
        PROVE  SubSeq(toClient, 1, n) \in Seq(Packet) /\ Elems(SubSeq(toClient, 1, n)) \subseteq Elems(toClient)
    <3>1. Ordered(toClient, {})
      BY DEF Ordered
    <3>2. QED
      BY <1>1, <3>1, OrderedPrefix
  <2>2. QED
    BY <1>1, <2>1 DEF Begins
<1>8. \A e \in Elems(waiting') : e \in Elems(waiting) \/ (e.call = c /\ (e.callback <=> k = "poll"))
  <2>1. CASE waiting' = waiting
    BY <2>1
  <2>2. CASE waiting' # waiting
    <3>1. PICK e \in Entry : e.call = c /\ (e.callback <=> k = "poll") /\ waiting' = Put(waiting, e)
      BY <2>2 DEF Begins, Enters
    <3>2. Elems(waiting') \subseteq Elems(waiting) \cup {e}
      BY <1>1, <3>1, PutFacts
    <3>3. QED
      BY <3>1, <3>2
  <2>3. QED
    BY <2>1, <2>2
<1>9. kind'[c] = k /\ \A d \in Call : d # c => pc'[d] = pc[d] /\ kind'[d] = kind[d]
  BY <1>1, <1>2
<1>10. QED
  BY <1>2, <1>3, <1>5, <1>6, <1>7, <1>8, <1>9

LEMMA BeginsBase ==
  ASSUME BaseInv, NEW c \in Call, NEW k \in Kind, NEW h \in Call, NEW m \in Request, Begins(c, k, h, m)
  PROVE  BaseInv'
<1>1. /\ m.call = c /\ pc[c] = "idle" /\ pc'[c] # "idle" /\ kind'[c] = k /\ task[c] = "none"
      /\ \A d \in Call : d # c => pc'[d] = pc[d] /\ kind'[d] = kind[d]
      /\ \A x \in Elems(toServer) \cup Elems(signals) \cup Elems(toClient) \cup Elems(waiting) : x.call # c
      /\ toServer' \in Seq(Request) /\ Once(toServer') /\ Once(signals')
      /\ \/ Elems(toServer') \subseteq Elems(toServer) \cup {m} /\ signals' = signals
         \/ /\ toServer' = toServer /\ Elems(signals') = Elems(signals) \cup {m}
            /\ k = "signal" /\ m.op = "call" /\ m.sid = Signal
      /\ toClient' \in Seq(Packet) /\ Elems(toClient') \subseteq Elems(toClient)
      /\ \A e \in Elems(waiting') : e \in Elems(waiting) \/ (e.call = c /\ (e.callback <=> k = "poll"))
  BY BeginsFacts
<1>2. /\ UNCHANGED <<pair, serverVars, answer>> /\ ClientTypes'
      /\ (m.op = "poll" <=> k = "poll") /\ (m.op = "freeRef" <=> k = "freeRef")
      /\ pc'[c] = "waiting" => k # "poll"
      /\ pc'[c] = "polling" => k = "poll"
      /\ lost' = lost \/ lost' = TRUE
  BY DEF Begins, Asks
<1>3. srv' = srv /\ task' = task /\ req' = req /\ ready' = ready /\ result' = result
      /\ serve' = serve /\ rounds' = rounds /\ answer' = answer
  BY <1>2 DEF serverVars
<1>4. TypeOK'
  <2>1. NetTypes'
    BY <1>1, <1>2 DEF BaseInv, TypeOK, NetTypes
  <2>2. ServerTypes' /\ pair' \in Pairs
    BY <1>2, <1>3 DEF BaseInv, TypeOK, ServerTypes
  <2>3. QED
    BY <1>2, <2>1, <2>2 DEF TypeOK
<1>5. /\ \A x \in Elems(toServer) \cup Elems(signals) : x.call \in Call
      /\ \A x \in Elems(toClient) : x.call \in Call
      /\ \A e \in Elems(waiting) : e.call \in Call
  BY Members DEF BaseInv
<1>6. OnePlace'
  <2>1. /\ \A x \in Elems(toServer), y \in Elems(signals) : x.call # y.call
        /\ \A x \in Elems(toServer) \cup Elems(signals) : task[x.call] = "none" /\ pc[x.call] # "idle"
        /\ \A d \in Call : pc[d] = "idle" => task[d] = "none"
        /\ \A x \in Elems(toClient) : task[x.call] # "none"
        /\ \A e \in Elems(waiting) : pc[e.call] # "idle"
        /\ \A i, j \in 1 .. Len(ready) : ready[i] = ready[j] => i = j
        /\ \A d \in Elems(ready) : task[d] = "ready"
    BY DEF BaseInv, OnePlace
  <2>2. \A x \in Elems(toServer'), y \in Elems(signals') : x.call # y.call
    BY <1>1, <2>1
  <2>3. \A x \in Elems(toServer') \cup Elems(signals') : task[x.call] = "none" /\ pc'[x.call] # "idle"
    BY <1>1, <1>5, <2>1
  <2>4. \A d \in Call : pc'[d] = "idle" => task[d] = "none"
    BY <1>1, <2>1
  <2>5. \A e \in Elems(waiting') : pc'[e.call] # "idle"
    BY <1>1, <1>5, <2>1
  <2>6. QED
    BY <1>1, <1>3, <2>1, <2>2, <2>3, <2>4, <2>5 DEF OnePlace
<1>7. Kinds'
  <2>1. /\ \A x \in Elems(toServer) : x.op = "poll" <=> kind[x.call] = "poll"
        /\ \A x \in Elems(signals) : x.op = "call" /\ x.sid = Signal /\ kind[x.call] = "signal"
        /\ \A d \in Call : task[d] # "none" => req[d].call = d /\ (req[d].op = "poll" <=> kind[d] = "poll")
        /\ \A d \in Call : task[d] = "again" => req[d].op = "poll"
        /\ \A e \in Elems(waiting) : e.callback <=> kind[e.call] = "poll"
        /\ \A d \in Call : /\ pc[d] = "waiting" => kind[d] # "poll"
                           /\ pc[d] = "polling" => kind[d] = "poll"
    BY DEF BaseInv, Kinds
  <2>2. \A x \in Elems(toServer') : x.op = "poll" <=> kind'[x.call] = "poll"
    <3>1. \A x \in Elems(toServer) : x.op = "poll" <=> kind'[x.call] = "poll"
      BY <1>1, <1>5, <2>1
    <3>2. m.op = "poll" <=> kind'[m.call] = "poll"
      BY <1>1, <1>2
    <3>3. Elems(toServer') \subseteq Elems(toServer) \cup {m}
      BY <1>1
    <3>4. QED
      BY <3>1, <3>2, <3>3
  <2>3. \A x \in Elems(signals') : x.op = "call" /\ x.sid = Signal /\ kind'[x.call] = "signal"
    <3>1. \A x \in Elems(signals) : x.op = "call" /\ x.sid = Signal /\ kind'[x.call] = "signal"
      BY <1>1, <1>5, <2>1
    <3>2. CASE signals' = signals
      BY <3>1, <3>2
    <3>3. CASE signals' # signals
      <4>1. Elems(signals') = Elems(signals) \cup {m} /\ k = "signal" /\ m.op = "call" /\ m.sid = Signal
        BY <1>1, <3>3
      <4>2. kind'[m.call] = "signal"
        BY <1>1, <4>1
      <4>3. QED
        BY <3>1, <4>1, <4>2
    <3>4. QED
      BY <3>2, <3>3
  <2>4. \A d \in Call : task[d] # "none" => req[d].call = d /\ (req[d].op = "poll" <=> kind'[d] = "poll")
    BY <1>1, <2>1
  <2>5. \A e \in Elems(waiting') : e.callback <=> kind'[e.call] = "poll"
    BY <1>1, <1>5, <2>1
  <2>6. \A d \in Call : /\ pc'[d] = "waiting" => kind'[d] # "poll"
                        /\ pc'[d] = "polling" => kind'[d] = "poll"
    BY <1>1, <1>2, <2>1
  <2>7. QED
    BY <1>3, <2>1, <2>2, <2>3, <2>4, <2>5, <2>6 DEF Kinds
<1>8. Indexed'
  <2>1. Slots' = Slots
    BY <1>3 DEF Slots
  <2>2. /\ \A d \in Call : handle[d] \in Slots \cup {Nil} /\ {answer[d].value, result[d].value} \subseteq Slots \cup {Nil}
        /\ \A x \in Elems(toClient) : x.value \in Slots \cup {Nil}
        /\ \A x \in Elems(toServer) : x.op = "freeRef" => x.index \in Slots
        /\ \A d \in Call : task[d] = "ready" /\ req[d].op = "freeRef" => req[d].index \in Slots
    BY DEF BaseInv, Indexed
  <2>3. \A d \in Call : handle'[d] \in Slots \cup {Nil}
    <3>1. handle' = handle \/ handle' = [handle EXCEPT ![h] = Nil]
      BY DEF Begins, Keeps
    <3>2. DOMAIN handle = Call
      BY DEF BaseInv, TypeOK, ClientTypes
    <3>3. QED
      BY <2>2, <3>1, <3>2
  <2>4. m.op = "freeRef" => m.index \in Slots
    <3>1. m.op = "freeRef" => handle[h] # Nil /\ m.index = handle[h]
      BY <1>2 DEF Begins, Keeps
    <3>2. QED
      BY <2>2, <3>1
  <2>5. \A x \in Elems(toServer') : x.op = "freeRef" => x.index \in Slots
    BY <1>1, <2>2, <2>4
  <2>6. \A x \in Elems(toClient') : x.value \in Slots \cup {Nil}
    BY <1>1, <2>2
  <2>7. QED
    BY <1>3, <2>1, <2>2, <2>3, <2>5, <2>6 DEF Indexed
<1>9. Links(srv)' /\ HooksOK'
  BY <1>3 DEF BaseInv, Links, HooksOK, Hooks, NoHook, Unborn
<1>10. QED
  BY <1>4, <1>6, <1>7, <1>8, <1>9 DEF BaseInv


-----------------------------------------------------------------------------
(* Operations that have begun go on: packets are taken, entries leave the  *)
(* table or stay, operations end.                                          *)
Alike(e, f) == e.sid = f.sid /\ e.call = f.call /\ (e.callback <=> f.callback)

GoesOn ==
  /\ UNCHANGED <<pair, serverVars, toServer, lost, signals, kind, pollOn>> /\ ClientTypes'
  /\ toClient' = toClient \/ (toClient # <<>> /\ toClient' = Tail(toClient))
  /\ \A e \in Elems(waiting') : \E f \in Elems(waiting) : Alike(e, f)
  /\ \A d \in Call :
       /\ pc'[d] = pc[d] \/ (pc[d] # "idle" /\ pc'[d] \in {"returned", "raised", "cancelled"})
       /\ \/ answer'[d].value \in {answer[d].value, Nil}
          \/ \E x \in Elems(toClient) : answer'[d].value = x.value
       /\ handle'[d] \in {handle[d], answer[d].value}

LEMMA GoesOnBase ==
  ASSUME BaseInv, GoesOn
  PROVE  BaseInv'
<1>1. /\ pair' = pair /\ toServer' = toServer /\ lost' = lost /\ signals' = signals
      /\ kind' = kind /\ ClientTypes'
      /\ srv' = srv /\ task' = task /\ req' = req /\ ready' = ready /\ result' = result
      /\ serve' = serve /\ rounds' = rounds
  BY DEF GoesOn, serverVars
<1>2. toClient' \in Seq(Packet) /\ Elems(toClient') \subseteq Elems(toClient)
  <2>1. toClient \in Seq(Packet) /\ (toClient' = toClient \/ (toClient # <<>> /\ toClient' = Tail(toClient)))
    BY DEF BaseInv, TypeOK, NetTypes, GoesOn
  <2>2. QED
    BY <2>1, ElemsTail
<1>3. /\ \A x \in Elems(toServer) \cup Elems(signals) : x.call \in Call
      /\ \A e \in Elems(waiting) : e.call \in Call
  BY Members DEF BaseInv
<1>4. TypeOK'
  <2>1. NetTypes'
    BY <1>1, <1>2 DEF BaseInv, TypeOK, NetTypes
  <2>2. ServerTypes'
    BY <1>1 DEF BaseInv, TypeOK, ServerTypes
  <2>3. pair' \in Pairs
    BY <1>1 DEF BaseInv, TypeOK
  <2>4. QED
    BY <1>1, <2>1, <2>2, <2>3 DEF TypeOK
<1>5. \A d \in Call : /\ pc'[d] = "idle" <=> pc[d] = "idle"
                      /\ pc'[d] \in {"waiting", "polling"} => pc'[d] = pc[d]
  BY DEF GoesOn
<1>6. OnePlace'
  <2>1. /\ Once(toServer) /\ Once(signals)
        /\ \A x \in Elems(toServer), y \in Elems(signals) : x.call # y.call
        /\ \A x \in Elems(toServer) \cup Elems(signals) : task[x.call] = "none" /\ pc[x.call] # "idle"
        /\ \A d \in Call : pc[d] = "idle" => task[d] = "none"
        /\ \A x \in Elems(toClient) : task[x.call] # "none"
        /\ \A e \in Elems(waiting) : pc[e.call] # "idle"
        /\ \A i, j \in 1 .. Len(ready) : ready[i] = ready[j] => i = j
        /\ \A d \in Elems(ready) : task[d] = "ready"
    BY DEF BaseInv, OnePlace
  <2>2. \A x \in Elems(toServer) \cup Elems(signals) : task[x.call] = "none" /\ pc'[x.call] # "idle"
    BY <1>3, <1>5, <2>1
  <2>3. \A e \in Elems(waiting') : pc'[e.call] # "idle"
    BY <1>3, <1>5, <2>1 DEF GoesOn, Alike
  <2>4. QED
    BY <1>1, <1>2, <1>5, <2>1, <2>2, <2>3 DEF OnePlace
<1>7. Kinds'
  <2>1. \A e \in Elems(waiting) : e.callback <=> kind[e.call] = "poll"
    BY DEF BaseInv, Kinds
  <2>2. \A e \in Elems(waiting') : e.callback <=> kind[e.call] = "poll"
    BY <2>1 DEF GoesOn, Alike
  <2>3. \A d \in Call : /\ pc'[d] = "waiting" => kind[d] # "poll"
                        /\ pc'[d] = "polling" => kind[d] = "poll"
    BY <1>5 DEF BaseInv, Kinds
  <2>4. QED
    BY <1>1, <2>2, <2>3 DEF BaseInv, Kinds
<1>8. Indexed'
  <2>1. Slots' = Slots
    BY <1>1 DEF Slots
  <2>2. /\ \A d \in Call : handle[d] \in Slots \cup {Nil} /\ answer[d].value \in Slots \cup {Nil}
                           /\ result[d].value \in Slots \cup {Nil}
        /\ \A x \in Elems(toClient) : x.value \in Slots \cup {Nil}
        /\ \A x \in Elems(toServer) : x.op = "freeRef" => x.index \in Slots
        /\ \A d \in Call : task[d] = "ready" /\ req[d].op = "freeRef" => req[d].index \in Slots
    BY DEF BaseInv, Indexed
  <2>3. ASSUME NEW d \in Call
        PROVE  handle'[d] \in Slots \cup {Nil} /\ answer'[d].value \in Slots \cup {Nil}
    <3>1. /\ \/ answer'[d].value \in {answer[d].value, Nil}
             \/ \E x \in Elems(toClient) : answer'[d].value = x.value
          /\ handle'[d] \in {handle[d], answer[d].value}
      BY DEF GoesOn
    <3>2. QED
      BY <2>2, <3>1
  <2>4. QED
    BY <1>1, <1>2, <2>1, <2>2, <2>3 DEF Indexed
<1>9. Links(srv)' /\ HooksOK'
  BY <1>1 DEF BaseInv, Links, HooksOK, Hooks, NoHook, Unborn
<1>10. QED
  BY <1>4, <1>6, <1>7, <1>8, <1>9 DEF BaseInv

(* A signal is sent, and the connection breaks. *)
LEMMA SignalBase ==
  ASSUME BaseInv, PySignalSends, UNCHANGED <<pair, serverVars>>
  PROVE  BaseInv'
<1>1. /\ toClient' = toClient /\ lost' = lost /\ waiting' = waiting /\ pc' = pc /\ kind' = kind
      /\ answer' = answer /\ handle' = handle
      /\ pair' = pair /\ srv' = srv /\ task' = task /\ req' = req /\ ready' = ready
      /\ result' = result /\ serve' = serve /\ rounds' = rounds
      /\ UNCHANGED <<usedSid, nextSid, crunning, loop, mySid, pollOn, told>>
  BY DEF PySignalSends, serverVars
<1>2. toServer \in Seq(Request) /\ signals \in Seq(Request) /\ signals # <<>>
  BY DEF PySignalSends, BaseInv, TypeOK, NetTypes, ClientTypes
<1>3. PICK m \in Request : /\ m = Head(signals) /\ m \in Elems(signals)
                           /\ toServer' = toServer \/ toServer' = Append(toServer, m)
  BY <1>2, ElemsTail DEF PySignalSends, SendRequest
<1>4. /\ signals' \in Seq(Request) /\ Elems(signals') \subseteq Elems(signals) /\ Once(signals')
      /\ \A x \in Elems(signals') : x.call # m.call
  BY <1>2, <1>3, ElemsTail, OnceTail DEF PySignalSends, BaseInv, OnePlace
<1>5. /\ Once(toServer) /\ Once(signals)
      /\ \A x \in Elems(toServer), y \in Elems(signals) : x.call # y.call
      /\ \A x \in Elems(toServer) \cup Elems(signals) : task[x.call] = "none" /\ pc[x.call] # "idle"
      /\ \A x \in Elems(signals) : x.op = "call" /\ x.sid = Signal /\ kind[x.call] = "signal"
      /\ \A x \in Elems(toServer) : x.op = "poll" <=> kind[x.call] = "poll"
      /\ \A x \in Elems(toServer) : x.op = "freeRef" => x.index \in Slots
  BY DEF BaseInv, OnePlace, Kinds, Indexed
<1>6. /\ toServer' \in Seq(Request) /\ Elems(toServer') \subseteq Elems(toServer) \cup {m}
      /\ Once(toServer')
  <2>1. CASE toServer' = toServer
    BY <1>2, <1>5, <2>1
  <2>2. CASE toServer' = Append(toServer, m)
    BY <1>2, <1>3, <1>5, <2>2, ElemsAppend, OnceAppend
  <2>3. QED
    BY <1>3, <2>1, <2>2
<1>7. TypeOK'
  <2>1. NetTypes'
    BY <1>1, <1>6 DEF BaseInv, TypeOK, NetTypes
  <2>2. ServerTypes' /\ pair' \in Pairs
    BY <1>1 DEF BaseInv, TypeOK, ServerTypes
  <2>3. ClientTypes'
    BY <1>1, <1>4 DEF BaseInv, TypeOK, ClientTypes
  <2>4. QED
    BY <2>1, <2>2, <2>3 DEF TypeOK
<1>8. OnePlace'
  <2>1. \A x \in Elems(toServer'), y \in Elems(signals') : x.call # y.call
    BY <1>4, <1>5, <1>6
  <2>2. \A x \in Elems(toServer') \cup Elems(signals') : task[x.call] = "none" /\ pc[x.call] # "idle"
    BY <1>3, <1>4, <1>5, <1>6
  <2>3. QED
    BY <1>1, <1>4, <1>6, <2>1, <2>2 DEF BaseInv, OnePlace
<1>9. Kinds'
  <2>1. \A x \in Elems(toServer') : x.op = "poll" <=> kind[x.call] = "poll"
    BY <1>3, <1>5, <1>6
  <2>2. \A x \in Elems(signals') : x.op = "call" /\ x.sid = Signal /\ kind[x.call] = "signal"
    BY <1>4, <1>5
  <2>3. QED
    BY <1>1, <2>1, <2>2 DEF BaseInv, Kinds
<1>10. Indexed'
  <2>1. \A x \in Elems(toServer') : x.op = "freeRef" => x.index \in Slots
    BY <1>3, <1>5, <1>6
  <2>2. Slots' = Slots
    BY <1>1 DEF Slots
  <2>3. QED
    BY <1>1, <2>1, <2>2 DEF BaseInv, Indexed
<1>11. Links(srv)' /\ HooksOK'
  BY <1>1 DEF BaseInv, Links, HooksOK, Hooks, NoHook, Unborn
<1>12. QED
  BY <1>7, <1>8, <1>9, <1>10, <1>11 DEF BaseInv

LEMMA LoseBase ==
  ASSUME BaseInv, Lose
  PROVE  BaseInv'
<1>1. /\ toServer' = <<>> /\ toClient' = <<>> /\ lost' = TRUE
      /\ UNCHANGED <<pair, serverVars, clientVars>>
  BY DEF Lose
<1>2. /\ toServer' \in Seq(Request) /\ toClient' \in Seq(Packet) /\ Elems(toServer') = {} /\ Elems(toClient') = {}
      /\ Once(toServer')
  <2>1. Elems(<<>>) = {} /\ Once(<<>>) /\ <<>> \in Seq(Request) /\ <<>> \in Seq(Packet)
    BY EmptySeq DEF Elems, Once
  <2>2. QED
    BY <1>1, <2>1
<1>3. TypeOK'
  <2>1. NetTypes'
    BY <1>1, <1>2 DEF NetTypes
  <2>2. ServerTypes' /\ ClientTypes' /\ pair' \in Pairs
    BY <1>1 DEF BaseInv, TypeOK, ServerTypes, ClientTypes, serverVars, clientVars
  <2>3. QED
    BY <2>1, <2>2 DEF TypeOK
<1>4. OnePlace' /\ Kinds' /\ Indexed'
  BY <1>1, <1>2 DEF BaseInv, OnePlace, Kinds, Indexed, Slots, serverVars, clientVars
<1>5. Links(srv)' /\ HooksOK'
  BY <1>1 DEF BaseInv, Links, HooksOK, Hooks, NoHook, Unborn, serverVars
<1>6. QED
  BY <1>3, <1>4, <1>5 DEF BaseInv


(* The run task ends with an exception, or takes the packet m for the      *)
(* entry e; the operation c leaves.                                        *)
Stays == UNCHANGED <<pair, serverVars, toServer, lost, nextSid, kind, pollOn, signals>>

Breaks ==
  /\ mySid' = mySid /\ handle' = handle /\ loop = "receive" /\ loop' = "ended"
  /\ \/ toClient = <<>> /\ toClient' = toClient /\ Down
     \/ toClient # <<>> /\ toClient' = Tail(toClient) /\ KeyOf(Head(toClient).sid) = {}
  /\ \A d \in Call : /\ answer'[d] \in {answer[d], Raised}
                     /\ pc'[d] = pc[d] \/ (pc[d] = "polling" /\ pc'[d] = "returned")
  /\ \A e \in Elems(waiting') : \E f \in Elems(waiting) : Alike(e, f)

Ends(m, e) == e.callback /\ m.rejected

Gets(m, e) ==
  /\ mySid' = mySid /\ handle' = handle /\ loop = "receive"
  /\ toClient # <<>> /\ m = Head(toClient) /\ toClient' = Tail(toClient)
  /\ e \in Elems(waiting) /\ e.sid = m.sid
  /\ answer' = answer \/ answer' = [answer EXCEPT ![e.call] = m]
  /\ usedSid' = IF Ends(m, e) THEN usedSid \ {m.sid} ELSE usedSid
  /\ pc' = IF Ends(m, e) THEN [pc EXCEPT ![e.call] = "returned"] ELSE pc
  /\ Elems(waiting') \subseteq Elems(waiting)
  /\ Unique(waiting) =>
       /\ Unique(waiting')
       /\ \A f \in Elems(waiting) : f.sid # m.sid \/ (e.callback /\ ~Ends(m, e)) => f \in Elems(waiting')
       /\ Ends(m, e) \/ (PyCalls /\ ~e.callback) => \A f \in Elems(waiting') : f.sid # m.sid

Parts(c) ==
  /\ pc[c] = "waiting" /\ pc' = [pc EXCEPT ![c] = pc'[c]]
  /\ pc'[c] \in {"returned", "raised", "cancelled"}
  /\ toClient' = toClient /\ loop' = loop
  /\ usedSid' = usedSid \ {mySid[c]}
  /\ answer' = [answer EXCEPT ![c] = None] /\ mySid' = [mySid EXCEPT ![c] = Signal]
  /\ \/ handle' = handle
     \/ /\ answer[c] # None /\ ~answer[c].rejected /\ pc'[c] = "returned"
        /\ handle' = [handle EXCEPT ![c] = answer[c].value]
  /\ \/ answer[c] # None /\ (PyCalls \/ answer[c] = Raised) /\ waiting' = waiting
     \/ answer[c] # None /\ waiting' = Without(waiting, mySid[c])
     \/ /\ Len(waiting') = Len(waiting)
        /\ \A k \in 1 .. Len(waiting) : /\ Alike(waiting'[k], waiting[k])
                                        /\ waiting'[k].done <=> waiting[k].done \/ waiting[k].call = c

LEMMA PyFailsFacts ==
  ASSUME ClientTypes, PyFails
  PROVE  /\ waiting' \in Seq(Entry) /\ answer' \in [Call -> Packet \cup {None, Raised}]
         /\ loop' = "ended" /\ crunning' = FALSE
         /\ \A d \in Call : answer'[d] \in {answer[d], Raised}
         /\ \A e \in Elems(waiting') : \E f \in Elems(waiting) : Alike(e, f)
<1>1. PICK D : D = PyReached(waiting)
  OBVIOUS
<1>2. /\ answer' = [c \in Call |-> IF c \in D THEN Raised ELSE answer[c]]
      /\ waiting' = [k \in 1 .. Len(waiting) |-> [waiting[k] EXCEPT !.done = @ \/ waiting[k].call \in D]]
      /\ loop' = "ended" /\ crunning' = FALSE
  BY <1>1 DEF PyFails
<1>3. waiting \in Seq(Entry) /\ answer \in [Call -> Packet \cup {None, Raised}]
  BY DEF ClientTypes
<1>4. PICK w : w = waiting'
  OBVIOUS
<1>5. w = Marked(waiting, D)
  BY <1>2, <1>4 DEF Marked
<1>6. /\ w \in Seq(Entry) /\ Len(w) = Len(waiting)
      /\ \A k \in 1 .. Len(waiting) :
           w[k].sid = waiting[k].sid /\ w[k].call = waiting[k].call /\ w[k].callback = waiting[k].callback
  BY <1>3, <1>5, MarkFacts
<1>7. \A e \in Elems(w) : \E f \in Elems(waiting) : Alike(e, f)
  BY <1>6 DEF Elems, Alike
<1>8. \A d \in Call : answer'[d] \in {answer[d], Raised}
  BY <1>2
<1>9. answer' \in [Call -> Packet \cup {None, Raised}]
  BY <1>2, <1>3
<1>10. QED
  BY <1>2, <1>4, <1>6, <1>7, <1>8, <1>9

LEMMA TsFailsFacts ==
  ASSUME ClientTypes, TsFails
  PROVE  /\ waiting' = waiting /\ answer' \in [Call -> Packet \cup {None, Raised}]
         /\ loop' = "ended" /\ crunning' = FALSE
         /\ \A d \in Call : /\ answer'[d] \in {answer[d], Raised}
                            /\ pc'[d] = pc[d] \/ (pc[d] = "polling" /\ pc'[d] = "returned")
         /\ pc' \in [Call -> {"idle", "waiting", "polling", "raised", "returned", "cancelled"}]
         /\ told' \in [Call -> Nat] /\ usedSid' \subseteq Sid
<1> DEFINE all == {waiting[k].call : k \in 1 .. Len(waiting)}
           polls == {waiting[k].call : k \in {j \in 1 .. Len(waiting) : waiting[j].callback}}
<1>1. /\ answer' = [c \in Call |-> IF c \in all \ polls /\ pc[c] = "waiting" /\ answer[c] = None
                                   THEN Raised ELSE answer[c]]
      /\ told' = [c \in Call |-> IF c \in polls THEN told[c] + 1 ELSE told[c]]
      /\ usedSid' = usedSid \ {mySid[c] : c \in polls}
      /\ pc' = [c \in Call |-> IF pc[c] = "polling" THEN "returned" ELSE pc[c]]
      /\ loop' = "ended" /\ crunning' = FALSE /\ waiting' = waiting
  BY DEF TsFails
<1> HIDE DEF all, polls
<1>2. /\ answer \in [Call -> Packet \cup {None, Raised}] /\ told \in [Call -> Nat] /\ usedSid \subseteq Sid
      /\ pc \in [Call -> {"idle", "waiting", "polling", "raised", "returned", "cancelled"}]
  BY DEF ClientTypes
<1>3. answer' \in [Call -> Packet \cup {None, Raised}] /\ \A d \in Call : answer'[d] \in {answer[d], Raised}
  BY <1>1, <1>2
<1>4. /\ pc' \in [Call -> {"idle", "waiting", "polling", "raised", "returned", "cancelled"}]
      /\ \A d \in Call : pc'[d] = pc[d] \/ (pc[d] = "polling" /\ pc'[d] = "returned")
  BY <1>1, <1>2
<1>5. told' \in [Call -> Nat] /\ usedSid' \subseteq Sid
  BY <1>1, <1>2
<1>6. QED
  BY <1>1, <1>3, <1>4, <1>5


(* The entry that is found for a packet. *)
LEMMA EntryOf ==
  ASSUME ClientTypes, NEW sid, KeyOf(sid) # {}
  PROVE  \E e \in Entry : /\ e = waiting[CHOOSE k \in KeyOf(sid) : TRUE]
                          /\ e \in Elems(waiting) /\ e.sid = sid
<1>1. (CHOOSE k \in KeyOf(sid) : TRUE) \in KeyOf(sid)
  OBVIOUS
<1>2. PICK k \in KeyOf(sid) : k = CHOOSE j \in KeyOf(sid) : TRUE
  BY <1>1
<1>3. k \in 1 .. Len(waiting) /\ waiting[k].sid = sid
  BY <1>2 DEF KeyOf
<1>4. waiting[k] \in Elems(waiting) /\ waiting[k] \in Entry
  BY <1>3, InElems DEF ClientTypes
<1>5. QED
  BY <1>2, <1>3, <1>4

LEMMA PyRunShape ==
  ASSUME BaseInv, PyRun
  PROVE  Stays /\ ClientTypes' /\ (Breaks \/ \E m \in Packet, e \in Entry : Gets(m, e))
<1>1. /\ PyCalls /\ (PyRunRaises \/ PyRunReceives) /\ Stays /\ mySid' = mySid /\ handle' = handle
  BY DEF PyRun, Stays
<1>2. ClientTypes /\ toClient \in Seq(Packet)
  BY DEF BaseInv, TypeOK, NetTypes
<1>3. nextSid' = nextSid /\ kind' = kind /\ pollOn' = pollOn /\ signals' = signals
  BY <1>1 DEF Stays
<1>4. ASSUME PyFails, usedSid' = usedSid, pc' = pc, told' = told, loop = "receive",
             \/ toClient = <<>> /\ toClient' = toClient /\ Down
             \/ toClient # <<>> /\ toClient' = Tail(toClient) /\ KeyOf(Head(toClient).sid) = {}
      PROVE  ClientTypes' /\ Breaks
  <2>1. /\ waiting' \in Seq(Entry) /\ answer' \in [Call -> Packet \cup {None, Raised}]
        /\ loop' = "ended" /\ crunning' = FALSE
        /\ \A d \in Call : answer'[d] \in {answer[d], Raised}
        /\ \A e \in Elems(waiting') : \E f \in Elems(waiting) : Alike(e, f)
    BY <1>2, <1>4, PyFailsFacts
  <2>2. ClientTypes'
    BY <1>1, <1>2, <1>3, <1>4, <2>1 DEF ClientTypes
  <2>3. Breaks
    BY <1>1, <1>4, <2>1 DEF Breaks
  <2>4. QED
    BY <2>2, <2>3
<1>5. CASE PyRunRaises
  BY <1>1, <1>4, <1>5 DEF PyRunRaises
<1>6. CASE PyRunReceives
  <2>1. loop = "receive" /\ toClient # <<>> /\ toClient' = Tail(toClient)
    BY <1>6 DEF PyRunReceives
  <2>2. PICK m \in Packet : m = Head(toClient)
    BY <1>2, <2>1, HeadTailProperties
  <2>3. CASE KeyOf(m.sid) = {}
    <3>1. PyFails /\ usedSid' = usedSid /\ pc' = pc /\ told' = told
      BY <1>6, <2>2, <2>3 DEF PyRunReceives
    <3>2. QED
      BY <1>1, <1>4, <2>1, <2>2, <2>3, <3>1
  <2>4. CASE KeyOf(m.sid) # {}
    <3>1. PICK e \in Entry : /\ e = waiting[CHOOSE k \in KeyOf(m.sid) : TRUE]
                             /\ e \in Elems(waiting) /\ e.sid = m.sid
      BY <1>2, <2>4, EntryOf
    <3>2. PICK rest : rest = Without(waiting, m.sid)
      OBVIOUS
    <3>3. /\ answer' = IF e.done THEN answer ELSE [answer EXCEPT ![e.call] = m]
          /\ waiting' = IF e.callback /\ ~Ends(m, e) THEN Append(rest, e) ELSE rest
          /\ usedSid' = IF Ends(m, e) THEN usedSid \ {m.sid} ELSE usedSid
          /\ pc' = IF Ends(m, e) THEN [pc EXCEPT ![e.call] = "returned"] ELSE pc
          /\ told' = IF Ends(m, e) THEN [told EXCEPT ![e.call] = @ + 1] ELSE told
          /\ loop' = (IF crunning THEN "receive" ELSE "ended")
          /\ crunning' = crunning
      BY <1>6, <2>2, <2>4, <3>1, <3>2 DEF PyRunReceives, Ends
    <3>4. waiting \in Seq(Entry)
      BY <1>2 DEF ClientTypes
    <3>5. /\ rest \in Seq(Entry) /\ Elems(rest) \subseteq Elems(waiting)
          /\ Unique(waiting) => Unique(rest) /\ Elems(rest) = {f \in Elems(waiting) : f.sid # m.sid}
      BY <3>2, <3>4, WithoutFacts
    <3>6. Append(rest, e) \in Seq(Entry) /\ Elems(Append(rest, e)) = Elems(rest) \cup {e}
      BY <3>5, ElemsAppend
    <3>7. Unique(waiting) => Unique(Append(rest, e))
      <4>1. ASSUME Unique(waiting) PROVE Put(rest, e) = Append(rest, e)
        <5>1. \A k \in 1 .. Len(rest) : rest[k] \in Elems(rest)
          BY <3>5, InElems
        <5>2. \A k \in 1 .. Len(rest) : rest[k].sid # e.sid
          BY <3>1, <3>5, <4>1, <5>1
        <5>3. QED
          BY <5>2 DEF Put
      <4>2. QED
        BY <3>5, <4>1, PutFacts
    <3>8. \A f \in Elems(waiting) : Unique(waiting) /\ f.sid = m.sid => f = e
      BY <3>1 DEF Elems, Unique
    <3>9. waiting' \in Seq(Entry) /\ Elems(waiting') \subseteq Elems(waiting)
      BY <3>1, <3>3, <3>5, <3>6
    <3>10. Unique(waiting) =>
             /\ Unique(waiting')
             /\ \A f \in Elems(waiting) : f.sid # m.sid \/ (e.callback /\ ~Ends(m, e)) => f \in Elems(waiting')
             /\ Ends(m, e) \/ (PyCalls /\ ~e.callback) => \A f \in Elems(waiting') : f.sid # m.sid
      <4>1. CASE e.callback /\ ~Ends(m, e)
        BY <3>3, <3>5, <3>6, <3>7, <3>8, <4>1
      <4>2. CASE ~(e.callback /\ ~Ends(m, e))
        BY <3>3, <3>5, <4>2
      <4>3. QED
        BY <4>1, <4>2
    <3>11. e.call \in Call
      BY DEF Entry
    <3>12. Gets(m, e)
      BY <1>1, <2>1, <2>2, <3>1, <3>3, <3>9, <3>10 DEF Gets
    <3>13. ClientTypes'
      <4>1. answer' \in [Call -> Packet \cup {None, Raised}]
        BY <1>2, <3>3, <3>11 DEF ClientTypes
      <4>2. pc' \in [Call -> {"idle", "waiting", "polling", "raised", "returned", "cancelled"}]
        BY <1>2, <3>3, <3>11 DEF ClientTypes
      <4>3. told' \in [Call -> Nat]
        <5>1. told \in [Call -> Nat] /\ told[e.call] + 1 \in Nat
          BY <1>2, <3>11 DEF ClientTypes
        <5>2. told' = told \/ told' = [told EXCEPT ![e.call] = told[e.call] + 1]
          BY <3>3
        <5>3. QED
          BY <3>11, <5>1, <5>2
      <4>4. usedSid' \subseteq Sid /\ loop' \in {"receive", "ended"}
        BY <1>2, <3>3 DEF ClientTypes
      <4>5. QED
        BY <1>1, <1>2, <1>3, <3>3, <3>9, <4>1, <4>2, <4>3, <4>4 DEF ClientTypes
    <3>14. QED
      BY <1>1, <3>12, <3>13
  <2>5. QED
    BY <2>3, <2>4
<1>7. QED
  BY <1>1, <1>5, <1>6


LEMMA TsRunShape ==
  ASSUME BaseInv, TsRun
  PROVE  Stays /\ ClientTypes' /\ (Breaks \/ \E m \in Packet, e \in Entry : Gets(m, e))
<1>1. /\ TsCalls /\ (TsRunRaises \/ TsRunReceives) /\ Stays /\ mySid' = mySid /\ handle' = handle
  BY DEF TsRun, Stays
<1>2. ClientTypes /\ toClient \in Seq(Packet)
  BY DEF BaseInv, TypeOK, NetTypes
<1>3. nextSid' = nextSid /\ kind' = kind /\ pollOn' = pollOn /\ signals' = signals
  BY <1>1 DEF Stays
<1>4. ASSUME TsFails, loop = "receive",
             \/ toClient = <<>> /\ toClient' = toClient /\ Down
             \/ toClient # <<>> /\ toClient' = Tail(toClient) /\ KeyOf(Head(toClient).sid) = {}
      PROVE  ClientTypes' /\ Breaks
  <2>1. /\ waiting' = waiting /\ answer' \in [Call -> Packet \cup {None, Raised}]
        /\ loop' = "ended" /\ crunning' = FALSE
        /\ \A d \in Call : /\ answer'[d] \in {answer[d], Raised}
                           /\ pc'[d] = pc[d] \/ (pc[d] = "polling" /\ pc'[d] = "returned")
        /\ pc' \in [Call -> {"idle", "waiting", "polling", "raised", "returned", "cancelled"}]
        /\ told' \in [Call -> Nat] /\ usedSid' \subseteq Sid
    BY <1>2, <1>4, TsFailsFacts
  <2>2. ClientTypes'
    BY <1>1, <1>2, <1>3, <2>1 DEF ClientTypes
  <2>3. \A e \in Elems(waiting') : \E f \in Elems(waiting) : Alike(e, f)
    BY <2>1 DEF Alike
  <2>4. Breaks
    BY <1>1, <1>4, <2>1, <2>3 DEF Breaks
  <2>5. QED
    BY <2>2, <2>4
<1>5. CASE TsRunRaises
  BY <1>1, <1>4, <1>5 DEF TsRunRaises
<1>6. CASE TsRunReceives
  <2>1. loop = "receive" /\ toClient # <<>> /\ toClient' = Tail(toClient)
    BY <1>6 DEF TsRunReceives
  <2>2. PICK m \in Packet : m = Head(toClient)
    BY <1>2, <2>1, HeadTailProperties
  <2>3. CASE KeyOf(m.sid) = {}
    <3>1. TsFails
      BY <1>6, <2>2, <2>3 DEF TsRunReceives
    <3>2. QED
      BY <1>1, <1>4, <2>1, <2>2, <2>3, <3>1
  <2>4. CASE KeyOf(m.sid) # {}
    <3>1. PICK e \in Entry : /\ e = waiting[CHOOSE k \in KeyOf(m.sid) : TRUE]
                             /\ e \in Elems(waiting) /\ e.sid = m.sid
      BY <1>2, <2>4, EntryOf
    <3>2. PICK rest : rest = Without(waiting, m.sid)
      OBVIOUS
    <3>3. /\ answer' = [answer EXCEPT ![e.call] = m]
          /\ waiting' = IF Ends(m, e) THEN rest ELSE waiting
          /\ usedSid' = IF Ends(m, e) THEN usedSid \ {m.sid} ELSE usedSid
          /\ pc' = IF Ends(m, e) THEN [pc EXCEPT ![e.call] = "returned"] ELSE pc
          /\ told' = IF Ends(m, e) THEN [told EXCEPT ![e.call] = @ + 1] ELSE told
          /\ loop' = (IF crunning THEN "receive" ELSE "ended")
          /\ crunning' = crunning
      BY <1>6, <2>2, <2>4, <3>1, <3>2 DEF TsRunReceives, Ends
    <3>4. waiting \in Seq(Entry)
      BY <1>2 DEF ClientTypes
    <3>5. /\ rest \in Seq(Entry) /\ Elems(rest) \subseteq Elems(waiting)
          /\ Unique(waiting) => Unique(rest) /\ Elems(rest) = {f \in Elems(waiting) : f.sid # m.sid}
      BY <3>2, <3>4, WithoutFacts
    <3>6. waiting' \in Seq(Entry) /\ Elems(waiting') \subseteq Elems(waiting)
      BY <3>3, <3>4, <3>5
    <3>7. ~PyCalls
      BY <1>1 DEF PyCalls, TsCalls
    <3>8. Unique(waiting) =>
            /\ Unique(waiting')
            /\ \A f \in Elems(waiting) : f.sid # m.sid \/ (e.callback /\ ~Ends(m, e)) => f \in Elems(waiting')
            /\ Ends(m, e) \/ (PyCalls /\ ~e.callback) => \A f \in Elems(waiting') : f.sid # m.sid
      BY <3>3, <3>5, <3>7
    <3>9. e.call \in Call
      BY DEF Entry
    <3>10. Gets(m, e)
      BY <1>1, <2>1, <2>2, <3>1, <3>3, <3>6, <3>8 DEF Gets
    <3>11. ClientTypes'
      <4>1. answer' \in [Call -> Packet \cup {None, Raised}]
        BY <1>2, <3>3, <3>9 DEF ClientTypes
      <4>2. pc' \in [Call -> {"idle", "waiting", "polling", "raised", "returned", "cancelled"}]
        BY <1>2, <3>3, <3>9 DEF ClientTypes
      <4>3. told' \in [Call -> Nat]
        <5>1. told \in [Call -> Nat] /\ told[e.call] + 1 \in Nat
          BY <1>2, <3>9 DEF ClientTypes
        <5>2. told' = told \/ told' = [told EXCEPT ![e.call] = told[e.call] + 1]
          BY <3>3
        <5>3. QED
          BY <3>9, <5>1, <5>2
      <4>4. usedSid' \subseteq Sid /\ loop' \in {"receive", "ended"}
        BY <1>2, <3>3 DEF ClientTypes
      <4>5. QED
        BY <1>1, <1>2, <1>3, <3>3, <3>6, <4>1, <4>2, <4>3, <4>4 DEF ClientTypes
    <3>12. QED
      BY <1>1, <3>10, <3>11
  <2>5. QED
    BY <2>3, <2>4
<1>7. QED
  BY <1>1, <1>5, <1>6

LEMMA PartShape ==
  ASSUME BaseInv, NEW c \in Call, PyResume(c) \/ TsResume(c) \/ PyCancel(c)
  PROVE  Stays /\ ClientTypes' /\ Parts(c)
<1>1. ClientTypes
  BY DEF BaseInv, TypeOK
<1>2. /\ Stays /\ pc[c] = "waiting" /\ toClient' = toClient /\ loop' = loop /\ crunning' = crunning
      /\ usedSid' = usedSid \ {mySid[c]} /\ told' = told
      /\ answer' = [answer EXCEPT ![c] = None] /\ mySid' = [mySid EXCEPT ![c] = Signal]
  BY DEF Stays, PyResume, TsResume, PyCancel, Leave, netVars
<1>3. PICK st \in {"returned", "raised", "cancelled"} :
        /\ pc' = [pc EXCEPT ![c] = st]
        /\ \/ handle' = handle
           \/ /\ answer[c] # None /\ ~answer[c].rejected /\ st = "returned"
              /\ handle' = [handle EXCEPT ![c] = answer[c].value]
  BY DEF PyResume, TsResume, PyCancel, Leave
<1>4. waiting \in Seq(Entry)
  BY <1>1 DEF ClientTypes
<1>5. /\ waiting' \in Seq(Entry)
      /\ \/ answer[c] # None /\ (PyCalls \/ answer[c] = Raised) /\ waiting' = waiting
         \/ answer[c] # None /\ waiting' = Without(waiting, mySid[c])
         \/ /\ Len(waiting') = Len(waiting)
            /\ \A k \in 1 .. Len(waiting) : /\ Alike(waiting'[k], waiting[k])
                                            /\ waiting'[k].done <=> waiting[k].done \/ waiting[k].call = c
  <2>1. CASE PyResume(c)
    BY <1>4, <2>1 DEF PyResume
  <2>2. CASE TsResume(c)
    BY <1>4, <2>2, WithoutFacts DEF TsResume
  <2>3. CASE PyCancel(c)
    <3>1. PICK w : w = waiting'
      OBVIOUS
    <3>2. w = Marked(waiting, {c})
      <4>1. w = [k \in 1 .. Len(waiting) |-> [waiting[k] EXCEPT !.done = @ \/ waiting[k].call = c]]
        BY <2>3, <3>1 DEF PyCancel
      <4>2. \A k \in 1 .. Len(waiting) : waiting[k].call = c <=> waiting[k].call \in {c}
        OBVIOUS
      <4>3. QED
        BY <4>1, <4>2 DEF Marked
    <3>3. /\ w \in Seq(Entry) /\ Len(w) = Len(waiting)
          /\ \A k \in 1 .. Len(waiting) :
               /\ w[k].sid = waiting[k].sid /\ w[k].call = waiting[k].call
               /\ w[k].callback = waiting[k].callback
               /\ w[k].done <=> waiting[k].done \/ waiting[k].call \in {c}
      BY <1>4, <3>2, MarkFacts
    <3>4. QED
      BY <3>1, <3>3 DEF Alike
  <2>4. QED
    BY <2>1, <2>2, <2>3
<1>6. pc'[c] = st /\ pc' \in [Call -> {"idle", "waiting", "polling", "raised", "returned", "cancelled"}]
  BY <1>1, <1>3 DEF ClientTypes
<1>7. answer' \in [Call -> Packet \cup {None, Raised}]
  BY <1>1, <1>2 DEF ClientTypes
<1>8. mySid' \in [Call -> AnySid]
  BY <1>1, <1>2 DEF ClientTypes, AnySid
<1>9. handle' \in [Call -> Index]
  <2>1. \A x \in Packet \cup {None, Raised} : x.value \in Index
    BY DEF Packet, None, Raised, Index
  <2>2. answer[c].value \in Index
    BY <1>1, <2>1 DEF ClientTypes
  <2>3. QED
    BY <1>1, <1>3, <2>2 DEF ClientTypes
<1>10. ClientTypes'
  BY <1>1, <1>2, <1>5, <1>6, <1>7, <1>8, <1>9 DEF ClientTypes, Stays
<1>11. Parts(c)
  BY <1>2, <1>3, <1>5, <1>6 DEF Parts
<1>12. QED
  BY <1>2, <1>10, <1>11


LEMMA BreaksGoesOn ==
  ASSUME BaseInv, Stays, ClientTypes', Breaks
  PROVE  GoesOn
<1>1. Raised.value = Nil
  BY DEF Raised
<1>2. handle' = handle /\ \A d \in Call : answer'[d] \in {answer[d], Raised}
  BY DEF Breaks
<1>3. ASSUME NEW d \in Call
      PROVE  /\ pc'[d] = pc[d] \/ (pc[d] # "idle" /\ pc'[d] \in {"returned", "raised", "cancelled"})
             /\ answer'[d].value \in {answer[d].value, Nil}
             /\ handle'[d] \in {handle[d], answer[d].value}
  <2>1. pc'[d] = pc[d] \/ (pc[d] = "polling" /\ pc'[d] = "returned")
    BY DEF Breaks
  <2>2. QED
    BY <1>1, <1>2, <2>1
<1>4. QED
  BY <1>3 DEF GoesOn, Breaks, Stays

LEMMA GetsGoesOn ==
  ASSUME BaseInv, Stays, ClientTypes', NEW m \in Packet, NEW e \in Entry, Gets(m, e)
  PROVE  GoesOn
<1>1. /\ DOMAIN answer = Call /\ DOMAIN pc = Call /\ toClient \in Seq(Packet) /\ e.call \in Call
  BY DEF BaseInv, TypeOK, ClientTypes, NetTypes, Entry
<1>2. m \in Elems(toClient)
  <2>1. toClient # <<>> /\ m = Head(toClient)
    BY DEF Gets
  <2>2. QED
    BY <1>1, <2>1, ElemsTail
<1>3. pc[e.call] # "idle"
  BY DEF Gets, BaseInv, OnePlace
<1>4. ASSUME NEW d \in Call
      PROVE  /\ pc'[d] = pc[d] \/ (pc[d] # "idle" /\ pc'[d] \in {"returned", "raised", "cancelled"})
             /\ answer'[d] \in {answer[d], m}
             /\ handle'[d] = handle[d]
  BY <1>1, <1>3 DEF Gets
<1>5. \A f \in Elems(waiting') : f \in Elems(waiting) /\ Alike(f, f)
  BY DEF Gets, Alike
<1>6. ASSUME NEW d \in Call
      PROVE  \/ answer'[d].value \in {answer[d].value, Nil}
             \/ \E x \in Elems(toClient) : answer'[d].value = x.value
  <2>1. answer'[d] = answer[d] \/ answer'[d] = m
    BY <1>4
  <2>2. QED
    BY <1>2, <2>1
<1>7. toClient # <<>> /\ toClient' = Tail(toClient)
  BY DEF Gets
<1>8. \A d \in Call : handle'[d] \in {handle[d], answer[d].value}
  BY <1>4
<1>9. \A d \in Call : pc'[d] = pc[d] \/ (pc[d] # "idle" /\ pc'[d] \in {"returned", "raised", "cancelled"})
  BY <1>4
<1>10. QED
  BY <1>5, <1>6, <1>7, <1>8, <1>9 DEF GoesOn, Stays

LEMMA PartsGoesOn ==
  ASSUME BaseInv, Stays, ClientTypes', NEW c \in Call, Parts(c)
  PROVE  GoesOn
<1>1. /\ DOMAIN answer = Call /\ DOMAIN pc = Call /\ DOMAIN handle = Call /\ waiting \in Seq(Entry)
  BY DEF BaseInv, TypeOK, ClientTypes
<1>2. None.value = Nil
  BY DEF None
<1>3. \A e \in Elems(waiting') : \E f \in Elems(waiting) : Alike(e, f)
  <2>1. CASE waiting' = waiting \/ waiting' = Without(waiting, mySid[c])
    <3>1. Elems(waiting') \subseteq Elems(waiting)
      BY <1>1, <2>1, WithoutFacts
    <3>2. QED
      BY <3>1 DEF Alike
  <2>2. CASE Len(waiting') = Len(waiting) /\ \A k \in 1 .. Len(waiting) : Alike(waiting'[k], waiting[k])
    BY <2>2 DEF Elems
  <2>3. QED
    BY <2>1, <2>2 DEF Parts
<1>4. ASSUME NEW d \in Call
      PROVE  /\ pc'[d] = pc[d] \/ (pc[d] # "idle" /\ pc'[d] \in {"returned", "raised", "cancelled"})
             /\ answer'[d] \in {answer[d], None}
             /\ handle'[d] \in {handle[d], answer[d].value}
  <2>1. pc'[d] = pc[d] \/ (pc[d] # "idle" /\ pc'[d] \in {"returned", "raised", "cancelled"})
    BY <1>1 DEF Parts
  <2>2. answer'[d] \in {answer[d], None}
    BY <1>1 DEF Parts
  <2>3. handle' = handle \/ handle' = [handle EXCEPT ![c] = answer[c].value]
    BY DEF Parts
  <2>4. handle'[d] \in {handle[d], answer[d].value}
    BY <1>1, <2>3
  <2>5. QED
    BY <2>1, <2>2, <2>4
<1>5. \A d \in Call : answer'[d].value \in {answer[d].value, Nil}
  BY <1>2, <1>4
<1>6. \A d \in Call : /\ pc'[d] = pc[d] \/ (pc[d] # "idle" /\ pc'[d] \in {"returned", "raised", "cancelled"})
                      /\ handle'[d] \in {handle[d], answer[d].value}
  BY <1>4
<1>7. toClient' = toClient
  BY DEF Parts
<1>8. QED
  BY <1>3, <1>5, <1>6, <1>7 DEF GoesOn, Stays

(* Every step is one of these. *)
LEMMA Steps ==
  ASSUME BaseInv, Next
  PROVE  \/ Serves
         \/ \E c \in Call, k \in Kind, h \in Call, m \in Request : Begins(c, k, h, m)
         \/ Stays /\ ClientTypes' /\ Breaks
         \/ Stays /\ ClientTypes' /\ \E m \in Packet, e \in Entry : Gets(m, e)
         \/ Stays /\ ClientTypes' /\ \E c \in Call : Parts(c)
         \/ PySignalSends /\ UNCHANGED <<pair, serverVars>>
         \/ Lose
<1>1. CASE PyServerTask \/ TsServerTask
  BY <1>1, ServerSteps
<1>2. CASE PyRun \/ TsRun
  BY <1>2, PyRunShape, TsRunShape
<1>3. ASSUME NEW c \in Call, PyOperation(c) \/ TsOperation(c)
      PROVE  \E k \in Kind, h \in Call, m \in Request : Begins(c, k, h, m)
  BY <1>3, PyBegun, TsBegun
<1>4. ASSUME NEW c \in Call, PyResume(c) \/ TsResume(c) \/ PyCancel(c)
      PROVE  Stays /\ ClientTypes' /\ Parts(c)
  BY <1>4, PartShape
<1>5. CASE PyClientTask
  BY <1>2, <1>3, <1>4, <1>5 DEF PyClientTask
<1>6. CASE TsClientTask
  BY <1>2, <1>3, <1>4, <1>6 DEF TsClientTask
<1>7. QED
  BY <1>1, <1>5, <1>6 DEF Next

LEMMA BaseKept ==
  ASSUME BaseInv, [Next]_vars
  PROVE  BaseInv'
<1>1. CASE Serves
  BY <1>1, ServerBase
<1>2. CASE \E c \in Call, k \in Kind, h \in Call, m \in Request : Begins(c, k, h, m)
  BY <1>2, BeginsBase
<1>3. CASE Stays /\ ClientTypes' /\ Breaks
  BY <1>3, BreaksGoesOn, GoesOnBase
<1>4. CASE Stays /\ ClientTypes' /\ \E m \in Packet, e \in Entry : Gets(m, e)
  BY <1>4, GetsGoesOn, GoesOnBase
<1>5. CASE Stays /\ ClientTypes' /\ \E c \in Call : Parts(c)
  BY <1>5, PartsGoesOn, GoesOnBase
<1>6. CASE PySignalSends /\ UNCHANGED <<pair, serverVars>>
  BY <1>6, SignalBase
<1>7. CASE Lose
  BY <1>7, LoseBase
<1>8. CASE UNCHANGED vars
  BY <1>8 DEF vars, netVars, serverVars, clientVars, BaseInv, TypeOK, NetTypes, ServerTypes, ClientTypes,
              OnePlace, Kinds, Links, Indexed, Slots, HooksOK, Hooks, NoHook, Unborn
<1>9. QED
  BY <1>1, <1>2, <1>3, <1>4, <1>5, <1>6, <1>7, <1>8, Steps

LEMMA BaseFirst ==
  ASSUME Init
  PROVE  BaseInv
<1>1. /\ NoCall \notin Call /\ SidEnd \in Nat /\ SidEnd > 1
  BY RpcAssumption
<1>2. \A S : <<>> \in Seq(S) /\ Elems(<<>>) = {} /\ Once(<<>>) /\ Len(<<>>) = 0
  BY EmptySeq DEF Elems, Once
<1>3. srv \in Context /\ DOMAIN srv.refPool = {} /\ srv.freeRefEntry = Nil
      /\ \A c \in Call : srv.freed[c] = 0
  <2>1. PICK p, f : p = <<>> /\ f = [c \in Call |-> 0]
    OBVIOUS
  <2>2. p \in [0 .. 0 - 1 -> SlotRec] /\ DOMAIN p = {} /\ f \in [Call -> Nat] /\ Nil \in Index
    BY <2>1 DEF Index
  <2>3. srv = [refPool |-> p, freeRefEntry |-> Nil, running |-> TRUE, shut |-> FALSE, freed |-> f]
    BY <2>1 DEF Init
  <2>4. srv \in Context
    BY <2>2, <2>3, ContextOf
  <2>5. QED
    BY <2>1, <2>2, <2>3, <2>4
<1>4. NetTypes
  BY <1>2 DEF Init, NetTypes
<1>5. Done \in Outcome /\ Nil \in Index /\ Signal \in AnySid /\ Done.value = Nil /\ None.value = Nil
  BY DEF Done, Outcome, Index, AnySid, None
<1>6. ServerTypes
  <2>1. /\ task = [c \in Call |-> "none"] /\ req = [c \in Call |-> NoRequest]
        /\ result = [c \in Call |-> Done] /\ rounds = [c \in Call |-> 0]
        /\ serve = "receive" /\ ready = <<>>
    BY DEF Init
  <2>2. QED
    BY <1>2, <1>3, <1>5, <2>1 DEF ServerTypes
<1>7. ClientTypes
  <2>1. /\ waiting = <<>> /\ usedSid = {} /\ nextSid = 1 /\ crunning = TRUE /\ loop = "receive"
        /\ pc = [c \in Call |-> "idle"] /\ kind = [c \in Call |-> "none"]
        /\ mySid = [c \in Call |-> Signal] /\ answer = [c \in Call |-> None]
        /\ handle = [c \in Call |-> Nil] /\ pollOn = [c \in Call |-> NoCall]
        /\ told = [c \in Call |-> 0] /\ signals = <<>>
    BY DEF Init
  <2>2. 1 \in Sid /\ "none" \in Kind
    BY <1>1 DEF Sid, Kind
  <2>3. QED
    BY <1>2, <1>5, <2>1, <2>2 DEF ClientTypes
<1>8. TypeOK
  BY <1>4, <1>6, <1>7 DEF Init, TypeOK
<1>9. OnePlace /\ Kinds
  BY <1>2 DEF Init, OnePlace, Kinds
<1>10. Links(srv) /\ Indexed /\ HooksOK
  BY <1>2, <1>3, <1>5 DEF Init, Links, Indexed, Slots, HooksOK, Hooks, NoHook
<1>11. QED
  BY <1>8, <1>9, <1>10 DEF BaseInv

LEMMA BaseAlways == Spec => []BaseInv
<1>1. Init => BaseInv
  BY BaseFirst
<1>2. BaseInv /\ [Next]_vars => BaseInv'
  BY BaseKept
<1>3. QED
  BY <1>1, <1>2, PTL DEF Spec


LEMMA HooksCount ==
  ASSUME BaseInv
  PROVE  HookRunsOnce
<1>1. Hooks(srv) /\ srv.freed \in [Call -> Nat]
  BY PoolTypes DEF BaseInv, HooksOK, TypeOK, ServerTypes
<1>2. ASSUME NEW c \in Call
      PROVE  srv.freed[c] + Cardinality({i \in Armed(srv) : srv.refPool[i].object = c}) <= 1
  <2> DEFINE its == {i \in Armed(srv) : srv.refPool[i].object = c}
  <2>1. Cardinality({}) = 0 /\ \A x : Cardinality({x}) = 1
    BY FS_EmptySet, FS_Singleton
  <2>2. \A i, j \in its : i = j
    BY <1>1 DEF Hooks, Armed
  <2>3. srv.freed[c] = 0 \/ (srv.freed[c] = 1 /\ its = {})
    BY <1>1 DEF Hooks, Armed
  <2> HIDE DEF its
  <2>4. its = {} \/ \E x : its = {x}
    BY <2>2
  <2>5. Cardinality(its) = 0 \/ (Cardinality(its) = 1 /\ its # {})
    BY <2>1, <2>4
  <2>6. srv.freed[c] + Cardinality(its) <= 1
    BY <2>1, <2>3, <2>5
  <2>7. QED
    BY <2>6 DEF its
<1>3. QED
  BY <1>2 DEF HookRunsOnce

(* The close method of an object the server gave out returns once at most, *)
(* and is not held for another run then, in whatever order freeRef, close, *)
(* the end of the connection and the callables that were still running     *)
(* come and whichever close methods raise (freeRef0 and close of base.py   *)
(* and base.ts).                                                           *)
THEOREM HooksRunOnce == Spec => []HookRunsOnce
<1>1. BaseInv => HookRunsOnce
  BY HooksCount
<1>2. QED
  BY <1>1, BaseAlways, PTL


-----------------------------------------------------------------------------
(* The server keeps MatchInv. *)

LEMMA WorksFinal ==
  ASSUME BaseInv, FinalLast, Serves, NEW c \in Call, NEW m \in Request, NEW st \in Pending \cup {"ended"},
         NEW i \in Index, NEW o \in Call \cup {NoCall}, Works(c, m, st, i, o)
  PROVE  FinalLast'
<1>1. /\ task'[c] = st /\ task[c] # "ended"
      /\ \A d \in Call : d # c => task'[d] = task[d]
      /\ m.op = "poll" <=> kind[c] = "poll"
  <2>1. /\ task'[c] = st /\ req'[c] = m /\ st # "none" /\ \A d \in Call : d # c => task'[d] = task[d]
        /\ task[c] = "none" \/ task[c] \in Pending
    BY WorksFacts
  <2>2. Kinds'
    BY WorksPlaces
  <2>3. m.op = "poll" <=> kind'[c] = "poll"
    BY <2>1, <2>2 DEF Kinds
  <2>4. kind' = kind
    BY DEF Serves, clientVars
  <2>5. QED
    BY <2>1, <2>3, <2>4 DEF Pending
<1>2. kind' = kind /\ pc' = pc /\ answer' = answer
  BY DEF Serves, clientVars
<1>3. /\ toClient \in Seq(Packet) /\ Elems(toClient) \subseteq Packet
      /\ \A x \in Elems(toClient) : x.call \in Call
  BY Members DEF BaseInv, TypeOK, NetTypes
<1>4. /\ \A x \in Elems(toClient) : Final(x) => task[x.call] = "ended"
      /\ \A j, k \in 1 .. Len(toClient) :
           toClient[j].call = toClient[k].call /\ Final(toClient[j]) => k <= j
      /\ \A d \in Call : pc[d] \in {"idle", "waiting"} /\ answer[d].call = d =>
           task[d] = "ended" /\ \A x \in Elems(toClient) : x.call # d
  BY DEF FinalLast
<1>5. \A x \in Elems(toClient) : Final(x) => x.call # c /\ task'[x.call] = "ended"
  BY <1>1, <1>3, <1>4
<1>6. CASE toClient' = toClient
  BY <1>1, <1>2, <1>4, <1>5, <1>6 DEF FinalLast, Final
<1>7. CASE toClient' # toClient
  <2>1. PICK p \in Packet :
          /\ toClient' = Append(toClient, p) /\ toClient' \in Seq(Packet)
          /\ Elems(toClient') = Elems(toClient) \cup {p} /\ p.call = c
          /\ p.rejected \/ m.op # "poll" => st = "ended"
    BY <1>7, WorksSends
  <2> DEFINE F == {x \in Packet : Final(x)}
  <2>2. Ordered(toClient, F)
    BY <1>4 DEF Ordered
  <2>3. \A x \in Elems(toClient) : x \in F => x.call # p.call
    BY <1>5, <2>1
  <2> HIDE DEF F
  <2>4. Ordered(toClient', F)
    BY <1>3, <2>1, <2>2, <2>3, OrderedAppend
  <2>5. \A j, k \in 1 .. Len(toClient') :
          toClient'[j].call = toClient'[k].call /\ Final(toClient'[j]) => k <= j
    <3>1. \A j \in 1 .. Len(toClient') : toClient'[j] \in Packet
      BY <2>1, ElementOfSeq
    <3>2. QED
      BY <2>4, <3>1 DEF Ordered, F
  <2>6. \A x \in Elems(toClient') : Final(x) => task'[x.call] = "ended"
    <3>1. Final(p) => task'[p.call] = "ended"
      BY <1>1, <2>1 DEF Final
    <3>2. QED
      BY <1>5, <2>1, <3>1
  <2>7. \A d \in Call : pc[d] \in {"idle", "waiting"} /\ answer[d].call = d =>
          task'[d] = "ended" /\ \A x \in Elems(toClient') : x.call # d
    BY <1>1, <1>4, <2>1
  <2>8. QED
    BY <1>2, <2>5, <2>6, <2>7 DEF FinalLast, Final
<1>8. QED
  BY <1>6, <1>7

LEMMA WorksMatched ==
  ASSUME BaseInv, Matched, Settled, Serves, NEW c \in Call, NEW m \in Request,
         NEW st \in Pending \cup {"ended"}, NEW i \in Index, NEW o \in Call \cup {NoCall}, Works(c, m, st, i, o)
  PROVE  Matched' /\ Settled'
<1>1. /\ task'[c] = st /\ req'[c] = m /\ m.call = c /\ task[c] # "ended"
      /\ \A d \in Call : d # c => task'[d] = task[d] /\ req'[d] = req[d]
      /\ Elems(toServer') \subseteq Elems(toServer)
      /\ m \in Elems(toServer) \/ (task[c] \in Pending /\ m = req[c])
  BY WorksFacts DEF Pending
<1>2. pair' = pair /\ UNCHANGED clientVars
  BY DEF Serves
<1>3. loop' = loop /\ waiting' = waiting /\ pc' = pc /\ handle' = handle /\ answer' = answer
  BY <1>2 DEF clientVars
<1>4. ASSUME Matched, loop = "receive" PROVE TableOK' /\ AnswersOK' /\ InTable'
  <2>1. TableOK /\ AnswersOK /\ InTable
    BY <1>4 DEF Matched
  <2>2. TableOK' /\ AnswersOK'
    BY <1>2, <2>1 DEF TableOK, AnswersOK, PyCalls, Active, clientVars
  <2>3. \A d, sid : HasEntry(d, sid)' <=> HasEntry(d, sid)
    BY <1>3 DEF HasEntry
  <2>4. m.sid # Signal => HasEntry(c, m.sid)
    BY <1>1, <2>1 DEF InTable
  <2>5. \A x \in Elems(toServer') : x.sid # Signal => HasEntry(x.call, x.sid)
    BY <1>1, <2>1 DEF InTable
  <2>6. \A d \in Call : task'[d] \in Pending /\ req'[d].sid # Signal => HasEntry(d, req'[d].sid)
    BY <1>1, <2>1, <2>4 DEF InTable
  <2>7. \A x \in Elems(toClient') : HasEntry(x.call, x.sid)
    <3>1. \/ toClient' = toClient
          \/ \E p \in Packet : /\ m.sid # Signal /\ Elems(toClient') = Elems(toClient) \cup {p}
                               /\ p.call = c /\ p.sid = m.sid
      BY WorksSends
    <3>2. QED
      BY <2>1, <2>4, <3>1 DEF InTable
  <2>8. InTable'
    BY <2>3, <2>5, <2>6, <2>7 DEF InTable
  <2>9. QED
    BY <2>2, <2>8
<1>5. Matched'
  BY <1>3, <1>4 DEF Matched
<1>6. ASSUME NEW d \in Call, handle[d] # Nil
      PROVE  /\ pc[d] = "returned" /\ task'[d] = "ended" /\ answer[d].value = Nil
             /\ \A x \in Elems(toClient') : x.call # d
  <2>1. /\ pc[d] = "returned" /\ task[d] = "ended" /\ answer[d].value = Nil
        /\ \A x \in Elems(toClient) : x.call # d
    BY <1>6 DEF Settled
  <2>2. d # c
    BY <1>1, <2>1
  <2>3. toClient' = toClient \/ \E p \in Packet : Elems(toClient') = Elems(toClient) \cup {p} /\ p.call = c
    BY WorksSends
  <2>4. QED
    BY <1>1, <2>1, <2>2, <2>3
<1>7. Settled'
  BY <1>3, <1>6 DEF Settled
<1>8. QED
  BY <1>5, <1>7


(* What is held and what is to be freed is a slot. *)
LEMMA HeldSlots ==
  ASSUME BaseInv, NEW d \in Call, NEW j \in Nat
  PROVE  (Holds(d, j) => j \in Slots) /\ (Frees(d, j) => j \in Slots)
<1>1. Indexed /\ j # Nil
  BY DEF BaseInv, Nil
<1>2. Holds(d, j) => j \in Slots
  BY <1>1 DEF Holds, Indexed
<1>3. Frees(d, j) => j \in Slots
  BY <1>1 DEF Frees, Indexed
<1>4. QED
  BY <1>2, <1>3

LEMMA OwnedServed ==
  ASSUME BaseInv, Owned, srv' \in Context, NEW i \in Index, NEW o \in Call \cup {NoCall},
         Effect(srv, srv', i, o), srv'.running => srv.running,
         \A d \in Call, j \in Nat : Holds(d, j)' => Holds(d, j) \/ (d = o /\ j = i),
         \A d \in Call, j \in Nat : Frees(d, j)' => Frees(d, j),
         i # Nil /\ o = NoCall => \E d \in Call : Frees(d, i) /\ ~Frees(d, i)'
  PROVE  Owned'
<1> SUFFICES ASSUME srv'.running
             PROVE  /\ FreeChain(srv')
                    /\ \A d \in Call, j \in Slots' : Holds(d, j)' => srv'.refPool[j].object = d
                    /\ \A d \in Call, j \in Slots' : Frees(d, j)' =>
                         srv'.refPool[j].object # NoCall /\ \A e \in Call : ~Holds(e, j)'
                    /\ \A d, e \in Call, j \in Slots' : Frees(d, j)' /\ Frees(e, j)' => d = e
  BY DEF Owned, FreeChain, Vacant, Slots
<1>1. /\ FreeChain(srv)
      /\ \A d \in Call, j \in Slots : Holds(d, j) => srv.refPool[j].object = d
      /\ \A d \in Call, j \in Slots : Frees(d, j) =>
           srv.refPool[j].object # NoCall /\ \A e \in Call : ~Holds(e, j)
      /\ \A d, e \in Call, j \in Slots : Frees(d, j) /\ Frees(e, j) => d = e
  BY DEF Owned
<1>2. /\ NoCall \notin Call /\ Slots' \subseteq Nat
      /\ i # Nil => i \in Nat
  <2>1. Slots' \subseteq Nat
    <3>1. PICK n \in Nat : DOMAIN srv'.refPool = 0 .. n - 1
      BY PoolTypes
    <3>2. QED
      BY <3>1 DEF Slots
  <2>2. QED
    BY <2>1, RpcAssumption DEF Index
<1>3. i # Nil /\ o = NoCall => i \in Slots /\ ~Vacant(srv, i)
  <2>1. ASSUME i # Nil, o = NoCall PROVE i \in Slots /\ srv.refPool[i].object # NoCall
    <3>1. PICK d \in Call : Frees(d, i)
      BY <2>1
    <3>2. i \in Slots
      BY <1>2, <2>1, <3>1, HeldSlots
    <3>3. QED
      BY <1>1, <3>1, <3>2
  <2>2. QED
    BY <2>1 DEF Vacant
<1>4. /\ FreeChain(srv')
      /\ i # Nil => srv'.refPool[i].object = o
      /\ i \in Slots /\ o # NoCall => srv.refPool[i].object = NoCall
      /\ \A j \in Slots : j # i => srv'.refPool[j].object = srv.refPool[j].object
  BY <1>1, <1>3 DEF Effect, Slots, Vacant
<1>5. ASSUME NEW d \in Call, NEW j \in Nat, Holds(d, j)' PROVE srv'.refPool[j].object = d
  <2>1. CASE d = o /\ j = i
    BY <1>4, <2>1 DEF Nil
  <2>2. CASE Holds(d, j)
    <3>1. j \in Slots /\ srv.refPool[j].object = d
      BY <1>1, <2>2, HeldSlots
    <3>2. j # i \/ (j = i /\ o = NoCall)
      BY <1>2, <1>4, <3>1
    <3>3. CASE j = i /\ o = NoCall
      <4>1. PICK e \in Call : Frees(e, i)
        BY <3>3 DEF Nil
      <4>2. QED
        BY <1>1, <2>2, <3>1, <3>3, <4>1
    <3>4. QED
      BY <1>4, <3>1, <3>2, <3>3
  <2>3. QED
    BY <1>5, <2>1, <2>2
<1>6. ASSUME NEW d \in Call, NEW j \in Nat, Frees(d, j)'
      PROVE  srv'.refPool[j].object # NoCall /\ \A e \in Call : ~Holds(e, j)'
  <2>1. Frees(d, j) /\ j \in Slots
    BY <1>6, HeldSlots
  <2>2. srv.refPool[j].object # NoCall /\ \A e \in Call : ~Holds(e, j)
    BY <1>1, <2>1
  <2>3. j # i
    <3>1. CASE j = i
      <4>1. o = NoCall /\ i # Nil
        BY <1>4, <2>1, <2>2, <3>1 DEF Nil
      <4>2. PICK e \in Call : Frees(e, i) /\ ~Frees(e, i)'
        BY <4>1
      <4>3. e = d
        BY <1>1, <2>1, <3>1, <4>2
      <4>4. QED
        BY <1>6, <3>1, <4>2, <4>3
    <3>2. QED
      BY <3>1
  <2>4. \A e \in Call : ~Holds(e, j)'
    BY <2>2, <2>3
  <2>5. QED
    BY <1>4, <2>1, <2>2, <2>3, <2>4
<1>7. \A d, e \in Call, j \in Nat : Frees(d, j)' /\ Frees(e, j)' => d = e
  <2>1. \A d, e \in Call, j \in Nat : Frees(d, j) /\ Frees(e, j) => d = e
    BY <1>1, HeldSlots
  <2>2. QED
    BY <2>1
<1>8. QED
  BY <1>2, <1>4, <1>5, <1>6, <1>7


(* What is to be freed was to be freed, and what is emptied no longer is.  *)
LEMMA WorksFrees ==
  ASSUME BaseInv, NEW c \in Call, NEW m \in Request, NEW st \in Pending \cup {"ended"},
         NEW i \in Index, NEW o \in Call \cup {NoCall}, Works(c, m, st, i, o)
  PROVE  /\ \A d \in Call, j \in Nat : Frees(d, j)' => Frees(d, j)
         /\ i # Nil /\ o = NoCall => Frees(c, i) /\ ~Frees(c, i)'
         /\ srv' \in Context /\ (srv'.running => srv.running) /\ (srv.shut => srv'.shut)
         /\ Slots \subseteq Slots' /\ Effect(srv, srv', i, o)
<1>1. /\ m.call = c /\ task'[c] = st /\ req'[c] = m
      /\ st = "ready" => task[c] = "none"
      /\ \A d \in Call : d # c => task'[d] = task[d] /\ req'[d] = req[d] /\ result'[d] = result[d]
      /\ Elems(toServer') \subseteq Elems(toServer) /\ \A x \in Elems(toServer') : x.call # c
      /\ \/ m \in Elems(toServer) /\ task[c] = "none"
         \/ task[c] \in Pending /\ m = req[c]
  BY WorksFacts
<1>2. /\ Births(c, m, st) /\ Effect(srv, srv', i, o)
      /\ i # Nil /\ o = NoCall => m.op = "freeRef" /\ i = m.index /\ (Reads(m) \/ task[c] = "ready") /\ st # "ready"
  BY DEF Works
<1>3. ASSUME NEW d \in Call, NEW j \in Nat, Frees(d, j)' PROVE Frees(d, j)
  <2>1. CASE \E x \in Elems(toServer') : x.call = d /\ x.op = "freeRef" /\ x.index = j
    BY <1>1, <2>1 DEF Frees
  <2>2. CASE task'[d] = "ready" /\ req'[d].op = "freeRef" /\ req'[d].index = j
    <3>1. CASE d = c
      BY <1>1, <2>2, <3>1 DEF Frees, Pending
    <3>2. CASE d # c
      BY <1>1, <2>2, <3>2 DEF Frees
    <3>3. QED
      BY <3>1, <3>2
  <2>3. QED
    BY <1>3, <2>1, <2>2 DEF Frees
<1>4. ASSUME i # Nil, o = NoCall PROVE Frees(c, i) /\ ~Frees(c, i)'
  <2>1. m.op = "freeRef" /\ i = m.index /\ (Reads(m) \/ task[c] = "ready") /\ st # "ready"
    BY <1>2, <1>4
  <2>2. ~Frees(c, i)'
    BY <1>1, <2>1 DEF Frees
  <2>3. m \in Elems(toServer) \/ (task[c] = "ready" /\ m = req[c])
    <3>1. CASE Reads(m)
      <4>1. toServer \in Seq(Request) /\ toServer # <<>> /\ m = Head(toServer)
        BY <3>1 DEF Reads, BaseInv, TypeOK, NetTypes
      <4>2. QED
        BY <4>1, ElemsTail
    <3>2. CASE task[c] = "ready"
      BY <1>1, <3>2
    <3>3. QED
      BY <2>1, <3>1, <3>2
  <2>4. QED
    BY <1>1, <2>1, <2>2, <2>3 DEF Frees
<1>5. srv' \in Context /\ (srv'.running => srv.running) /\ (srv.shut => srv'.shut) /\ Slots \subseteq Slots'
  BY <1>2 DEF Births, Leads, Slots
<1>6. QED
  BY <1>2, <1>3, <1>4, <1>5

LEMMA WorksOwned ==
  ASSUME BaseInv, Owned, Serves, NEW c \in Call, NEW m \in Request, NEW st \in Pending \cup {"ended"},
         NEW i \in Index, NEW o \in Call \cup {NoCall}, Works(c, m, st, i, o)
  PROVE  Owned'
<1>1. /\ m.call = c /\ task'[c] = st /\ req'[c] = m
      /\ st = "ready" => task[c] = "none"
      /\ \A d \in Call : d # c => task'[d] = task[d] /\ req'[d] = req[d] /\ result'[d] = result[d]
      /\ Elems(toServer') \subseteq Elems(toServer) /\ \A x \in Elems(toServer') : x.call # c
      /\ \/ m \in Elems(toServer) /\ task[c] = "none"
         \/ task[c] \in Pending /\ m = req[c]
  BY WorksFacts
<1>2. Leaving(c, st, i, o)
  BY DEF Works
<1>3. answer' = answer /\ handle' = handle
  BY DEF Serves, clientVars
<1>4. ASSUME NEW x \in Given(c, i, o), x \in Nat PROVE o = c /\ x = i
  BY <1>4 DEF Given, Nil
<1>5. ASSUME NEW d \in Call, NEW j \in Nat, Holds(d, j)' PROVE Holds(d, j) \/ (d = o /\ j = i)
  <2>1. CASE task'[d] = "answer" /\ result'[d].value = j
    <3>1. CASE d = c
      <4>1. result'[c].value \in Given(c, i, o)
        BY <1>1, <1>2, <2>1, <3>1 DEF Leaving
      <4>2. QED
        BY <1>4, <2>1, <3>1, <4>1
    <3>2. CASE d # c
      BY <1>1, <2>1, <3>2 DEF Holds
    <3>3. QED
      BY <3>1, <3>2
  <2>2. ASSUME NEW x \in Elems(toClient'), x.call = d, x.value = j
        PROVE  Holds(d, j) \/ (d = o /\ j = i)
    <3>1. CASE x \in Elems(toClient)
      BY <2>2, <3>1 DEF Holds
    <3>2. CASE x \notin Elems(toClient)
      <4>1. /\ x.call = c
            /\ x.value \in Given(c, i, o) \/ (task[c] = "answer" /\ x.value = result[c].value)
        BY <3>2, WorksSends
      <4>2. CASE x.value \in Given(c, i, o)
        BY <1>4, <2>2, <4>1, <4>2
      <4>3. CASE task[c] = "answer" /\ x.value = result[c].value
        BY <2>2, <4>1, <4>3 DEF Holds
      <4>4. QED
        BY <4>1, <4>2, <4>3
    <3>3. QED
      BY <3>1, <3>2
  <2>3. CASE answer'[d].value = j \/ handle'[d] = j
    BY <1>3, <2>3 DEF Holds
  <2>4. QED
    BY <1>5, <2>1, <2>2, <2>3 DEF Holds
<1>6. /\ \A d \in Call, j \in Nat : Frees(d, j)' => Frees(d, j)
      /\ i # Nil /\ o = NoCall => Frees(c, i) /\ ~Frees(c, i)'
      /\ srv' \in Context /\ (srv'.running => srv.running) /\ Effect(srv, srv', i, o)
  BY WorksFrees
<1>7. QED
  BY <1>5, <1>6, OwnedServed


LEMMA PolledServed ==
  ASSUME BaseInv, Owned, Polled, srv' \in Context, NEW i \in Index, NEW o \in Call \cup {NoCall},
         Effect(srv, srv', i, o), srv'.running => srv.running, Down => Down', Slots \subseteq Slots',
         \A d \in Call, j \in Nat : Frees(d, j)' => Frees(d, j),
         i # Nil /\ o = NoCall => \E d \in Call : Frees(d, i),
         \A d \in Call, j \in Index : Polls(d, j)' => Polls(d, j),
         pollOn' = pollOn,
         \A d \in Call, j \in Slots :
           Polls(d, j) /\ pc[d] = "polling" /\ pollOn[d] \in Call /\ handle[pollOn[d]] = j =>
             Down' \/ (pc'[d] = "polling" /\ handle'[pollOn[d]] = j)
  PROVE  Polled'
<1> SUFFICES ASSUME srv'.running, NEW d \in Call, NEW j \in Index, Polls(d, j)'
             PROVE  /\ j \in Slots' /\ pollOn'[d] \in Call /\ srv'.refPool[j].object = pollOn'[d]
                    /\ \A c \in Call : ~Frees(c, j)'
                    /\ Down' \/ (pc'[d] = "polling" /\ handle'[pollOn'[d]] = j)
  BY DEF Polled, Index
<1>1. srv.running /\ FreeChain(srv) /\ Polls(d, j)
  BY DEF Owned
<1>2. /\ j \in Slots /\ pollOn[d] \in Call /\ srv.refPool[j].object = pollOn[d]
      /\ \A c \in Call : ~Frees(c, j)
      /\ Down \/ (pc[d] = "polling" /\ handle[pollOn[d]] = j)
  BY <1>1 DEF Polled, Index
<1>3. NoCall \notin Call /\ srv.refPool[j].object # NoCall /\ j \in Nat
  <2>1. PICK n \in Nat : DOMAIN srv.refPool = 0 .. n - 1
    BY PoolTypes DEF BaseInv, TypeOK, ServerTypes
  <2>2. QED
    BY <1>2, <2>1, RpcAssumption DEF Slots
<1>4. i # Nil /\ o = NoCall => j # i /\ i \in Slots /\ ~Vacant(srv, i)
  <2>1. ASSUME i # Nil, o = NoCall PROVE j # i /\ i \in Slots /\ srv.refPool[i].object # NoCall
    <3>1. PICK e \in Call : Frees(e, i)
      BY <2>1
    <3>2. i \in Nat
      BY <2>1 DEF Index
    <3>3. i \in Slots
      BY <3>1, <3>2, HeldSlots
    <3>4. srv.refPool[i].object # NoCall
      BY <1>1, <3>1, <3>3 DEF Owned
    <3>5. QED
      BY <1>2, <3>1, <3>3, <3>4
  <2>2. QED
    BY <2>1 DEF Vacant
<1>5. srv'.refPool[j].object = srv.refPool[j].object
  <2>1. /\ i \in Slots /\ o # NoCall => srv.refPool[i].object = NoCall
        /\ \A k \in Slots : k # i => srv'.refPool[k].object = srv.refPool[k].object
    BY <1>1, <1>4 DEF Effect, Slots, Vacant
  <2>2. j # i
    BY <1>2, <1>3, <1>4, <2>1 DEF Nil
  <2>3. QED
    BY <1>2, <2>1, <2>2
<1>6. Down' \/ (pc'[d] = "polling" /\ handle'[pollOn'[d]] = j)
  BY <1>1, <1>2
<1>7. QED
  BY <1>2, <1>3, <1>5, <1>6

(* A server that does nothing, or shuts its context down, breaks no more   *)
(* of the connection than was broken.                                      *)
LEMMA DownStays ==
  ASSUME srv.shut => srv'.shut, lost' = lost
  PROVE  Down => Down'
BY DEF Down

LEMMA WorksPolled ==
  ASSUME BaseInv, Owned, Polled, Serves, NEW c \in Call, NEW m \in Request, NEW st \in Pending \cup {"ended"},
         NEW i \in Index, NEW o \in Call \cup {NoCall}, Works(c, m, st, i, o)
  PROVE  Polled'
<1>1. /\ m.call = c /\ task'[c] = st /\ req'[c] = m
      /\ \A d \in Call : d # c => task'[d] = task[d] /\ req'[d] = req[d]
      /\ Elems(toServer') \subseteq Elems(toServer)
      /\ m \in Elems(toServer) \/ (task[c] \in Pending /\ m = req[c])
  BY WorksFacts
<1>2. lost' = lost /\ pc' = pc /\ handle' = handle /\ pollOn' = pollOn
  BY DEF Serves, clientVars
<1>3. /\ \A d \in Call, j \in Nat : Frees(d, j)' => Frees(d, j)
      /\ i # Nil /\ o = NoCall => Frees(c, i)
      /\ srv' \in Context /\ (srv'.running => srv.running) /\ (srv.shut => srv'.shut)
      /\ Slots \subseteq Slots' /\ Effect(srv, srv', i, o)
  BY WorksFrees
<1>4. ASSUME NEW d \in Call, NEW j \in Index, Polls(d, j)' PROVE Polls(d, j)
  <2>1. CASE \E x \in Elems(toServer') : x.call = d /\ x.op = "poll" /\ x.index = j
    BY <1>1, <2>1 DEF Polls
  <2>2. CASE task'[d] \in Pending /\ req'[d].op = "poll" /\ req'[d].index = j
    <3>1. CASE d = c
      BY <1>1, <2>2, <3>1 DEF Polls
    <3>2. CASE d # c
      BY <1>1, <2>2, <3>2 DEF Polls
    <3>3. QED
      BY <3>1, <3>2
  <2>3. QED
    BY <1>4, <2>1, <2>2 DEF Polls
<1>5. Down => Down'
  BY <1>2, <1>3, DownStays
<1>6. QED
  BY <1>2, <1>3, <1>4, <1>5, PolledServed

LEMMA ServerMatch ==
  ASSUME MatchInv, Serves
  PROVE  MatchInv'
<1>1. BaseInv /\ FinalLast /\ AnswerIsOwn /\ Matched /\ Settled /\ Owned /\ Polled
  BY DEF MatchInv
<1>2. BaseInv'
  BY <1>1, ServerBase
<1>3. pair' = pair /\ lost' = lost /\ UNCHANGED clientVars
  BY DEF Serves
<1>4. AnswerIsOwn'
  BY <1>1, <1>3 DEF AnswerIsOwn, clientVars
<1>5. CASE /\ UNCHANGED <<toServer, toClient, ready, task, req, result>>
           /\ Leads(srv, srv', NoCall) /\ Effect(srv, srv', Nil, NoCall)
  <2>1. FinalLast' /\ Settled'
    BY <1>1, <1>3, <1>5 DEF FinalLast, Final, Settled, clientVars
  <2>2. Matched'
    BY <1>1, <1>3, <1>5 DEF Matched, TableOK, AnswersOK, InTable, HasEntry, Active, PyCalls, clientVars
  <2>3. /\ \A d \in Call, j \in Nat : Frees(d, j)' => Frees(d, j)
        /\ \A d \in Call, j \in Nat : Holds(d, j)' => Holds(d, j)
        /\ \A d \in Call, j \in Index : Polls(d, j)' => Polls(d, j)
    BY <1>3, <1>5 DEF Frees, Holds, Polls, clientVars
  <2>4. /\ srv' \in Context /\ (srv'.running => srv.running) /\ (srv.shut => srv'.shut)
        /\ Slots \subseteq Slots' /\ Effect(srv, srv', Nil, NoCall)
    BY <1>5 DEF Leads, Slots
  <2>5. Nil \in Index /\ NoCall \in Call \cup {NoCall}
    BY DEF Index
  <2>6. Owned'
    BY <1>1, <2>3, <2>4, <2>5, OwnedServed
  <2>7. pc' = pc /\ handle' = handle /\ pollOn' = pollOn
    BY <1>3 DEF clientVars
  <2>8. Polled'
    <3>1. Down => Down'
      BY <1>3, <2>4, DownStays
    <3>2. QED
      BY <1>1, <2>3, <2>4, <2>5, <2>7, <3>1, PolledServed
  <2>9. QED
    BY <1>2, <1>4, <2>1, <2>2, <2>6, <2>8 DEF MatchInv
<1>6. ASSUME NEW c \in Call, NEW m \in Request, NEW st \in Pending \cup {"ended"}, NEW i \in Index,
             NEW o \in Call \cup {NoCall}, Works(c, m, st, i, o)
      PROVE  MatchInv'
  <2>1. FinalLast'
    BY <1>1, <1>6, WorksFinal
  <2>2. Matched' /\ Settled'
    BY <1>1, <1>6, WorksMatched
  <2>3. Owned'
    BY <1>1, <1>6, WorksOwned
  <2>4. Polled'
    BY <1>1, <1>6, WorksPolled
  <2>5. QED
    BY <1>2, <1>4, <2>1, <2>2, <2>3, <2>4 DEF MatchInv
<1>7. QED
  BY <1>5, <1>6 DEF Serves


-----------------------------------------------------------------------------
(* An operation that begins keeps MatchInv, as long as no session id is    *)
(* used again before the answer to the operation that abandoned it.        *)

LEMMA BeginsFinal ==
  ASSUME BaseInv, FinalLast, AnswerIsOwn, Settled,
         NEW c \in Call, NEW k \in Kind, NEW h \in Call, NEW m \in Request, Begins(c, k, h, m)
  PROVE  FinalLast' /\ AnswerIsOwn' /\ Settled'
<1>1. /\ pc[c] = "idle" /\ task[c] = "none"
      /\ \A d \in Call : d # c => pc'[d] = pc[d] /\ kind'[d] = kind[d]
      /\ \A x \in Elems(toClient) : x.call # c
      /\ toClient' \in Seq(Packet) /\ Elems(toClient') \subseteq Elems(toClient)
  BY BeginsFacts
<1>2. /\ answer' = answer /\ task' = task
      /\ handle' = handle \/ handle' = [handle EXCEPT ![h] = Nil]
      /\ \/ toClient' = toClient
         \/ \E n \in 0 .. Len(toClient) : toClient' = SubSeq(toClient, 1, n)
  BY DEF Begins, Keeps, serverVars
<1>3. /\ \A x \in Elems(toClient) : Final(x) => task[x.call] = "ended"
      /\ \A i, j \in 1 .. Len(toClient) :
           toClient[i].call = toClient[j].call /\ Final(toClient[i]) => j <= i
      /\ \A d \in Call : pc[d] \in {"idle", "waiting"} /\ answer[d].call = d =>
           task[d] = "ended" /\ \A x \in Elems(toClient) : x.call # d
  BY DEF FinalLast
<1>4. /\ toClient \in Seq(Packet) /\ Elems(toClient) \subseteq Packet
      /\ \A x \in Elems(toClient) : x.call \in Call
  BY Members DEF BaseInv, TypeOK, NetTypes
<1>5. \A x \in Elems(toClient) : x.rejected \/ kind'[x.call] # "poll" => Final(x)
  <2>1. ASSUME NEW x \in Elems(toClient) PROVE kind'[x.call] = kind[x.call]
    BY <1>1, <1>4
  <2>2. QED
    BY <2>1 DEF Final
<1>6. \A x \in Elems(toClient') : x.rejected \/ kind'[x.call] # "poll" => task'[x.call] = "ended"
  BY <1>1, <1>2, <1>3, <1>5
<1>7. \A i, j \in 1 .. Len(toClient') :
        /\ toClient'[i].call = toClient'[j].call
        /\ toClient'[i].rejected \/ kind'[toClient'[i].call] # "poll"
        => j <= i
  <2> DEFINE F == {x \in Packet : Final(x)}
  <2>1. \A x \in Packet : x \in F <=> Final(x)
    OBVIOUS
  <2> HIDE DEF F
  <2>2. \A i \in 1 .. Len(toClient) : toClient[i] \in Packet
    BY <1>4, ElementOfSeq
  <2>3. Ordered(toClient, F)
    BY <1>3, <2>1, <2>2 DEF Ordered
  <2>4. Ordered(toClient', F)
    <3>1. ASSUME NEW n \in 0 .. Len(toClient), toClient' = SubSeq(toClient, 1, n)
          PROVE  Ordered(toClient', F)
      BY <1>4, <2>3, <3>1, OrderedPrefix
    <3>2. QED
      BY <1>2, <2>3, <3>1
  <2>5. \A i \in 1 .. Len(toClient') : toClient'[i] \in Elems(toClient') /\ toClient'[i] \in Packet
    BY <1>1, InElems
  <2>6. \A i \in 1 .. Len(toClient') :
          toClient'[i].rejected \/ kind'[toClient'[i].call] # "poll" => toClient'[i] \in F
    BY <1>1, <1>5, <2>1, <2>5
  <2>7. QED
    BY <2>4, <2>6 DEF Ordered
<1>8. \A d \in Call : pc'[d] \in {"idle", "waiting"} /\ answer'[d].call = d =>
        task'[d] = "ended" /\ \A x \in Elems(toClient') : x.call # d
  <2>1. answer[c].call # c
    BY <1>1, <1>3
  <2>2. QED
    BY <1>1, <1>2, <1>3, <2>1
<1>9. FinalLast'
  BY <1>6, <1>7, <1>8 DEF FinalLast, Final
<1>10. AnswerIsOwn'
  BY <1>2 DEF AnswerIsOwn
<1>11. Settled'
  <2>1. ASSUME NEW d \in Call, handle'[d] # Nil
        PROVE  /\ pc'[d] = "returned" /\ task'[d] = "ended" /\ answer'[d].value = Nil
               /\ \A x \in Elems(toClient') : x.call # d
    <3>1. handle[d] # Nil
      <4>1. DOMAIN handle = Call
        BY DEF BaseInv, TypeOK, ClientTypes
      <4>2. QED
        BY <1>2, <2>1, <4>1
    <3>2. /\ pc[d] = "returned" /\ task[d] = "ended" /\ answer[d].value = Nil
          /\ \A x \in Elems(toClient) : x.call # d
      BY <3>1 DEF Settled
    <3>3. QED
      BY <1>1, <1>2, <3>2
  <2>2. QED
    BY <2>1 DEF Settled
<1>12. QED
  BY <1>9, <1>10, <1>11

(* The table stays as it is, or gets an entry with an id of its own.       *)
LEMMA BeginsTable ==
  ASSUME ~StaleReuse, BaseInv, TableOK,
         NEW c \in Call, NEW k \in Kind, NEW h \in Call, NEW m \in Request, Begins(c, k, h, m)
  PROVE  \/ /\ waiting' = waiting /\ mySid' = mySid /\ pc'[c] \in {"raised", "returned"}
            /\ m.sid = Signal \/ toServer' = toServer
         \/ \E e \in Entry :
              /\ e.sid \notin usedSid /\ e.call = c /\ m.sid = e.sid
              /\ waiting' \in Seq(Entry) /\ Unique(waiting') /\ Elems(waiting') = Elems(waiting) \cup {e}
              /\ \A f \in Elems(waiting) : f.sid # e.sid
              /\ mySid' = [mySid EXCEPT ![c] = e.sid]
              /\ pc'[c] = "raised" \/ e.sid \in usedSid'
<1>1. Enters(c, k, m)
  BY DEF Begins
<1>2. CASE /\ waiting' = waiting /\ mySid' = mySid /\ pc'[c] \in {"raised", "returned"}
           /\ m.sid = Signal \/ toServer' = toServer
  BY <1>2
<1>3. CASE /\ Free \in Sid /\ m.sid = Free /\ (StaleReuse \/ ~Outstanding(Free))
           /\ mySid' = [mySid EXCEPT ![c] = Free]
           /\ pc'[c] = "raised" \/ Free \in usedSid'
           /\ \E e \in Entry : /\ e.sid = Free /\ e.call = c /\ (e.callback <=> k = "poll")
                               /\ waiting' = Put(waiting, e)
  <2>1. PICK e \in Entry : e.sid = Free /\ e.call = c /\ waiting' = Put(waiting, e)
    BY <1>3
  <2>2. Free \notin usedSid /\ waiting \in Seq(Entry)
    <3>1. ClientTypes /\ SidEnd \in Nat /\ SidEnd > 1
      BY RpcAssumption DEF BaseInv, TypeOK
    <3>2. Free # 0
      BY <1>3, <3>1 DEF Sid
    <3>3. QED
      BY <3>1, <3>2, FreeSid DEF ClientTypes
  <2>3. Unique(waiting)
    BY DEF TableOK, Unique
  <2>4. /\ waiting' \in Seq(Entry) /\ Unique(waiting')
        /\ Elems(waiting') = {f \in Elems(waiting) : f.sid # e.sid} \cup {e}
    BY <2>1, <2>2, <2>3, PutFacts
  <2>5. \A f \in Elems(waiting) : f.sid # Free
    <3>1. ASSUME NEW f \in Elems(waiting), f.sid = Free PROVE FALSE
      <4>1. f.done \/ pc[f.call] = "raised"
        BY <2>2, <3>1 DEF TableOK
      <4>2. PICK j \in 1 .. Len(waiting) : f = waiting[j]
        BY DEF Elems
      <4>3. j \in KeyOf(Free)
        BY <3>1, <4>2 DEF KeyOf
      <4>4. Outstanding(Free)
        BY <4>1, <4>2, <4>3 DEF Outstanding
      <4>5. QED
        BY <1>3, <4>4
    <3>2. QED
      BY <3>1
  <2>6. Elems(waiting') = Elems(waiting) \cup {e}
    BY <2>1, <2>4, <2>5
  <2>7. QED
    BY <1>3, <2>1, <2>2, <2>4, <2>5, <2>6
<1>4. QED
  BY <1>1, <1>2, <1>3 DEF Enters


LEMMA BeginsMatched ==
  ASSUME ~StaleReuse, BaseInv, FinalLast, Matched,
         NEW c \in Call, NEW k \in Kind, NEW h \in Call, NEW m \in Request, Begins(c, k, h, m)
  PROVE  Matched'
<1> SUFFICES ASSUME loop' = "receive" PROVE TableOK' /\ AnswersOK' /\ InTable'
  BY DEF Matched
<1>1. /\ m.call = c /\ pc[c] = "idle" /\ task[c] = "none"
      /\ \A d \in Call : d # c => pc'[d] = pc[d]
      /\ \A x \in Elems(toServer) \cup Elems(waiting) : x.call # c
      /\ toServer' = toServer \/ Elems(toServer') \subseteq Elems(toServer) \cup {m}
      /\ Elems(toClient') \subseteq Elems(toClient)
  BY BeginsFacts
<1>2. /\ pair' = pair /\ task' = task /\ req' = req /\ answer' = answer /\ usedSid \subseteq usedSid'
      /\ loop = "receive"
  BY DEF Begins, serverVars
<1>3. TableOK /\ AnswersOK /\ InTable
  BY <1>2 DEF Matched
<1>4. /\ \A x \in Elems(waiting) : x.call \in Call
      /\ DOMAIN mySid = Call
  BY Members DEF BaseInv, TypeOK, ClientTypes
<1>5. ~Active(c) /\ \A d \in Call : d # c => (Active(d)' <=> Active(d))
  BY <1>1 DEF Active
<1>6. answer[c] = None
  <2>1. answer[c].call # c
    BY <1>1 DEF FinalLast
  <2>2. QED
    BY <1>3, <2>1 DEF AnswersOK
<1>7. \A f \in Elems(waiting) : f.sid \notin usedSid' => f.done \/ pc'[f.call] = "raised"
  BY <1>1, <1>2, <1>3, <1>4 DEF TableOK
<1>8. CASE /\ waiting' = waiting /\ mySid' = mySid /\ pc'[c] \in {"raised", "returned"}
           /\ m.sid = Signal \/ toServer' = toServer
  <2>1. ~Active(c)'
    BY <1>8 DEF Active
  <2>2. \A d \in Call : Active(d)' => Active(d)
    BY <1>5, <2>1
  <2>3. TableOK'
    <3>1. \A d \in Call : Active(d)' => mySid'[d] \in usedSid'
      BY <1>2, <1>3, <1>8, <2>2 DEF TableOK
    <3>2. /\ \A d, e \in Call : Active(d)' /\ Active(e)' /\ mySid'[d] = mySid'[e] => d = e
          /\ \A d \in Call : Active(d)' => \A e \in Elems(waiting') : e.sid = mySid'[d] <=> e.call = d
      BY <1>3, <1>8, <2>2 DEF TableOK
    <3>3. /\ \A i, j \in 1 .. Len(waiting') : waiting'[i].sid = waiting'[j].sid => i = j
          /\ \A e, f \in Elems(waiting') : e.call = f.call => e = f
          /\ \A e \in Elems(waiting') : e.sid \notin usedSid' => e.done \/ pc'[e.call] = "raised"
      BY <1>3, <1>7, <1>8 DEF TableOK
    <3>4. QED
      BY <3>1, <3>2, <3>3 DEF TableOK
  <2>4. AnswersOK'
    <3>1. \A d \in Call : pc'[d] = "waiting" => pc[d] = "waiting"
      BY <1>1, <1>8
    <3>2. QED
      BY <1>2, <1>3, <1>8, <3>1 DEF AnswersOK, PyCalls
  <2>5. InTable'
    <3>1. \A x \in Elems(toServer') : x.sid # Signal => x \in Elems(toServer)
      BY <1>1, <1>8
    <3>2. QED
      BY <1>1, <1>2, <1>3, <1>8, <3>1 DEF InTable, HasEntry
  <2>6. QED
    BY <2>3, <2>4, <2>5
<1>9. ASSUME NEW e \in Entry, e.sid \notin usedSid, e.call = c, m.sid = e.sid,
             waiting' \in Seq(Entry), Unique(waiting'), Elems(waiting') = Elems(waiting) \cup {e},
             \A f \in Elems(waiting) : f.sid # e.sid,
             mySid' = [mySid EXCEPT ![c] = e.sid],
             pc'[c] = "raised" \/ e.sid \in usedSid'
      PROVE  TableOK' /\ AnswersOK' /\ InTable'
  <2>1. mySid'[c] = e.sid /\ \A d \in Call : d # c => mySid'[d] = mySid[d]
    BY <1>4, <1>9
  <2>2. \A d \in Call : d # c /\ Active(d)' => Active(d) /\ mySid[d] \in usedSid /\ mySid'[d] # e.sid
    BY <1>3, <1>5, <1>9, <2>1 DEF TableOK
  <2>3. TableOK'
    <3>1. \A i, j \in 1 .. Len(waiting') : waiting'[i].sid = waiting'[j].sid => i = j
      BY <1>9 DEF Unique
    <3>2. \A f, g \in Elems(waiting') : f.call = g.call => f = g
      BY <1>1, <1>3, <1>9 DEF TableOK
    <3>3. \A f \in Elems(waiting') : f.sid \notin usedSid' => f.done \/ pc'[f.call] = "raised"
      BY <1>7, <1>9
    <3>4. \A d \in Call : Active(d)' => mySid'[d] \in usedSid'
      <4>1. Active(c)' => mySid'[c] \in usedSid'
        BY <1>9, <2>1 DEF Active
      <4>2. QED
        BY <1>2, <2>1, <2>2, <4>1
    <3>5. \A d, f \in Call : Active(d)' /\ Active(f)' /\ mySid'[d] = mySid'[f] => d = f
      <4>1. ASSUME NEW d \in Call, NEW f \in Call, Active(d)', Active(f)', mySid'[d] = mySid'[f]
            PROVE  d = f
        <5>1. CASE d = c \/ f = c
          BY <2>1, <2>2, <4>1, <5>1
        <5>2. CASE d # c /\ f # c
          BY <1>3, <2>1, <2>2, <4>1, <5>2 DEF TableOK
        <5>3. QED
          BY <5>1, <5>2
      <4>2. QED
        BY <4>1
    <3>6. \A d \in Call : Active(d)' => \A f \in Elems(waiting') : f.sid = mySid'[d] <=> f.call = d
      <4>1. ASSUME NEW d \in Call, Active(d)', NEW f \in Elems(waiting')
            PROVE  f.sid = mySid'[d] <=> f.call = d
        <5>1. CASE d = c
          BY <1>1, <1>9, <2>1, <5>1
        <5>2. CASE d # c /\ f = e
          BY <1>9, <2>2, <4>1, <5>2
        <5>3. CASE d # c /\ f # e
          BY <1>3, <1>9, <2>1, <2>2, <4>1, <5>3 DEF TableOK
        <5>4. QED
          BY <5>1, <5>2, <5>3
      <4>2. QED
        BY <4>1
    <3>7. QED
      BY <3>1, <3>2, <3>3, <3>4, <3>5, <3>6 DEF TableOK
  <2>4. AnswersOK'
    <3>1. \A d \in Call : answer'[d] # None => answer'[d].call = d
      BY <1>2, <1>3 DEF AnswersOK
    <3>2. ASSUME NEW d \in Call, PyCalls', pc'[d] = "waiting", answer'[d] # None, NEW f \in Elems(waiting')
          PROVE  f.sid # mySid'[d]
      <4>1. d # c
        BY <1>2, <1>6, <3>2
      <4>2. PyCalls /\ pc[d] = "waiting" /\ Active(d)'
        BY <1>1, <1>2, <3>2, <4>1 DEF PyCalls, Active
      <4>3. CASE f = e
        BY <2>2, <4>1, <4>2, <4>3
      <4>4. CASE f # e
        BY <1>2, <1>3, <1>9, <2>1, <3>2, <4>1, <4>2, <4>4 DEF AnswersOK
      <4>5. QED
        BY <4>3, <4>4
    <3>3. QED
      BY <3>1, <3>2 DEF AnswersOK
  <2>5. InTable'
    <3>1. \A d, sid : HasEntry(d, sid) => HasEntry(d, sid)'
      BY <1>9 DEF HasEntry
    <3>2. HasEntry(c, m.sid)'
      BY <1>9 DEF HasEntry
    <3>3. \A x \in Elems(toServer') : x.sid # Signal => HasEntry(x.call, x.sid)'
      BY <1>1, <1>3, <3>1, <3>2 DEF InTable
    <3>4. QED
      BY <1>1, <1>2, <1>3, <3>1, <3>3 DEF InTable
  <2>6. QED
    BY <2>3, <2>4, <2>5
<1>10. QED
  BY <1>3, <1>8, <1>9, BeginsTable


(* What an operation that begins is to free is held by nobody from then.   *)
LEMMA BeginsFrees ==
  ASSUME BaseInv, Settled, Owned, srv.running,
         NEW c \in Call, NEW k \in Kind, NEW h \in Call, NEW m \in Request, Begins(c, k, h, m)
  PROVE  /\ \A d \in Call, j \in Nat : Holds(d, j)' => Holds(d, j)
         /\ \A d \in Call, j \in Nat : Frees(d, j)' /\ ~Frees(d, j) =>
              /\ d = c /\ k = "freeRef" /\ j = handle[h] /\ toServer' # toServer
              /\ srv.refPool[j].object = h /\ Holds(h, j) /\ \A e \in Call : ~Holds(e, j)'
         /\ \A d \in Call : handle'[d] = handle[d] \/ (d = h /\ k = "freeRef" /\ handle'[d] = Nil)
<1>1. /\ m.call = c /\ task[c] = "none"
      /\ toServer' = toServer \/ Elems(toServer') \subseteq Elems(toServer) \cup {m}
      /\ Elems(toClient') \subseteq Elems(toClient)
  BY BeginsFacts
<1>2. /\ task' = task /\ req' = req /\ result' = result /\ answer' = answer /\ srv' = srv
      /\ (m.op = "freeRef" <=> k = "freeRef")
      /\ k \in {"freeRef", "poll"} => handle[h] # Nil /\ m.index = handle[h]
      /\ handle' = handle \/ (k = "freeRef" /\ handle' = [handle EXCEPT ![h] = Nil])
      /\ k = "freeRef" => toServer' = toServer \/ handle' = [handle EXCEPT ![h] = Nil]
  BY DEF Begins, Asks, Keeps, serverVars
<1>3. handle \in [Call -> Index]
  BY DEF BaseInv, TypeOK, ClientTypes
<1>4. \A d \in Call : handle'[d] = handle[d] \/ (d = h /\ k = "freeRef" /\ handle'[d] = Nil)
  BY <1>2, <1>3
<1>5. \A d \in Call, j \in Nat : Holds(d, j)' => Holds(d, j)
  <2>1. \A j \in Nat : j # Nil
    BY DEF Nil
  <2>2. QED
    BY <1>1, <1>2, <1>4, <2>1 DEF Holds
<1>6. ASSUME NEW d \in Call, NEW j \in Nat, Frees(d, j)', ~Frees(d, j)
      PROVE  /\ d = c /\ k = "freeRef" /\ j = handle[h] /\ toServer' # toServer
             /\ srv.refPool[j].object = h /\ Holds(h, j) /\ \A e \in Call : ~Holds(e, j)'
  <2>1. \E x \in Elems(toServer') : x.call = d /\ x.op = "freeRef" /\ x.index = j
    BY <1>2, <1>6 DEF Frees
  <2>2. d = c /\ m.op = "freeRef" /\ m.index = j /\ toServer' # toServer
    BY <1>1, <1>6, <2>1 DEF Frees
  <2>3. k = "freeRef" /\ j = handle[h] /\ handle[h] # Nil /\ handle' = [handle EXCEPT ![h] = Nil]
    BY <1>2, <2>2
  <2>4. Holds(h, j)
    BY <2>3 DEF Holds
  <2>5. srv.refPool[j].object = h
    BY <2>4, HeldSlots DEF Owned
  <2>6. ~Holds(h, j)'
    <3>1. /\ task[h] = "ended" /\ answer[h].value = Nil /\ \A x \in Elems(toClient) : x.call # h
          /\ handle'[h] = Nil /\ j # Nil
      BY <1>3, <2>3 DEF Settled
    <3>2. QED
      BY <1>1, <1>2, <3>1 DEF Holds
  <2>7. ASSUME NEW e \in Call, Holds(e, j)' PROVE FALSE
    <3>1. Holds(e, j)
      BY <1>5, <2>7
    <3>2. srv.refPool[j].object = e
      BY <3>1, HeldSlots DEF Owned
    <3>3. QED
      BY <2>5, <2>6, <2>7, <3>2
  <2>8. QED
    BY <2>2, <2>3, <2>4, <2>5, <2>7
<1>7. QED
  BY <1>4, <1>5, <1>6

LEMMA BeginsOwned ==
  ASSUME BaseInv, Settled, Owned,
         NEW c \in Call, NEW k \in Kind, NEW h \in Call, NEW m \in Request, Begins(c, k, h, m)
  PROVE  Owned'
<1>1. srv' = srv
  BY DEF Begins, serverVars
<1> SUFFICES ASSUME srv.running
             PROVE  /\ \A d \in Call, j \in Slots : Holds(d, j)' => srv.refPool[j].object = d
                    /\ \A d \in Call, j \in Slots : Frees(d, j)' =>
                         srv.refPool[j].object # NoCall /\ \A e \in Call : ~Holds(e, j)'
                    /\ \A d, e \in Call, j \in Slots : Frees(d, j)' /\ Frees(e, j)' => d = e
  <2>1. Slots' = Slots
    BY <1>1 DEF Slots
  <2>2. srv.running => FreeChain(srv')
    BY <1>1 DEF Owned
  <2>3. QED
    BY <1>1, <2>1, <2>2 DEF Owned, FreeChain, Vacant
<1>2. /\ \A d \in Call, j \in Nat : Holds(d, j)' => Holds(d, j)
      /\ \A d \in Call, j \in Nat : Frees(d, j)' /\ ~Frees(d, j) =>
           /\ d = c /\ srv.refPool[j].object = h /\ Holds(h, j) /\ \A e \in Call : ~Holds(e, j)'
  BY BeginsFrees
<1>3. /\ \A d \in Call, j \in Slots : Holds(d, j) => srv.refPool[j].object = d
      /\ \A d \in Call, j \in Slots : Frees(d, j) =>
           srv.refPool[j].object # NoCall /\ \A e \in Call : ~Holds(e, j)
      /\ \A d, e \in Call, j \in Slots : Frees(d, j) /\ Frees(e, j) => d = e
  BY DEF Owned
<1>4. Slots \subseteq Nat /\ NoCall \notin Call
  <2>1. PICK n \in Nat : DOMAIN srv.refPool = 0 .. n - 1
    BY PoolTypes DEF BaseInv, TypeOK, ServerTypes
  <2>2. QED
    BY <2>1, RpcAssumption DEF Slots
<1>5. \A d \in Call, j \in Slots : Holds(d, j)' => srv.refPool[j].object = d
  BY <1>2, <1>3, <1>4
<1>6. ASSUME NEW d \in Call, NEW j \in Slots, Frees(d, j)'
      PROVE  srv.refPool[j].object # NoCall /\ \A e \in Call : ~Holds(e, j)'
  <2>1. CASE Frees(d, j)
    BY <1>2, <1>3, <1>4, <2>1
  <2>2. CASE ~Frees(d, j)
    BY <1>2, <1>4, <1>6, <2>2
  <2>3. QED
    BY <2>1, <2>2
<1>7. ASSUME NEW d \in Call, NEW e \in Call, NEW j \in Slots, Frees(d, j)', Frees(e, j)'
      PROVE  d = e
  <2>1. CASE Frees(d, j) /\ Frees(e, j)
    BY <1>3, <2>1
  <2>2. CASE ~Frees(d, j) \/ ~Frees(e, j)
    <3>1. Holds(h, j)
      BY <1>2, <1>4, <1>7, <2>2
    <3>2. ~Frees(d, j) /\ ~Frees(e, j)
      BY <1>3, <3>1
    <3>3. QED
      BY <1>2, <1>4, <1>7, <3>2
  <2>3. QED
    BY <2>1, <2>2
<1>8. QED
  BY <1>5, <1>6, <1>7

LEMMA BeginsPolled ==
  ASSUME BaseInv, Settled, Owned, Polled,
         NEW c \in Call, NEW k \in Kind, NEW h \in Call, NEW m \in Request, Begins(c, k, h, m)
  PROVE  Polled'
<1>1. /\ srv' = srv /\ task' = task /\ req' = req
      /\ m.call = c /\ task[c] = "none" /\ \A d \in Call : d # c => pc'[d] = pc[d]
      /\ toServer' = toServer \/ Elems(toServer') \subseteq Elems(toServer) \cup {m}
      /\ \A x \in Elems(toServer) : x.call # c
  <2>1. /\ m.call = c /\ task[c] = "none" /\ \A d \in Call : d # c => pc'[d] = pc[d]
        /\ toServer' = toServer \/ Elems(toServer') \subseteq Elems(toServer) \cup {m}
        /\ \A x \in Elems(toServer) : x.call # c
    BY BeginsFacts
  <2>2. srv' = srv /\ task' = task /\ req' = req
    BY DEF Begins, serverVars
  <2>3. QED
    BY <2>1, <2>2
<1>2. Slots' = Slots
  BY <1>1 DEF Slots
<1>3. (Down => Down') /\ (Down => toServer' = toServer)
  <2>1. /\ lost' = lost \/ lost' = TRUE
        /\ toServer' = toServer \/ ~Down
    BY DEF Begins, Asks
  <2>2. QED
    BY <1>1, <2>1 DEF Down
<1>4. /\ (m.op = "poll" <=> k = "poll")
      /\ k \in {"freeRef", "poll"} => handle[h] # Nil /\ m.index = handle[h]
      /\ pollOn' = pollOn \/ pollOn' = [pollOn EXCEPT ![c] = h]
      /\ k = "poll" => toServer' = toServer \/ (pc'[c] = "polling" /\ pollOn' = [pollOn EXCEPT ![c] = h])
      /\ k = "freeRef" => \A d \in Call : pc[d] = "polling" => pollOn[d] # h
  BY DEF Begins, Asks, Keeps
<1>5. /\ pollOn \in [Call -> Call \cup {NoCall}] /\ handle \in [Call -> Index]
      /\ Slots \subseteq Nat /\ NoCall \notin Call
  <2>1. PICK n \in Nat : DOMAIN srv.refPool = 0 .. n - 1
    BY PoolTypes DEF BaseInv, TypeOK, ServerTypes
  <2>2. QED
    BY <2>1, RpcAssumption DEF Slots, BaseInv, TypeOK, ClientTypes
<1> SUFFICES ASSUME srv.running, NEW d \in Call, NEW j \in Index, Polls(d, j)'
             PROVE  /\ j \in Slots /\ pollOn'[d] \in Call /\ srv.refPool[j].object = pollOn'[d]
                    /\ \A e \in Call : ~Frees(e, j)'
                    /\ Down' \/ (pc'[d] = "polling" /\ handle'[pollOn'[d]] = j)
  BY <1>1, <1>2 DEF Polled, Index
<1>6. /\ \A e \in Call, i \in Nat : Frees(e, i)' /\ ~Frees(e, i) =>
           /\ k = "freeRef" /\ i = handle[h] /\ toServer' # toServer
           /\ srv.refPool[i].object = h
      /\ \A e \in Call : handle'[e] = handle[e] \/ (e = h /\ k = "freeRef" /\ handle'[e] = Nil)
  BY BeginsFrees
<1>7. /\ \A e \in Call, i \in Slots : Holds(e, i) => srv.refPool[i].object = e
      /\ \A e \in Call, i \in Slots : Frees(e, i) => \A f \in Call : ~Holds(f, i)
  BY DEF Owned
<1>8. CASE Polls(d, j)
  <2>1. /\ j \in Slots /\ pollOn[d] \in Call /\ srv.refPool[j].object = pollOn[d]
        /\ \A e \in Call : ~Frees(e, j)
        /\ Down \/ (pc[d] = "polling" /\ handle[pollOn[d]] = j)
    BY <1>8 DEF Polled, Index
  <2>2. d # c
    BY <1>1, <1>8 DEF Polls, Pending
  <2>3. pollOn'[d] = pollOn[d] /\ pc'[d] = pc[d]
    BY <1>1, <1>4, <1>5, <2>2
  <2>4. \A e \in Call : ~Frees(e, j)'
    <3>1. ASSUME NEW e \in Call, Frees(e, j)' PROVE FALSE
      <4>1. k = "freeRef" /\ toServer' # toServer /\ srv.refPool[j].object = h
        BY <1>5, <1>6, <2>1, <3>1
      <4>2. pc[d] = "polling"
        BY <1>3, <2>1, <4>1
      <4>3. QED
        BY <1>4, <2>1, <4>1, <4>2
    <3>2. QED
      BY <3>1
  <2>5. Down' \/ (pc'[d] = "polling" /\ handle'[pollOn'[d]] = j)
    <3>1. CASE Down
      BY <1>3, <3>1
    <3>2. CASE pc[d] = "polling" /\ handle[pollOn[d]] = j
      <4>1. handle'[pollOn[d]] = handle[pollOn[d]]
        BY <1>4, <1>6, <2>1, <3>2
      <4>2. QED
        BY <2>3, <3>2, <4>1
    <3>3. QED
      BY <2>1, <3>1, <3>2
  <2>6. QED
    BY <2>1, <2>3, <2>4, <2>5
<1>9. CASE ~Polls(d, j)
  <2>1. \E x \in Elems(toServer') : x.call = d /\ x.op = "poll" /\ x.index = j
    BY <1>1, <1>9 DEF Polls
  <2>2. d = c /\ m.op = "poll" /\ m.index = j /\ toServer' # toServer
    BY <1>1, <1>9, <2>1 DEF Polls
  <2>3. k = "poll" /\ j = handle[h] /\ j # Nil /\ pc'[c] = "polling" /\ pollOn'[c] = h
    BY <1>4, <1>5, <2>2
  <2>4. j \in Slots /\ Holds(h, j) /\ srv.refPool[j].object = h
    <3>1. j \in Nat /\ Holds(h, j)
      BY <2>3 DEF Holds, Index
    <3>2. j \in Slots
      BY <3>1, HeldSlots
    <3>3. QED
      BY <1>7, <3>1, <3>2
  <2>5. \A e \in Call : ~Frees(e, j)'
    BY <1>5, <1>6, <1>7, <2>3, <2>4
  <2>6. handle'[h] = j
    BY <1>6, <2>3
  <2>7. QED
    BY <2>2, <2>3, <2>4, <2>5, <2>6
<1>10. QED
  BY <1>8, <1>9

LEMMA BeginsMatch ==
  ASSUME ~StaleReuse, MatchInv,
         NEW c \in Call, NEW k \in Kind, NEW h \in Call, NEW m \in Request, Begins(c, k, h, m)
  PROVE  MatchInv'
<1>1. BaseInv /\ FinalLast /\ AnswerIsOwn /\ Matched /\ Settled /\ Owned /\ Polled
  BY DEF MatchInv
<1>2. BaseInv'
  BY <1>1, BeginsBase
<1>3. FinalLast' /\ AnswerIsOwn' /\ Settled'
  BY <1>1, BeginsFinal
<1>4. Matched'
  BY <1>1, BeginsMatched
<1>5. Owned'
  BY <1>1, BeginsOwned
<1>6. Polled'
  BY <1>1, BeginsPolled
<1>7. QED
  BY <1>2, <1>3, <1>4, <1>5, <1>6 DEF MatchInv


-----------------------------------------------------------------------------
(* The other steps of the client, and of the connection, keep it.          *)

LEMMA Unserved ==
  ASSUME BaseInv, Owned, Polled, srv' = srv, Down => Down', pollOn' = pollOn,
         \A d \in Call, j \in Nat : Holds(d, j)' => Holds(d, j),
         \A d \in Call, j \in Nat : Frees(d, j)' => Frees(d, j),
         \A d \in Call, j \in Index : Polls(d, j)' => Polls(d, j),
         \A d \in Call, j \in Slots :
           Polls(d, j) /\ pc[d] = "polling" /\ pollOn[d] \in Call /\ handle[pollOn[d]] = j =>
             Down' \/ (pc'[d] = "polling" /\ handle'[pollOn[d]] = j)
  PROVE  Owned' /\ Polled'
<1>1. /\ srv' \in Context /\ Slots \subseteq Slots' /\ (srv'.running => srv.running)
  BY DEF BaseInv, TypeOK, ServerTypes, Slots
<1>2. Effect(srv, srv', Nil, NoCall)
  BY DEF Effect
<1>3. Nil \in Index /\ NoCall \in Call \cup {NoCall}
  BY DEF Index
<1>4. Owned'
  BY <1>1, <1>2, <1>3, OwnedServed
<1>5. Polled'
  BY <1>1, <1>2, <1>3, PolledServed
<1>6. QED
  BY <1>4, <1>5

LEMMA SignalMatch ==
  ASSUME MatchInv, PySignalSends, UNCHANGED <<pair, serverVars>>
  PROVE  MatchInv'
<1>1. BaseInv /\ FinalLast /\ AnswerIsOwn /\ Matched /\ Settled /\ Owned /\ Polled
  BY DEF MatchInv
<1>2. BaseInv'
  BY <1>1, SignalBase
<1>3. /\ toClient' = toClient /\ lost' = lost /\ waiting' = waiting /\ pc' = pc /\ kind' = kind
      /\ answer' = answer /\ handle' = handle /\ usedSid' = usedSid /\ loop' = loop
      /\ mySid' = mySid /\ pollOn' = pollOn
      /\ pair' = pair /\ srv' = srv /\ task' = task /\ req' = req /\ result' = result
  BY DEF PySignalSends, serverVars
<1>4. \A x \in Elems(toServer') : x \in Elems(toServer) \/ (x.op = "call" /\ x.sid = Signal)
  <2>1. signals \in Seq(Request) /\ signals # <<>> /\ toServer \in Seq(Request)
        /\ \A x \in Elems(signals) : x.op = "call" /\ x.sid = Signal
    BY <1>1 DEF BaseInv, TypeOK, NetTypes, ClientTypes, Kinds, PySignalSends
  <2>2. PICK m \in Request : m = Head(signals) /\ m \in Elems(signals)
    BY <2>1, ElemsTail
  <2>3. toServer' = toServer \/ toServer' = Append(toServer, m)
    BY <2>2 DEF PySignalSends, SendRequest
  <2>4. Elems(Append(toServer, m)) = Elems(toServer) \cup {m}
    BY <2>1, ElemsAppend
  <2>5. m.op = "call" /\ m.sid = Signal
    BY <2>1, <2>2
  <2>6. QED
    BY <2>3, <2>4, <2>5
<1>5. FinalLast' /\ AnswerIsOwn' /\ Settled'
  BY <1>1, <1>3 DEF FinalLast, Final, AnswerIsOwn, Settled
<1>6. Matched'
  <2>1. ASSUME TableOK, AnswersOK PROVE TableOK' /\ AnswersOK'
    BY <1>3, <2>1 DEF TableOK, AnswersOK, Active, PyCalls
  <2>2. ASSUME InTable PROVE InTable'
    BY <1>3, <1>4, <2>2 DEF InTable, HasEntry
  <2>3. QED
    BY <1>1, <1>3, <2>1, <2>2 DEF Matched
<1>7. Owned' /\ Polled'
  <2>1. Down => Down'
    BY <1>3 DEF Down
  <2>2. /\ \A d \in Call, j \in Nat : Holds(d, j)' => Holds(d, j)
        /\ \A d \in Call, j \in Nat : Frees(d, j)' => Frees(d, j)
        /\ \A d \in Call, j \in Index : Polls(d, j)' => Polls(d, j)
    BY <1>3, <1>4 DEF Holds, Frees, Polls
  <2>3. QED
    BY <1>1, <1>3, <2>1, <2>2, Unserved
<1>8. QED
  BY <1>2, <1>5, <1>6, <1>7 DEF MatchInv

LEMMA LoseMatch ==
  ASSUME MatchInv, Lose
  PROVE  MatchInv'
<1>1. BaseInv /\ FinalLast /\ AnswerIsOwn /\ Matched /\ Settled /\ Owned /\ Polled
  BY DEF MatchInv
<1>2. BaseInv'
  BY <1>1, LoseBase
<1>3. /\ lost' = TRUE /\ waiting' = waiting /\ pc' = pc /\ kind' = kind
      /\ answer' = answer /\ handle' = handle /\ usedSid' = usedSid /\ loop' = loop
      /\ mySid' = mySid /\ pollOn' = pollOn
      /\ pair' = pair /\ srv' = srv /\ task' = task /\ req' = req /\ result' = result
  BY DEF Lose, serverVars, clientVars
<1>4. Elems(toServer') = {} /\ Elems(toClient') = {} /\ Len(toClient') = 0
  BY DEF Lose, Elems
<1>5. FinalLast' /\ AnswerIsOwn' /\ Settled'
  BY <1>1, <1>3, <1>4 DEF FinalLast, Final, AnswerIsOwn, Settled
<1>6. Matched'
  <2>1. ASSUME TableOK, AnswersOK PROVE TableOK' /\ AnswersOK'
    BY <1>3, <2>1 DEF TableOK, AnswersOK, Active, PyCalls
  <2>2. ASSUME InTable PROVE InTable'
    BY <1>3, <1>4, <2>2 DEF InTable, HasEntry
  <2>3. QED
    BY <1>1, <1>3, <2>1, <2>2 DEF Matched
<1>7. Owned' /\ Polled'
  <2>1. Down'
    BY <1>3 DEF Down
  <2>2. /\ \A d \in Call, j \in Nat : Holds(d, j)' => Holds(d, j)
        /\ \A d \in Call, j \in Nat : Frees(d, j)' => Frees(d, j)
        /\ \A d \in Call, j \in Index : Polls(d, j)' => Polls(d, j)
    BY <1>3, <1>4 DEF Holds, Frees, Polls
  <2>3. QED
    BY <1>1, <1>3, <2>1, <2>2, Unserved
<1>8. QED
  BY <1>2, <1>5, <1>6, <1>7 DEF MatchInv


LEMMA BreaksMatch ==
  ASSUME MatchInv, Stays, ClientTypes', Breaks
  PROVE  MatchInv'
<1>1. BaseInv /\ FinalLast /\ AnswerIsOwn /\ Matched /\ Settled /\ Owned /\ Polled
  BY DEF MatchInv
<1>2. BaseInv'
  BY <1>1, BreaksGoesOn, GoesOnBase
<1>3. /\ toServer' = toServer /\ lost' = lost /\ kind' = kind /\ pollOn' = pollOn
      /\ srv' = srv /\ task' = task /\ req' = req /\ result' = result
  BY DEF Stays, serverVars
<1>4. /\ mySid' = mySid /\ handle' = handle /\ loop = "receive" /\ loop' = "ended"
      /\ \A d \in Call : /\ answer'[d] \in {answer[d], Raised}
                         /\ pc'[d] = pc[d] \/ (pc[d] = "polling" /\ pc'[d] = "returned")
  BY DEF Breaks
<1>5. Raised.call = NoCall /\ Raised.value = Nil /\ NoCall \notin Call
  BY RpcAssumption DEF Raised
<1>6. toClient' = toClient /\ Down
  <2>1. CASE toClient # <<>> /\ KeyOf(Head(toClient).sid) = {}
    <3>1. toClient \in Seq(Packet)
      BY <1>1 DEF BaseInv, TypeOK, NetTypes
    <3>2. Head(toClient) \in Elems(toClient)
      BY <2>1, <3>1, ElemsTail
    <3>3. HasEntry(Head(toClient).call, Head(toClient).sid)
      BY <1>1, <1>4, <3>2 DEF Matched, InTable
    <3>4. \E k \in 1 .. Len(waiting) : waiting[k].sid = Head(toClient).sid
      BY <3>3 DEF HasEntry, Elems
    <3>5. QED
      BY <2>1, <3>4 DEF KeyOf
  <2>2. QED
    BY <2>1 DEF Breaks
<1>7. FinalLast'
  <2>1. \A d \in Call : pc'[d] \in {"idle", "waiting"} /\ answer'[d].call = d =>
          pc[d] \in {"idle", "waiting"} /\ answer[d].call = d
    BY <1>4, <1>5
  <2>2. QED
    BY <1>1, <1>3, <1>6, <2>1 DEF FinalLast, Final
<1>8. AnswerIsOwn'
  BY <1>1, <1>4, <1>5 DEF AnswerIsOwn
<1>9. Matched'
  BY <1>4 DEF Matched
<1>10. Settled'
  BY <1>1, <1>3, <1>4, <1>5, <1>6 DEF Settled
<1>11. Owned' /\ Polled'
  <2>1. Down'
    BY <1>3, <1>6 DEF Down
  <2>2. \A d \in Call, j \in Nat : Holds(d, j)' => Holds(d, j)
    <3>1. \A d \in Call, j \in Nat : answer'[d].value = j => answer[d].value = j
      BY <1>4, <1>5 DEF Nil
    <3>2. QED
      BY <1>3, <1>4, <1>6, <3>1 DEF Holds
  <2>3. /\ \A d \in Call, j \in Nat : Frees(d, j)' => Frees(d, j)
        /\ \A d \in Call, j \in Index : Polls(d, j)' => Polls(d, j)
    BY <1>3 DEF Frees, Polls
  <2>4. QED
    BY <1>1, <1>3, <2>1, <2>2, <2>3, Unserved
<1>12. QED
  BY <1>2, <1>7, <1>8, <1>9, <1>10, <1>11 DEF MatchInv

(* The packet is the answer to the operation of the entry; after the last  *)
(* there is no more for it.                                                *)
LEMMA GetsFacts ==
  ASSUME MatchInv, NEW m \in Packet, NEW e \in Entry, Gets(m, e)
  PROVE  /\ e.call = m.call /\ m \in Elems(toClient) /\ Elems(toClient') \subseteq Elems(toClient)
         /\ e.callback <=> kind[m.call] = "poll"
         /\ Final(m) => task[m.call] = "ended" /\ \A x \in Elems(toClient') : x.call # m.call
         /\ Ends(m, e) => Final(m)
         /\ \A x \in Elems(toServer) : Final(m) => x.call # m.call
         /\ \A j, k \in 1 .. Len(toClient') :
              toClient'[j].call = toClient'[k].call /\ Final(toClient'[j]) => k <= j
         /\ pc[m.call] # "idle"
<1>1. /\ toClient # <<>> /\ m = Head(toClient) /\ toClient' = Tail(toClient) /\ loop = "receive"
      /\ e \in Elems(waiting) /\ e.sid = m.sid
  BY DEF Gets
<1>2. toClient \in Seq(Packet)
  BY DEF MatchInv, BaseInv, TypeOK, NetTypes
<1>3. m \in Elems(toClient) /\ toClient' \in Seq(Packet) /\ Elems(toClient') \subseteq Elems(toClient)
  BY <1>1, <1>2, ElemsTail
<1>4. TableOK /\ InTable
  BY <1>1 DEF MatchInv, Matched
<1>5. e.call = m.call
  <2>1. PICK f \in Elems(waiting) : f.sid = m.sid /\ f.call = m.call
    BY <1>3, <1>4 DEF InTable, HasEntry
  <2>2. f = e
    BY <1>1, <1>4, <2>1 DEF TableOK, Elems
  <2>3. QED
    BY <2>1, <2>2
<1>6. e.callback <=> kind[m.call] = "poll"
  BY <1>1, <1>5 DEF MatchInv, BaseInv, Kinds
<1> DEFINE F == {x \in Packet : Final(x)}
<1>7. \A x \in Packet : x \in F <=> Final(x)
  OBVIOUS
<1> HIDE DEF F
<1>8. /\ \A x \in Elems(toClient) : Final(x) => task[x.call] = "ended"
      /\ Ordered(toClient, F)
  <2>1. \A j \in 1 .. Len(toClient) : toClient[j] \in Packet
    BY <1>2, ElementOfSeq
  <2>2. QED
    BY <1>7, <2>1 DEF MatchInv, FinalLast, Ordered
<1>9. /\ Ordered(toClient', F)
      /\ m \in F => \A x \in Elems(toClient') : x.call # m.call
  BY <1>1, <1>2, <1>8, OrderedTail
<1>10. \A j, k \in 1 .. Len(toClient') :
         toClient'[j].call = toClient'[k].call /\ Final(toClient'[j]) => k <= j
  <2>1. \A j \in 1 .. Len(toClient') : toClient'[j] \in Packet
    BY <1>3, ElementOfSeq
  <2>2. QED
    BY <1>7, <1>9, <2>1 DEF Ordered
<1>11. Final(m) => task[m.call] = "ended" /\ \A x \in Elems(toClient') : x.call # m.call
  BY <1>3, <1>7, <1>8, <1>9
<1>12. \A x \in Elems(toServer) : task[x.call] = "none"
  BY DEF MatchInv, BaseInv, OnePlace
<1>13. Ends(m, e) => Final(m)
  BY DEF Ends, Final
<1>14. pc[m.call] # "idle"
  BY <1>1, <1>5 DEF MatchInv, BaseInv, OnePlace
<1>15. QED
  BY <1>3, <1>5, <1>6, <1>10, <1>11, <1>12, <1>13, <1>14


LEMMA GetsMatched ==
  ASSUME MatchInv, Stays, ClientTypes', NEW m \in Packet, NEW e \in Entry, Gets(m, e)
  PROVE  TableOK' /\ AnswersOK' /\ InTable'
<1>1. /\ loop = "receive" /\ e \in Elems(waiting) /\ e.sid = m.sid /\ mySid' = mySid
      /\ answer' = answer \/ answer' = [answer EXCEPT ![e.call] = m]
      /\ usedSid' = IF Ends(m, e) THEN usedSid \ {m.sid} ELSE usedSid
      /\ pc' = IF Ends(m, e) THEN [pc EXCEPT ![e.call] = "returned"] ELSE pc
      /\ Elems(waiting') \subseteq Elems(waiting)
  BY DEF Gets
<1>2. /\ e.call = m.call /\ m.call \in Call /\ e.callback \in BOOLEAN
      /\ e.callback <=> kind[m.call] = "poll"
      /\ Final(m) => /\ task[m.call] = "ended" /\ \A x \in Elems(toClient') : x.call # m.call
                     /\ \A x \in Elems(toServer) : x.call # m.call
      /\ Ends(m, e) => Final(m)
      /\ Elems(toClient') \subseteq Elems(toClient)
  BY GetsFacts DEF Entry, Packet
<1>3. TableOK /\ AnswersOK /\ InTable
  BY <1>1 DEF MatchInv, Matched
<1>4. /\ toServer' = toServer /\ task' = task /\ req' = req /\ pair' = pair
      /\ DOMAIN pc = Call /\ DOMAIN answer = Call
  BY DEF Stays, serverVars, MatchInv, BaseInv, TypeOK, ClientTypes
<1>5. Unique(waiting)
  BY <1>3 DEF TableOK, Unique
<1>6. /\ Unique(waiting')
      /\ \A f \in Elems(waiting) : f.sid # m.sid \/ (e.callback /\ ~Ends(m, e)) => f \in Elems(waiting')
      /\ Ends(m, e) \/ (PyCalls /\ ~e.callback) => \A f \in Elems(waiting') : f.sid # m.sid
  BY <1>5 DEF Gets
<1>7. \A f \in Elems(waiting) : f.sid = m.sid => f = e
  BY <1>1, <1>5 DEF Unique, Elems
<1>8. \A d \in Call : /\ pc'[d] = pc[d] \/ (Ends(m, e) /\ d = m.call /\ pc'[d] = "returned")
                      /\ answer'[d] = answer[d] \/ (d = m.call /\ answer'[d] = m)
  BY <1>1, <1>2, <1>4
<1>9. \A d \in Call : Active(d)' => Active(d) /\ (Ends(m, e) => d # m.call)
  <2>1. ASSUME NEW d \in Call, pc'[d] \in {"waiting", "polling"}
        PROVE  pc[d] \in {"waiting", "polling"} /\ (Ends(m, e) => d # m.call)
    BY <1>1, <1>2, <1>4, <2>1
  <2>2. QED
    BY <2>1 DEF Active
<1>10. TableOK'
  <2>1. \A i, j \in 1 .. Len(waiting') : waiting'[i].sid = waiting'[j].sid => i = j
    BY <1>6 DEF Unique
  <2>2. \A f, g \in Elems(waiting') : f.call = g.call => f = g
    BY <1>1, <1>3 DEF TableOK
  <2>3. ASSUME NEW f \in Elems(waiting'), f.sid \notin usedSid' PROVE f.done \/ pc'[f.call] = "raised"
    <3>1. f \in Elems(waiting) /\ f.call \in Call
      BY <1>1, Members DEF MatchInv, BaseInv
    <3>2. CASE Ends(m, e)
      <4>1. f.sid # m.sid /\ f.sid \notin usedSid
        BY <1>1, <1>6, <2>3, <3>2
      <4>2. f.call # m.call
        BY <1>1, <1>2, <1>3, <3>1, <4>1 DEF TableOK
      <4>3. QED
        BY <1>3, <1>8, <3>1, <4>1, <4>2 DEF TableOK
    <3>3. CASE ~Ends(m, e)
      BY <1>1, <1>3, <2>3, <3>1, <3>3 DEF TableOK
    <3>4. QED
      BY <3>2, <3>3
  <2>4. ASSUME NEW d \in Call, Active(d)' PROVE mySid'[d] \in usedSid'
    <3>1. Active(d) /\ mySid[d] \in usedSid
      BY <1>3, <1>9, <2>4 DEF TableOK
    <3>2. Ends(m, e) => mySid[d] # m.sid
      BY <1>1, <1>2, <1>3, <1>9, <2>4, <3>1 DEF TableOK
    <3>3. QED
      BY <1>1, <3>1, <3>2
  <2>5. /\ \A d, f \in Call : Active(d)' /\ Active(f)' /\ mySid'[d] = mySid'[f] => d = f
        /\ \A d \in Call : Active(d)' => \A f \in Elems(waiting') : f.sid = mySid'[d] <=> f.call = d
    BY <1>1, <1>3, <1>9 DEF TableOK
  <2>6. QED
    BY <2>1, <2>2, <2>3, <2>4, <2>5 DEF TableOK
<1>11. AnswersOK'
  <2>1. \A d \in Call : answer'[d] # None => answer'[d].call = d
    BY <1>3, <1>8 DEF AnswersOK
  <2>2. ASSUME NEW d \in Call, PyCalls', pc'[d] = "waiting", answer'[d] # None, NEW f \in Elems(waiting')
        PROVE  f.sid # mySid'[d]
    <3>1. PyCalls /\ pc[d] = "waiting" /\ Active(d) /\ f \in Elems(waiting)
      BY <1>1, <1>4, <1>8, <2>2 DEF PyCalls, Active
    <3>2. CASE answer'[d] = answer[d]
      BY <1>1, <1>3, <2>2, <3>1, <3>2 DEF AnswersOK
    <3>3. CASE d = m.call
      <4>1. ~e.callback
        <5>1. kind[d] # "poll"
          BY <3>1 DEF MatchInv, BaseInv, Kinds
        <5>2. QED
          BY <1>2, <3>3, <5>1
      <4>2. mySid[d] = m.sid
        BY <1>1, <1>2, <1>3, <3>1, <3>3 DEF TableOK
      <4>3. QED
        BY <1>1, <1>6, <3>1, <4>1, <4>2
    <3>4. QED
      BY <1>8, <3>2, <3>3
  <2>3. QED
    BY <2>1, <2>2 DEF AnswersOK
<1>12. ASSUME NEW d, NEW sid, HasEntry(d, sid), d # m.call \/ ~Final(m) PROVE HasEntry(d, sid)'
  <2>1. PICK f \in Elems(waiting) : f.sid = sid /\ f.call = d
    BY <1>12 DEF HasEntry
  <2>2. f.sid # m.sid \/ (e.callback /\ ~Ends(m, e))
    BY <1>2, <1>7, <1>12, <2>1 DEF Final
  <2>3. QED
    BY <1>6, <2>1, <2>2 DEF HasEntry
<1>13. InTable'
  <2>1. \A x \in Elems(toServer') : x.sid # Signal => HasEntry(x.call, x.sid)'
    BY <1>2, <1>3, <1>4, <1>12 DEF InTable
  <2>2. \A d \in Call : task[d] \in Pending /\ req[d].sid # Signal =>
          \E f \in Elems(waiting') : f.sid = req[d].sid /\ f.call = d
    <3>1. ASSUME NEW d \in Call, NEW sid, task[d] \in Pending, HasEntry(d, sid)
          PROVE  \E f \in Elems(waiting') : f.sid = sid /\ f.call = d
      <4>1. HasEntry(d, sid)'
        BY <1>2, <1>12, <3>1 DEF Pending
      <4>2. QED
        BY <4>1 DEF HasEntry
    <3>2. QED
      BY <1>3, <3>1 DEF InTable
  <2>3. \A x \in Elems(toClient') : HasEntry(x.call, x.sid)'
    BY <1>2, <1>3, <1>12 DEF InTable
  <2>4. \A d \in Call : task'[d] \in Pending /\ req'[d].sid # Signal =>
          \E f \in Elems(waiting') : f.sid = req'[d].sid /\ f.call = d
    BY <1>4, <2>2
  <2>5. QED
    BY <2>1, <2>3, <2>4 DEF InTable, HasEntry
<1>14. QED
  BY <1>10, <1>11, <1>13

LEMMA GetsMatch ==
  ASSUME MatchInv, Stays, ClientTypes', NEW m \in Packet, NEW e \in Entry, Gets(m, e)
  PROVE  MatchInv'
<1>1. BaseInv /\ FinalLast /\ AnswerIsOwn /\ Matched /\ Settled /\ Owned /\ Polled
  BY DEF MatchInv
<1>2. BaseInv'
  BY <1>1, GetsGoesOn, GoesOnBase
<1>3. /\ toServer' = toServer /\ lost' = lost /\ kind' = kind /\ pollOn' = pollOn
      /\ srv' = srv /\ task' = task /\ req' = req /\ result' = result
  BY DEF Stays, serverVars
<1>4. /\ handle' = handle
      /\ answer' = answer \/ answer' = [answer EXCEPT ![e.call] = m]
      /\ pc' = IF Ends(m, e) THEN [pc EXCEPT ![e.call] = "returned"] ELSE pc
  BY DEF Gets
<1>5. /\ e.call = m.call /\ m.call \in Call /\ m \in Elems(toClient)
      /\ e.callback <=> kind[m.call] = "poll"
      /\ Final(m) => /\ task[m.call] = "ended" /\ \A x \in Elems(toClient') : x.call # m.call
                     /\ \A x \in Elems(toServer) : x.call # m.call
      /\ Ends(m, e) => Final(m)
      /\ Elems(toClient') \subseteq Elems(toClient)
      /\ pc[m.call] # "idle"
  BY GetsFacts DEF Packet
<1>6. \A d \in Call : /\ pc'[d] = pc[d] \/ (Ends(m, e) /\ d = m.call /\ pc'[d] = "returned")
                      /\ answer'[d] = answer[d] \/ (d = m.call /\ answer'[d] = m)
  <2>1. DOMAIN pc = Call /\ DOMAIN answer = Call
    BY <1>1 DEF BaseInv, TypeOK, ClientTypes
  <2>2. QED
    BY <1>4, <1>5, <2>1
<1>7. FinalLast'
  <2>1. \A j, k \in 1 .. Len(toClient') :
          toClient'[j].call = toClient'[k].call /\ Final(toClient'[j]) => k <= j
    BY GetsFacts
  <2>2. ASSUME NEW d \in Call, pc'[d] \in {"idle", "waiting"}, answer'[d].call = d
        PROVE  task'[d] = "ended" /\ \A x \in Elems(toClient') : x.call # d
    <3>1. pc[d] = pc'[d]
      BY <1>6, <2>2
    <3>2. CASE answer'[d] = answer[d]
      BY <1>1, <1>3, <1>5, <2>2, <3>1, <3>2 DEF FinalLast
    <3>3. CASE d = m.call
      <4>1. pc[d] = "waiting"
        BY <1>5, <2>2, <3>1, <3>3
      <4>2. kind[d] # "poll"
        BY <1>1, <4>1 DEF BaseInv, Kinds
      <4>3. QED
        BY <1>3, <1>5, <3>3, <4>2 DEF Final
    <3>4. QED
      BY <1>6, <3>2, <3>3
  <2>3. \A x \in Elems(toClient') : Final(x) => task'[x.call] = "ended"
    BY <1>1, <1>3, <1>5 DEF FinalLast
  <2>4. QED
    BY <1>3, <2>1, <2>2, <2>3 DEF FinalLast, Final
<1>8. AnswerIsOwn'
  BY <1>1, <1>6 DEF AnswerIsOwn
<1>9. Matched'
  BY GetsMatched DEF Matched
<1>10. Settled'
  <2>1. ASSUME NEW d \in Call, handle[d] # Nil
        PROVE  /\ pc'[d] = "returned" /\ task'[d] = "ended" /\ answer'[d].value = Nil
               /\ \A x \in Elems(toClient') : x.call # d
    <3>1. /\ pc[d] = "returned" /\ task[d] = "ended" /\ answer[d].value = Nil
          /\ \A x \in Elems(toClient) : x.call # d
      BY <1>1, <2>1 DEF Settled
    <3>2. d # m.call
      BY <1>5, <3>1
    <3>3. QED
      BY <1>3, <1>5, <1>6, <3>1, <3>2
  <2>2. QED
    BY <1>4, <2>1 DEF Settled
<1>11. Owned' /\ Polled'
  <2>1. Down => Down'
    BY <1>3 DEF Down
  <2>2. \A d \in Call, j \in Nat : Holds(d, j)' => Holds(d, j)
    BY <1>3, <1>4, <1>5, <1>6 DEF Holds
  <2>3. /\ \A d \in Call, j \in Nat : Frees(d, j)' => Frees(d, j)
        /\ \A d \in Call, j \in Index : Polls(d, j)' => Polls(d, j)
    BY <1>3 DEF Frees, Polls
  <2>4. ASSUME NEW d \in Call, NEW j \in Slots, Polls(d, j), pc[d] = "polling"
        PROVE  pc'[d] = "polling"
    <3>1. ASSUME Ends(m, e), d = m.call PROVE FALSE
      BY <1>5, <2>4, <3>1 DEF Polls, Pending
    <3>2. QED
      BY <1>6, <2>4, <3>1
  <2>5. QED
    BY <1>1, <1>3, <1>4, <2>1, <2>2, <2>3, <2>4, Unserved
<1>12. QED
  BY <1>2, <1>7, <1>8, <1>9, <1>10, <1>11 DEF MatchInv


(* An answer that c was given is of its own, the last, and leaves it       *)
(* without an entry.                                                       *)
LEMMA PartsFacts ==
  ASSUME MatchInv, NEW c \in Call, Parts(c)
  PROVE  /\ answer[c] # None /\ answer[c] # Raised =>
              /\ answer[c].call = c /\ task[c] = "ended"
              /\ \A x \in Elems(toServer) \cup Elems(toClient) : x.call # c
         /\ answer[c] = None \/ answer[c] = Raised => answer[c].value = Nil
         /\ handle[c] = Nil
<1>1. /\ pc[c] = "waiting" /\ answer[c] \in Packet \cup {None, Raised}
  BY DEF Parts, MatchInv, BaseInv, TypeOK, ClientTypes
<1>2. None.value = Nil /\ Raised.value = Nil
  BY DEF None, Raised
<1>3. ASSUME answer[c] # None, answer[c] # Raised
      PROVE  /\ answer[c].call = c /\ task[c] = "ended"
             /\ \A x \in Elems(toServer) \cup Elems(toClient) : x.call # c
  <2>1. answer[c].call \in Call /\ NoCall \notin Call
    BY <1>1, <1>3, RpcAssumption DEF Packet
  <2>2. answer[c].call = c
    BY <2>1 DEF MatchInv, AnswerIsOwn
  <2>3. task[c] = "ended" /\ \A x \in Elems(toClient) : x.call # c
    BY <1>1, <2>2 DEF MatchInv, FinalLast
  <2>4. \A x \in Elems(toServer) : x.call # c
    BY <2>3 DEF MatchInv, BaseInv, OnePlace
  <2>5. QED
    BY <2>2, <2>3, <2>4
<1>4. handle[c] = Nil
  BY <1>1 DEF MatchInv, Settled
<1>5. QED
  BY <1>2, <1>3, <1>4

LEMMA PartsMatched ==
  ASSUME MatchInv, Stays, ClientTypes', NEW c \in Call, Parts(c), loop = "receive"
  PROVE  TableOK' /\ AnswersOK' /\ InTable'
<1>1. /\ pc[c] = "waiting" /\ pc'[c] \in {"returned", "raised", "cancelled"}
      /\ \A d \in Call : d # c => pc'[d] = pc[d] /\ mySid'[d] = mySid[d] /\ answer'[d] = answer[d]
      /\ answer'[c] = None
      /\ toClient' = toClient /\ usedSid' = usedSid \ {mySid[c]}
  BY DEF Parts, MatchInv, BaseInv, TypeOK, ClientTypes
<1>2. TableOK /\ AnswersOK /\ InTable
  BY DEF MatchInv, Matched
<1>3. /\ toServer' = toServer /\ task' = task /\ req' = req /\ pair' = pair
      /\ waiting \in Seq(Entry) /\ \A x \in Elems(waiting) : x.call \in Call
  BY Members DEF Stays, serverVars, MatchInv, BaseInv, TypeOK, ClientTypes
<1>4. Active(c) /\ Unique(waiting)
  BY <1>1, <1>2 DEF Active, TableOK, Unique
<1>5. \A f \in Elems(waiting) : f.sid = mySid[c] <=> f.call = c
  BY <1>2, <1>4 DEF TableOK
<1>6. \A d \in Call : Active(d)' => d # c /\ Active(d) /\ mySid'[d] = mySid[d] /\ mySid[d] # mySid[c]
  <2>1. \A d \in Call : Active(d)' => d # c /\ Active(d)
    BY <1>1 DEF Active
  <2>2. \A d \in Call : d # c /\ Active(d) => mySid[d] # mySid[c]
    BY <1>2, <1>4 DEF TableOK
  <2>3. QED
    BY <1>1, <2>1, <2>2
<1>7. /\ \A d \in Call : Active(d)' => mySid'[d] \in usedSid'
      /\ \A d, f \in Call : Active(d)' /\ Active(f)' /\ mySid'[d] = mySid'[f] => d = f
  BY <1>1, <1>2, <1>6 DEF TableOK
<1>8. \A d \in Call : answer'[d] # None => answer'[d].call = d
  BY <1>1, <1>2 DEF AnswersOK
<1>9. \A d \in Call : PyCalls' /\ pc'[d] = "waiting" /\ answer'[d] # None =>
        d # c /\ PyCalls /\ pc[d] = "waiting" /\ answer[d] # None /\ mySid'[d] = mySid[d]
  BY <1>1, <1>3 DEF PyCalls
<1>10. \A f \in Elems(waiting) : f.sid \notin usedSid => f.done \/ (f.call # c /\ pc'[f.call] = "raised")
  BY <1>1, <1>2, <1>3 DEF TableOK
<1>11. CASE /\ answer[c] # None
            /\ \/ (PyCalls \/ answer[c] = Raised) /\ waiting' = waiting
               \/ waiting' = Without(waiting, mySid[c])
  <2>1. answer[c] # Raised
    <3>1. Raised.call = NoCall /\ NoCall \notin Call
      BY RpcAssumption DEF Raised
    <3>2. QED
      BY <1>2, <1>11, <3>1 DEF AnswersOK
  <2>2. /\ task[c] = "ended"
        /\ \A x \in Elems(toServer) \cup Elems(toClient) : x.call # c
    BY <1>11, <2>1, PartsFacts
  <2>3. Unique(waiting') /\ Elems(waiting') = {f \in Elems(waiting) : f.sid # mySid[c]}
    <3>1. CASE PyCalls /\ waiting' = waiting
      <4>1. \A f \in Elems(waiting) : f.sid # mySid[c]
        BY <1>1, <1>2, <1>11, <3>1 DEF AnswersOK
      <4>2. QED
        BY <1>4, <3>1, <4>1
    <3>2. CASE waiting' = Without(waiting, mySid[c])
      BY <1>3, <1>4, <3>2, WithoutFacts
    <3>3. QED
      BY <1>11, <2>1, <3>1, <3>2
  <2>4. TableOK'
    <3>1. \A i, j \in 1 .. Len(waiting') : waiting'[i].sid = waiting'[j].sid => i = j
      BY <2>3 DEF Unique
    <3>2. \A f, g \in Elems(waiting') : f.call = g.call => f = g
      BY <1>2, <2>3 DEF TableOK
    <3>3. \A f \in Elems(waiting') : f.sid \notin usedSid' => f.done \/ pc'[f.call] = "raised"
      BY <1>1, <1>10, <2>3
    <3>4. \A d \in Call : Active(d)' => \A f \in Elems(waiting') : f.sid = mySid'[d] <=> f.call = d
      BY <1>2, <1>6, <2>3 DEF TableOK
    <3>5. QED
      BY <1>7, <3>1, <3>2, <3>3, <3>4 DEF TableOK
  <2>5. AnswersOK'
    <3>1. \A d \in Call : PyCalls' /\ pc'[d] = "waiting" /\ answer'[d] # None =>
            \A f \in Elems(waiting') : f.sid # mySid'[d]
      BY <1>2, <1>9, <2>3 DEF AnswersOK
    <3>2. QED
      BY <1>8, <3>1 DEF AnswersOK
  <2>6. \A d, sid : HasEntry(d, sid) /\ d # c => \E f \in Elems(waiting') : f.sid = sid /\ f.call = d
    BY <1>5, <2>3 DEF HasEntry
  <2>7. InTable'
    <3>1. \A x \in Elems(toServer') : x.sid # Signal =>
            \E f \in Elems(waiting') : f.sid = x.sid /\ f.call = x.call
      BY <1>2, <1>3, <2>2, <2>6 DEF InTable
    <3>2. \A d \in Call : task[d] \in Pending /\ req[d].sid # Signal =>
            \E f \in Elems(waiting') : f.sid = req[d].sid /\ f.call = d
      BY <1>2, <2>2, <2>6 DEF InTable, Pending
    <3>3. \A x \in Elems(toClient') : \E f \in Elems(waiting') : f.sid = x.sid /\ f.call = x.call
      BY <1>1, <1>2, <2>2, <2>6 DEF InTable
    <3>4. QED
      BY <1>3, <3>1, <3>2, <3>3 DEF InTable, HasEntry
  <2>8. QED
    BY <2>4, <2>5, <2>7
<1>12. CASE /\ Len(waiting') = Len(waiting)
            /\ \A k \in 1 .. Len(waiting) : /\ Alike(waiting'[k], waiting[k])
                                            /\ waiting'[k].done <=> waiting[k].done \/ waiting[k].call = c
  <2>1. PICK w : w = waiting'
    OBVIOUS
  <2>2. /\ Len(w) = Len(waiting)
        /\ \A k \in 1 .. Len(waiting) : /\ w[k].sid = waiting[k].sid /\ w[k].call = waiting[k].call
                                        /\ w[k].done <=> waiting[k].done \/ waiting[k].call = c
    BY <1>12, <2>1 DEF Alike
  <2>3. \A f \in Elems(w) : \E g \in Elems(waiting) :
          f.sid = g.sid /\ f.call = g.call /\ (f.done <=> g.done \/ g.call = c)
    BY <2>2 DEF Elems
  <2>4. \A g \in Elems(waiting) : \E f \in Elems(w) : f.sid = g.sid /\ f.call = g.call
    BY <2>2 DEF Elems
  <2>5. \A i, j \in 1 .. Len(w) : w[i].sid = w[j].sid => i = j
    BY <1>4, <2>2 DEF Unique
  <2>6. \A f, g \in Elems(w) : f.call = g.call => f = g
    <3>1. ASSUME NEW i \in 1 .. Len(w), NEW j \in 1 .. Len(w), w[i].call = w[j].call PROVE i = j
      <4>1. waiting[i] \in Elems(waiting) /\ waiting[j] \in Elems(waiting)
        BY <2>2 DEF Elems
      <4>2. waiting[i].call = waiting[j].call
        BY <2>2, <3>1
      <4>3. waiting[i] = waiting[j]
        BY <1>2, <4>1, <4>2 DEF TableOK
      <4>4. QED
        BY <1>4, <2>2, <4>3 DEF Unique
    <3>2. QED
      BY <3>1 DEF Elems
  <2>7. \A f \in Elems(w) : f.sid \notin usedSid' => f.done \/ pc'[f.call] = "raised"
    <3>1. ASSUME NEW f \in Elems(w), f.sid \notin usedSid' PROVE f.done \/ pc'[f.call] = "raised"
      <4>1. PICK g \in Elems(waiting) :
              f.sid = g.sid /\ f.call = g.call /\ (f.done <=> g.done \/ g.call = c)
        BY <2>3
      <4>2. CASE g.sid = mySid[c]
        BY <1>5, <4>1, <4>2
      <4>3. CASE g.sid \notin usedSid
        BY <1>10, <4>1, <4>3
      <4>4. QED
        BY <1>1, <3>1, <4>1, <4>2, <4>3
    <3>2. QED
      BY <3>1
  <2>8. \A d \in Call : Active(d)' => \A f \in Elems(w) : f.sid = mySid'[d] <=> f.call = d
    <3>1. \A d \in Call : Active(d)' => \A g \in Elems(waiting) : g.sid = mySid'[d] <=> g.call = d
      BY <1>2, <1>6 DEF TableOK
    <3>2. QED
      BY <2>3, <3>1
  <2>9. TableOK'
    BY <1>7, <2>1, <2>5, <2>6, <2>7, <2>8 DEF TableOK
  <2>10. AnswersOK'
    <3>1. \A d \in Call : PyCalls' /\ pc'[d] = "waiting" /\ answer'[d] # None =>
            \A g \in Elems(waiting) : g.sid # mySid'[d]
      BY <1>2, <1>9 DEF AnswersOK
    <3>2. QED
      BY <1>8, <2>1, <2>3, <3>1 DEF AnswersOK
  <2>11. \A d, sid : HasEntry(d, sid) => \E f \in Elems(w) : f.sid = sid /\ f.call = d
    BY <2>4 DEF HasEntry
  <2>12. InTable'
    <3>1. \A x \in Elems(toServer') : x.sid # Signal =>
            \E f \in Elems(waiting') : f.sid = x.sid /\ f.call = x.call
      BY <1>2, <1>3, <2>1, <2>11 DEF InTable
    <3>2. \A d \in Call : task[d] \in Pending /\ req[d].sid # Signal =>
            \E f \in Elems(waiting') : f.sid = req[d].sid /\ f.call = d
      BY <1>2, <2>1, <2>11 DEF InTable
    <3>3. \A x \in Elems(toClient') : \E f \in Elems(waiting') : f.sid = x.sid /\ f.call = x.call
      BY <1>1, <1>2, <2>1, <2>11 DEF InTable
    <3>4. QED
      BY <1>3, <3>1, <3>2, <3>3 DEF InTable, HasEntry
  <2>13. QED
    BY <2>9, <2>10, <2>12
<1>13. QED
  BY <1>11, <1>12 DEF Parts


LEMMA PartsMatch ==
  ASSUME MatchInv, Stays, ClientTypes', NEW c \in Call, Parts(c)
  PROVE  MatchInv'
<1>1. BaseInv /\ FinalLast /\ AnswerIsOwn /\ Matched /\ Settled /\ Owned /\ Polled
  BY DEF MatchInv
<1>2. BaseInv'
  BY <1>1, PartsGoesOn, GoesOnBase
<1>3. /\ toServer' = toServer /\ lost' = lost /\ kind' = kind /\ pollOn' = pollOn
      /\ srv' = srv /\ task' = task /\ req' = req /\ result' = result
  BY DEF Stays, serverVars
<1>4. /\ pc[c] = "waiting" /\ pc'[c] \in {"returned", "raised", "cancelled"}
      /\ \A d \in Call : d # c => pc'[d] = pc[d] /\ answer'[d] = answer[d] /\ handle'[d] = handle[d]
      /\ answer'[c] = None
      /\ \/ handle'[c] = handle[c]
         \/ answer[c] # None /\ pc'[c] = "returned" /\ handle'[c] = answer[c].value
      /\ toClient' = toClient /\ loop' = loop
  BY DEF Parts, MatchInv, BaseInv, TypeOK, ClientTypes
<1>5. /\ answer[c] # None /\ answer[c] # Raised =>
           task[c] = "ended" /\ \A x \in Elems(toServer) \cup Elems(toClient) : x.call # c
      /\ answer[c] = None \/ answer[c] = Raised => answer[c].value = Nil
      /\ handle[c] = Nil
  BY PartsFacts
<1>6. None.call = NoCall /\ None.value = Nil /\ NoCall \notin Call
  BY RpcAssumption DEF None
<1>7. FinalLast'
  <2>1. \A d \in Call : pc'[d] \in {"idle", "waiting"} /\ answer'[d].call = d =>
          pc[d] \in {"idle", "waiting"} /\ answer[d].call = d
    BY <1>4
  <2>2. QED
    BY <1>1, <1>3, <1>4, <2>1 DEF FinalLast, Final
<1>8. AnswerIsOwn'
  BY <1>1, <1>4, <1>6 DEF AnswerIsOwn
<1>9. Matched'
  BY <1>4, PartsMatched DEF Matched
<1>10. Settled'
  <2>1. ASSUME NEW d \in Call, handle'[d] # Nil
        PROVE  /\ pc'[d] = "returned" /\ task'[d] = "ended" /\ answer'[d].value = Nil
               /\ \A x \in Elems(toClient') : x.call # d
    <3>1. CASE d # c
      <4>1. handle[d] # Nil
        BY <1>4, <2>1, <3>1
      <4>2. /\ pc[d] = "returned" /\ task[d] = "ended" /\ answer[d].value = Nil
            /\ \A x \in Elems(toClient) : x.call # d
        BY <1>1, <4>1 DEF Settled
      <4>3. QED
        BY <1>3, <1>4, <3>1, <4>2
    <3>2. CASE d = c
      <4>1. answer[c] # None /\ pc'[c] = "returned" /\ answer[c].value # Nil
        BY <1>4, <1>5, <2>1, <3>2
      <4>2. answer[c] # Raised
        BY <1>5, <4>1
      <4>3. QED
        BY <1>3, <1>4, <1>5, <1>6, <3>2, <4>1, <4>2
    <3>3. QED
      BY <3>1, <3>2
  <2>2. QED
    BY <2>1 DEF Settled
<1>11. Owned' /\ Polled'
  <2>1. Down => Down'
    BY <1>3 DEF Down
  <2>2. \A d \in Call, j \in Nat : Holds(d, j)' => Holds(d, j)
    <3>1. \A d \in Call, j \in Nat : answer'[d].value = j => answer[d].value = j
      BY <1>4, <1>6 DEF Nil
    <3>2. \A d \in Call, j \in Nat : handle'[d] = j => handle[d] = j \/ answer[d].value = j
      BY <1>4
    <3>3. QED
      BY <1>3, <1>4, <3>1, <3>2 DEF Holds
  <2>3. /\ \A d \in Call, j \in Nat : Frees(d, j)' => Frees(d, j)
        /\ \A d \in Call, j \in Index : Polls(d, j)' => Polls(d, j)
    BY <1>3 DEF Frees, Polls
  <2>4. ASSUME NEW d \in Call, NEW j \in Slots, pc[d] = "polling", pollOn[d] \in Call, handle[pollOn[d]] = j
        PROVE  pc'[d] = "polling" /\ handle'[pollOn[d]] = j
    <3>1. j # Nil
      <4>1. PICK n \in Nat : DOMAIN srv.refPool = 0 .. n - 1
        BY <1>1, PoolTypes DEF BaseInv, TypeOK, ServerTypes
      <4>2. QED
        BY <4>1 DEF Slots, Nil
    <3>2. pollOn[d] # c /\ d # c
      BY <1>4, <1>5, <2>4, <3>1
    <3>3. QED
      BY <1>4, <2>4, <3>2
  <2>5. QED
    BY <1>1, <1>3, <2>1, <2>2, <2>3, <2>4, Unserved
<1>12. QED
  BY <1>2, <1>7, <1>8, <1>9, <1>10, <1>11 DEF MatchInv



-----------------------------------------------------------------------------
(* MatchInv always holds, and what follows from it.                        *)

LEMMA MatchKept ==
  ASSUME ~StaleReuse, MatchInv, [Next]_vars
  PROVE  MatchInv'
<1>1. BaseInv
  BY DEF MatchInv
<1>2. CASE Serves
  BY <1>2, ServerMatch
<1>3. CASE \E c \in Call, k \in Kind, h \in Call, m \in Request : Begins(c, k, h, m)
  BY <1>3, BeginsMatch
<1>4. CASE Stays /\ ClientTypes' /\ Breaks
  BY <1>4, BreaksMatch
<1>5. CASE Stays /\ ClientTypes' /\ \E m \in Packet, e \in Entry : Gets(m, e)
  BY <1>5, GetsMatch
<1>6. CASE Stays /\ ClientTypes' /\ \E c \in Call : Parts(c)
  BY <1>6, PartsMatch
<1>7. CASE PySignalSends /\ UNCHANGED <<pair, serverVars>>
  BY <1>7, SignalMatch
<1>8. CASE Lose
  BY <1>8, LoseMatch
<1>9. CASE UNCHANGED vars
  <2>1. /\ srv' = srv /\ lost' = lost /\ waiting' = waiting /\ pc' = pc /\ kind' = kind
        /\ answer' = answer /\ handle' = handle /\ usedSid' = usedSid /\ loop' = loop
        /\ mySid' = mySid /\ pollOn' = pollOn /\ pair' = pair
        /\ task' = task /\ req' = req /\ result' = result
        /\ toServer' = toServer /\ toClient' = toClient
    BY <1>9 DEF vars, netVars, serverVars, clientVars
  <2>2. BaseInv'
    BY <1>1, <1>9, BaseKept
  <2>3. FinalLast' /\ AnswerIsOwn' /\ Settled'
    BY <2>1 DEF MatchInv, FinalLast, Final, AnswerIsOwn, Settled
  <2>4. Matched'
    BY <2>1 DEF MatchInv, Matched, TableOK, AnswersOK, InTable, HasEntry, Active, PyCalls
  <2>5. /\ \A d \in Call, j \in Nat : Holds(d, j)' => Holds(d, j)
        /\ \A d \in Call, j \in Nat : Frees(d, j)' => Frees(d, j)
        /\ \A d \in Call, j \in Index : Polls(d, j)' => Polls(d, j)
        /\ Down => Down'
    BY <2>1 DEF Holds, Frees, Polls, Down
  <2>6. Owned' /\ Polled'
    BY <1>1, <2>1, <2>5, Unserved DEF MatchInv
  <2>7. QED
    BY <2>2, <2>3, <2>4, <2>6 DEF MatchInv
<1>10. QED
  BY <1>1, <1>2, <1>3, <1>4, <1>5, <1>6, <1>7, <1>8, <1>9, Steps

LEMMA MatchFirst ==
  ASSUME Init
  PROVE  MatchInv
<1>1. BaseInv
  BY BaseFirst
<1>2. /\ toServer = <<>> /\ toClient = <<>> /\ waiting = <<>>
      /\ task = [c \in Call |-> "none"] /\ pc = [c \in Call |-> "idle"]
      /\ answer = [c \in Call |-> None] /\ handle = [c \in Call |-> Nil]
      /\ result = [c \in Call |-> Done]
  BY DEF Init
<1>3. /\ Len(toClient) = 0 /\ Len(waiting) = 0
      /\ Elems(toServer) = {} /\ Elems(toClient) = {} /\ Elems(waiting) = {}
  BY <1>2 DEF Elems
<1>4. None.call = NoCall /\ None.value = Nil /\ NoCall \notin Call
  BY RpcAssumption DEF None
<1>5. FinalLast /\ AnswerIsOwn /\ Settled
  BY <1>2, <1>3, <1>4 DEF FinalLast, AnswerIsOwn, Settled
<1>6. Matched
  BY <1>2, <1>3 DEF Matched, TableOK, AnswersOK, InTable, Active, Pending
<1>7. /\ DOMAIN srv.refPool = {} /\ srv.freeRefEntry = Nil
  BY DEF Init
<1>8. /\ \A d \in Call, j \in Nat : ~Frees(d, j)
      /\ \A d \in Call, j \in Index : ~Polls(d, j)
  BY <1>2, <1>3 DEF Frees, Polls, Pending
<1>9. Owned
  BY <1>7 DEF Owned, FreeChain, Slots
<1>10. Polled
  BY <1>8 DEF Polled, Index
<1>11. QED
  BY <1>1, <1>5, <1>6, <1>9, <1>10 DEF MatchInv

LEMMA MatchAlways ==
  ASSUME ~StaleReuse
  PROVE  Spec => []MatchInv
<1>1. Init => MatchInv
  BY MatchFirst
<1>2. MatchInv /\ [Next]_vars => MatchInv'
  BY MatchKept
<1>3. QED
  BY <1>1, <1>2, PTL DEF Spec

(* Whatever session ids are used again, an operation is given the answer   *)
(* to its own request, as long as no id is used again before the answer to *)
(* the operation that abandoned it (ClientContext.run and Client.run).     *)
THEOREM AnswersAreOwn ==
  ASSUME ~StaleReuse
  PROVE  Spec => []AnswerIsOwn
<1>1. MatchInv => AnswerIsOwn
  BY DEF MatchInv
<1>2. QED
  BY <1>1, MatchAlways, PTL

(* Under the same condition, the index that an object of the client holds  *)
(* denotes what the server created for it, through every reuse of slots:   *)
(* allocRef hands out an index only after its holder's freeRef.            *)
THEOREM RefsAlwaysAgree ==
  ASSUME ~StaleReuse
  PROVE  Spec => []RefsAgree
<1>1. ASSUME MatchInv PROVE RefsAgree
  <2>1. ASSUME srv.running, NEW c \in Call, handle[c] # Nil
        PROVE  ObjectAt(srv, handle[c]) = c
    <3>1. handle[c] \in Nat
      BY <1>1, <2>1 DEF MatchInv, BaseInv, TypeOK, ClientTypes, Index
    <3>2. Holds(c, handle[c])
      BY DEF Holds
    <3>3. handle[c] \in Slots
      BY <1>1, <3>1, <3>2, HeldSlots DEF MatchInv
    <3>4. srv.refPool[handle[c]].object = c
      BY <1>1, <2>1, <3>2, <3>3 DEF MatchInv, Owned
    <3>5. QED
      BY <3>3, <3>4 DEF ObjectAt, Slots
  <2>2. QED
    BY <2>1 DEF RefsAgree
<1>2. MatchInv => RefsAgree
  BY <1>1
<1>3. QED
  BY <1>2, MatchAlways, PTL

(* Under the same condition, each round of a poll calls the object that    *)
(* was polled, although poll looks its index up again for each.            *)
THEOREM PollsStick ==
  ASSUME ~StaleReuse
  PROVE  Spec => []PollSticks
<1>1. ASSUME MatchInv PROVE PollSticks
  <2>1. ASSUME NEW c \in Call, task[c] = "called", req[c].op = "poll", srv.running
        PROVE  ObjectAt(srv, req[c].index) = pollOn[c]
    <3>1. req[c] \in Request
      BY <1>1, <2>1 DEF MatchInv, BaseInv, TypeOK, ServerTypes
    <3>2. req[c].index \in Nat \cup {Nil} /\ Polls(c, req[c].index)
      BY <2>1, <3>1 DEF Request, Index, Polls, Pending
    <3>3. req[c].index \in Slots /\ srv.refPool[req[c].index].object = pollOn[c]
      BY <1>1, <2>1, <3>2 DEF MatchInv, Polled
    <3>4. QED
      BY <3>3 DEF ObjectAt, Slots
  <2>2. QED
    BY <2>1 DEF PollSticks
<1>2. MatchInv => PollSticks
  BY <1>1
<1>3. QED
  BY <1>2, MatchAlways, PTL

(* The state of both languages' contexts and of the connection keeps its   *)
(* types: the queues hold requests and answers, the table of waiting       *)
(* operations entries, and the pool is a block of slots from 0 on.         *)
THEOREM RpcTypeOK == Spec => []TypeOK
<1>1. BaseInv => TypeOK
  BY DEF BaseInv
<1>2. QED
  BY <1>1, BaseAlways, PTL

(* Under the same condition, while the context runs, the links that        *)
(* expandRefPools, allocRef and freeRef keep never lead to a slot that     *)
(* holds an object, and to no free slot from two places: the part of       *)
(* ChainExact that concerns each slot with its neighbours.                 *)
THEOREM FreeChainsSound ==
  ASSUME ~StaleReuse
  PROVE  Spec => [](srv.running => FreeChain(srv))
<1>1. MatchInv => (srv.running => FreeChain(srv))
  BY DEF MatchInv, Owned
<1>2. QED
  BY <1>1, MatchAlways, PTL
=============================================================================
