--------------------------- MODULE RtBridgeProofs ----------------------------
(***************************************************************************)
(* Proofs about the blocking calls of the runtime bridge (RtBridge).       *)
(***************************************************************************)
EXTENDS RtBridge, SequenceTheorems, FiniteSetTheorems, TLAPS

(* The types of the variables. *)
Places == /\ queue \in Seq(Caller) /\ batch \in Seq(Caller)
          /\ recvP \in [Side -> Caller \cup {NoCaller}]
          /\ sendP \in [Side -> Seq(Caller)]
Marks == /\ sem \in [Caller -> BOOLEAN] /\ failed \in [Caller -> BOOLEAN]
         /\ got \in [Caller -> BOOLEAN]
Calls == /\ pc \in [Caller -> {"idle", "dispatch", "push", "queued", "wait", "crashed"}]
         /\ kind \in [Caller -> Kind] /\ side \in [Caller -> Side]
Flags == /\ closing \in [Side -> BOOLEAN] /\ sideClosed \in [Side -> BOOLEAN]
         /\ recvErr \in [Side -> BOOLEAN] /\ conn \in {"none", "open", "freed"}
TypeOK == Places /\ Marks /\ Calls /\ Flags

(* No semaphore is posted, and no packet marked as taken, before the       *)
(* request was handed over.                                                *)
Unposted ==
  \A c \in Caller : /\ pc[c] \in {"dispatch", "push"} => ~sem[c]
                    /\ got[c] => sem[c]

(* A request waits in the pipe where its kind and side say. *)
Placed ==
  \A s \in Side :
    /\ recvP[s] # NoCaller => kind[recvP[s]] = "receive" /\ side[recvP[s]] = s
    /\ \A k \in 1 .. Len(sendP[s]) : kind[sendP[s][k]] = "send" /\ side[sendP[s][k]] = s

(* The loop thread is inside the pipe for the first of its batch.          *)
Inside == loop = "pipe" => batch # <<>> /\ kind[Head(batch)] # "stop"

(* The batch is done before the loop thread polls again or stops. *)
Batches == /\ loop \notin {"run", "pipe"} => batch = <<>>
           /\ loop # "none" => inited

CallInv == RequestOnce /\ Unposted /\ Placed /\ Inside /\ Batches

Active(c) == pc[c] # "idle"

(* Without overlapping receives a side has one, and the error its io keeps *)
(* is that of no pending receive.                                          *)
OneReceive ==
  \A c, d \in Caller :
    Active(c) /\ Active(d) /\ kind[c] = "receive" /\ kind[d] = "receive"
      /\ side[c] = side[d] => c = d
NoStaleError == \A s \in Side : recvP[s] # NoCaller => ~recvErr[s]

ResultInv == ~Overlaps => ResultTrue /\ OneReceive /\ NoStaleError

(* What uses a side of the connection. *)
Uses(c, s) == Active(c) /\ side[c] = s /\ kind[c] \in {"receive", "send", "close"}

(* Once a thread begins to close a side nobody else uses it, and when the  *)
(* side is closed that thread is done with it.                             *)
ClosingAlone ==
  /\ \A s \in Side :
       /\ closing[s] => \A c, d \in Caller : Uses(c, s) /\ Uses(d, s) => c = d
       /\ sideClosed[s] => closing[s] /\ \A c \in Caller : Uses(c, s) => sem[c]
  /\ \A c \in Caller : Active(c) /\ kind[c] = "close" => closing[side[c]]

(* The pipe is connected once, and given back with its second side. *)
Connects ==
  /\ \A c, d \in Caller :
       Active(c) /\ Active(d) /\ kind[c] = "connect" /\ kind[d] = "connect" => c = d
  /\ \A c \in Caller : Active(c) /\ kind[c] = "connect" /\ ~sem[c] => conn = "none"
  /\ conn = "freed" => \A s \in Side : sideClosed[s]

MemInv == ~SharedClose => ClosingAlone /\ Connects

IInv == TypeOK /\ CallInv /\ ResultInv /\ MemInv

-----------------------------------------------------------------------------
(* Counting the places that refer to a request. *)

LEMMA OccursType ==
  ASSUME NEW S, NEW q \in Seq(S), NEW c
  PROVE  /\ Occurs(q, c) \in Nat
         /\ Occurs(q, c) = 0 <=> \A k \in 1 .. Len(q) : q[k] # c
         /\ IsFiniteSet({k \in 1 .. Len(q) : q[k] = c})
<1> DEFINE A == {k \in 1 .. Len(q) : q[k] = c}
<1>1. Len(q) \in Nat
  BY LenProperties
<1>2. IsFiniteSet(1 .. Len(q))
  BY <1>1, FS_Interval
<1>3. IsFiniteSet(A)
  <2>1. A \in SUBSET (1 .. Len(q))
    OBVIOUS
  <2>2. QED
    BY <1>2, <2>1, FS_Subset
<1>4. Cardinality(A) \in Nat
  <2> HIDE DEF A
  <2>1. QED
    BY <1>3, FS_CardinalityType
<1>5. Cardinality(A) = 0 <=> A = {}
  <2> HIDE DEF A
  <2>1. QED
    BY <1>3, FS_EmptySet
<1>6. A = {} <=> \A k \in 1 .. Len(q) : q[k] # c
  OBVIOUS
<1>7. Occurs(q, c) = Cardinality(A)
  BY DEF Occurs
<1>8. QED
  BY <1>3, <1>4, <1>5, <1>6, <1>7

LEMMA OccursEmpty == \A c : Occurs(<<>>, c) = 0
<1>1. ASSUME NEW c PROVE Occurs(<<>>, c) = 0
  <2>1. <<>> \in Seq({}) /\ \A k \in 1 .. Len(<<>>) : <<>>[k] # c
    OBVIOUS
  <2>2. QED
    BY <2>1, OccursType
<1>2. QED
  BY <1>1

(* The first of a queue is one of its occurrences, ... *)
LEMMA OccursTail ==
  ASSUME NEW S, NEW q \in Seq(S), q # <<>>, NEW c
  PROVE  /\ Head(q) \in S /\ Tail(q) \in Seq(S)
         /\ Occurs(q, c) = Occurs(Tail(q), c) + B2N(Head(q) = c)
<1> DEFINE t == Tail(q)
           A == {k \in 1 .. Len(q) : q[k] = c}
           B == {k \in 1 .. Len(t) : t[k] = c}
           f == [k \in B |-> k + 1]
<1>1. /\ Len(q) \in Nat /\ Len(q) # 0
      /\ t \in Seq(S) /\ Len(t) = Len(q) - 1 /\ \A k \in 1 .. Len(t) : t[k] = q[k + 1]
      /\ Head(q) \in S /\ Head(q) = q[1]
  BY HeadTailProperties, LenProperties, EmptySeq
<1>2. f \in Bijection(B, A \ {1})
  <2>1. f \in [B -> A \ {1}]
    BY <1>1
  <2>2. \A j, k \in B : f[j] = f[k] => j = k
    BY <1>1
  <2>3. \A y \in A \ {1} : \E k \in B : f[k] = y
    <3>1. ASSUME NEW y \in A \ {1}
          PROVE  y - 1 \in B /\ f[y - 1] = y
      BY <1>1
    <3>2. QED
      BY <3>1
  <2>4. QED
    BY <2>1, <2>2, <2>3 DEF Bijection, Injection, Surjection, IsInjective
<1>3. IsFiniteSet(A) /\ IsFiniteSet(B) /\ Cardinality(A) \in Nat
  <2>1. IsFiniteSet(A) /\ IsFiniteSet(B)
    BY <1>1, OccursType
  <2> HIDE DEF A, B
  <2>2. QED
    BY <2>1, FS_CardinalityType
<1>4. Cardinality(A \ {1}) = Cardinality(B)
  BY <1>2, <1>3, FS_Bijection DEF ExistsBijection
<1>5. Cardinality(A \ {1}) = IF 1 \in A THEN Cardinality(A) - 1 ELSE Cardinality(A)
  <2>1. CASE 1 \in A
    BY <1>3, <2>1, FS_RemoveElement
  <2>2. CASE 1 \notin A
    <3>1. A \ {1} = A
      BY <2>2
    <3>2. QED
      BY <2>2, <3>1
  <2>3. QED
    BY <2>1, <2>2
<1>6. 1 \in A <=> Head(q) = c
  BY <1>1
<1>7. Occurs(q, c) = Cardinality(A) /\ Occurs(Tail(q), c) = Cardinality(B)
  BY DEF Occurs
<1> HIDE DEF A, B, t
<1>8. Occurs(q, c) = Occurs(Tail(q), c) + B2N(Head(q) = c)
  BY <1>3, <1>4, <1>5, <1>6, <1>7 DEF B2N
<1>9. QED
  BY <1>1, <1>8 DEF t

(* ... and so are one put before it and one put behind it. *)
LEMMA OccursPush ==
  ASSUME NEW S, NEW q \in Seq(S), NEW d \in S, NEW c
  PROVE  /\ <<d>> \o q \in Seq(S)
         /\ Occurs(<<d>> \o q, c) = Occurs(q, c) + B2N(d = c)
<1>1. /\ <<d>> \o q \in Seq(S) /\ Len(<<d>> \o q) = 1 + Len(q) /\ Len(q) \in Nat
      /\ \A i \in 1 .. 1 + Len(q) : (<<d>> \o q)[i] = IF i <= 1 THEN d ELSE q[i - 1]
  <2>1. <<d>> \in Seq(S) /\ Len(<<d>>) = 1 /\ <<d>>[1] = d
    OBVIOUS
  <2>2. QED
    BY <2>1, ConcatProperties, LenProperties
<1>2. Head(<<d>> \o q) = d /\ Tail(<<d>> \o q) = q /\ <<d>> \o q # <<>>
  OBVIOUS
<1> DEFINE p == <<d>> \o q
<1>3. p \in Seq(S) /\ p # <<>> /\ Head(p) = d /\ Tail(p) = q
  BY <1>1, <1>2
<1> HIDE DEF p
<1>4. Occurs(p, c) = Occurs(Tail(p), c) + B2N(Head(p) = c)
  BY <1>3, OccursTail
<1>5. QED
  BY <1>3, <1>4 DEF p

LEMMA OccursAppend ==
  ASSUME NEW S, NEW q \in Seq(S), NEW d \in S, NEW c
  PROVE  /\ Append(q, d) \in Seq(S)
         /\ Occurs(Append(q, d), c) = Occurs(q, c) + B2N(d = c)
<1> DEFINE a == Append(q, d)
           A == {k \in 1 .. Len(a) : a[k] = c}
           B == {k \in 1 .. Len(q) : q[k] = c}
           n == Len(q) + 1
<1>1. /\ a \in Seq(S) /\ Len(a) = n /\ Len(q) \in Nat
      /\ \A k \in 1 .. Len(q) : a[k] = q[k]
      /\ a[n] = d
  BY AppendProperties, LenProperties
<1>2. IsFiniteSet(B) /\ n \notin B
  <2>1. IsFiniteSet(B)
    BY OccursType
  <2>2. QED
    BY <1>1, <2>1
<1>3. Cardinality(B \cup {n}) = Cardinality(B) + 1
  BY <1>2, FS_AddElement
<1>4. Cardinality(B) \in Nat
  BY <1>2, FS_CardinalityType
<1>5. Occurs(a, c) = Cardinality(A) /\ Occurs(q, c) = Cardinality(B)
  BY DEF Occurs
<1>6. CASE d = c
  <2>1. A = B \cup {n}
    BY <1>1, <1>6
  <2>2. QED
    BY <1>1, <1>3, <1>5, <1>6, <2>1 DEF B2N
<1>7. CASE d # c
  <2>1. A = B
    BY <1>1, <1>7
  <2> HIDE DEF a, A, B
  <2>2. Occurs(a, c) = Occurs(q, c) + B2N(d = c)
    BY <1>4, <1>5, <1>7, <2>1 DEF B2N
  <2>3. QED
    BY <1>1, <2>2 DEF a
<1>8. QED
  BY <1>6, <1>7

(* A pending receive is one place of its side. *)
LEMMA OccursReceive ==
  ASSUME NEW r, NEW c
  PROVE  Cardinality({s \in Side : r[s] = c})
           = B2N(r["client"] = c) + B2N(r["server"] = c)
<1> DEFINE A == {s \in Side : r[s] = c}
<1>1. Cardinality({"client"}) = 1 /\ Cardinality({"server"}) = 1 /\ Cardinality({}) = 0
  BY FS_Singleton, FS_EmptySet
<1>2. Cardinality({"client"} \cup {"server"}) = 2
  <2>1. IsFiniteSet({"client"}) /\ "server" \notin {"client"}
    BY FS_Singleton
  <2>2. QED
    BY <1>1, <2>1, FS_AddElement
<1>3. CASE r["client"] = c /\ r["server"] = c
  <2>1. A = {"client"} \cup {"server"}
    BY <1>3 DEF Side
  <2>2. QED
    BY <1>2, <1>3, <2>1 DEF B2N
<1>4. CASE r["client"] = c /\ r["server"] # c
  <2>1. A = {"client"}
    BY <1>4 DEF Side
  <2>2. QED
    BY <1>1, <1>4, <2>1 DEF B2N
<1>5. CASE r["client"] # c /\ r["server"] = c
  <2>1. A = {"server"}
    BY <1>5 DEF Side
  <2>2. QED
    BY <1>1, <1>5, <2>1 DEF B2N
<1>6. CASE r["client"] # c /\ r["server"] # c
  <2>1. A = {}
    BY <1>6 DEF Side
  <2>2. QED
    BY <1>1, <1>6, <2>1 DEF B2N
<1>7. QED
  BY <1>3, <1>4, <1>5, <1>6

-----------------------------------------------------------------------------
(* The places of the pipe: its receives and its lists of sends. *)

RecvOf(r, c) == B2N(r["client"] = c) + B2N(r["server"] = c)
SendOf(q, c) == Occurs(q["client"], c) + Occurs(q["server"], c)
InPipeOf(c) == RecvOf(recvP, c) + SendOf(sendP, c)

Waiting(c) == pc[c] \in {"queued", "wait"} /\ ~sem[c]

LEMMA RecvOfType == \A r, c : RecvOf(r, c) \in Nat
  BY DEF RecvOf, B2N

LEMMA SendOfType ==
  ASSUME NEW q \in [Side -> Seq(Caller)], NEW c
  PROVE  SendOf(q, c) \in Nat
<1>1. q["client"] \in Seq(Caller) /\ q["server"] \in Seq(Caller)
  BY DEF Side
<1>2. Occurs(q["client"], c) \in Nat /\ Occurs(q["server"], c) \in Nat
  BY <1>1, OccursType
<1>3. QED
  BY <1>2 DEF SendOf

(* What a change of one side does to the count. *)
Changed(r, q, s, x) == q[s] = x /\ \A y \in Side : y # s => q[y] = r[y]

LEMMA RecvOfChanged ==
  ASSUME NEW r, NEW s \in Side, NEW x, NEW q, NEW c, Changed(r, q, s, x)
  PROVE  RecvOf(q, c) + B2N(r[s] = c) = RecvOf(r, c) + B2N(x = c)
  BY DEF Changed, RecvOf, B2N, Side

LEMMA SendOfChanged ==
  ASSUME NEW r \in [Side -> Seq(Caller)], NEW s \in Side, NEW x \in Seq(Caller), NEW q, NEW c,
         Changed(r, q, s, x)
  PROVE  SendOf(q, c) + Occurs(r[s], c) = SendOf(r, c) + Occurs(x, c)
<1>1. /\ r["client"] \in Seq(Caller) /\ r["server"] \in Seq(Caller)
      /\ s = "client" \/ s = "server"
  BY DEF Side
<1>2. /\ Occurs(r["client"], c) \in Nat /\ Occurs(r["server"], c) \in Nat
      /\ Occurs(x, c) \in Nat
  BY <1>1, OccursType
<1>3. CASE s = "client"
  <2>1. q["client"] = x /\ q["server"] = r["server"]
    BY <1>3 DEF Changed, Side
  <2>2. QED
    BY <1>2, <1>3, <2>1 DEF SendOf
<1>4. CASE s = "server"
  <2>1. q["server"] = x /\ q["client"] = r["client"]
    BY <1>4 DEF Changed, Side
  <2>2. QED
    BY <1>2, <1>4, <2>1 DEF SendOf
<1>5. QED
  BY <1>1, <1>3, <1>4

(* RequestOnce as an equation of these counts, before a step ... *)
LEMMA OnceNow ==
  ASSUME Places, RequestOnce, NEW c \in Caller
  PROVE  /\ Occurs(queue, c) \in Nat /\ Occurs(batch, c) \in Nat /\ InPipeOf(c) \in Nat
         /\ Occurs(queue, c) + Occurs(batch, c) + InPipeOf(c) = B2N(Waiting(c))
<1>1. /\ queue \in Seq(Caller) /\ batch \in Seq(Caller)
      /\ sendP["client"] \in Seq(Caller) /\ sendP["server"] \in Seq(Caller)
      /\ sendP \in [Side -> Seq(Caller)]
  BY DEF Places, Side
<1>2. /\ Occurs(queue, c) \in Nat /\ Occurs(batch, c) \in Nat
      /\ Occurs(sendP["client"], c) \in Nat /\ Occurs(sendP["server"], c) \in Nat
  BY <1>1, OccursType
<1>3. Cardinality({s \in Side : recvP[s] = c}) = RecvOf(recvP, c)
  BY OccursReceive DEF RecvOf
<1>4. RecvOf(recvP, c) \in Nat
  BY RecvOfType
<1>5. QED
  BY <1>2, <1>3, <1>4 DEF RequestOnce, Waiting, InPipeOf, SendOf

(* ... and after it. *)
LEMMA OnceNext ==
  ASSUME Places',
         \A c \in Caller :
           Occurs(queue', c) + Occurs(batch', c) + InPipeOf(c)' = B2N(Waiting(c)')
  PROVE  RequestOnce'
<1>1. ASSUME NEW c \in Caller
      PROVE  Occurs(queue', c) + Occurs(batch', c)
                 + Cardinality({s \in Side : recvP'[s] = c})
                 + Occurs(sendP'["client"], c) + Occurs(sendP'["server"], c)
               = B2N(pc'[c] \in {"queued", "wait"} /\ ~sem'[c])
  <2>1. /\ queue' \in Seq(Caller) /\ batch' \in Seq(Caller)
        /\ sendP'["client"] \in Seq(Caller) /\ sendP'["server"] \in Seq(Caller)
    BY DEF Places, Side
  <2>2. /\ Occurs(queue', c) \in Nat /\ Occurs(batch', c) \in Nat
        /\ Occurs(sendP'["client"], c) \in Nat /\ Occurs(sendP'["server"], c) \in Nat
    BY <2>1, OccursType
  <2>3. Cardinality({s \in Side : recvP'[s] = c}) = RecvOf(recvP', c)
    BY OccursReceive DEF RecvOf
  <2>4. RecvOf(recvP', c) \in Nat
    BY RecvOfType
  <2>5. QED
    BY <2>2, <2>3, <2>4 DEF Waiting, InPipeOf, SendOf
<1>2. QED
  BY <1>1 DEF RequestOnce

(* What waits in the pipe, waits; and what the counts say of it. *)
LEMMA InPipeFacts ==
  ASSUME Places, RequestOnce, NEW c \in Caller
  PROVE  /\ InPipeOf(c) = B2N(c \in Pending)
         /\ c \in Pending => Waiting(c)
         /\ \A s \in Side : recvP[s] = c => c \in Pending
         /\ \A s \in Side : sendP[s] # <<>> => Head(sendP[s]) \in Pending
<1>1. Occurs(queue, c) \in Nat /\ Occurs(batch, c) \in Nat /\ InPipeOf(c) \in Nat
      /\ Occurs(queue, c) + Occurs(batch, c) + InPipeOf(c) = B2N(Waiting(c))
  BY OnceNow
<1>2. \A s \in Side : Occurs(sendP[s], c) \in Nat
                      /\ (Occurs(sendP[s], c) = 0 <=> \A k \in 1 .. Len(sendP[s]) : sendP[s][k] # c)
  BY OccursType DEF Places
<1>3. InPipeOf(c) = 0 <=> c \notin Pending
  <2>1. /\ Occurs(sendP["client"], c) \in Nat /\ Occurs(sendP["server"], c) \in Nat
    BY <1>2 DEF Side
  <2>2. InPipeOf(c) = 0 <=>
          /\ recvP["client"] # c /\ recvP["server"] # c
          /\ Occurs(sendP["client"], c) = 0 /\ Occurs(sendP["server"], c) = 0
    BY <2>1 DEF InPipeOf, RecvOf, SendOf, B2N
  <2>3. InPipeOf(c) = 0 <=> \A s \in Side : recvP[s] # c /\ Occurs(sendP[s], c) = 0
    BY <2>2 DEF Side
  <2>4. c \in Pending <=> \E s \in Side : recvP[s] = c \/ Occurs(sendP[s], c) # 0
    BY <1>2 DEF Pending
  <2>5. QED
    BY <2>3, <2>4
<1>4. \A s \in Side : sendP[s] # <<>> => Head(sendP[s]) \in Pending
  <2>1. ASSUME NEW s \in Side, sendP[s] # <<>>
        PROVE  Head(sendP[s]) \in Pending
    <3>1. sendP[s] \in Seq(Caller)
      BY DEF Places
    <3>2. Len(sendP[s]) \in Nat /\ Len(sendP[s]) # 0 /\ Head(sendP[s]) \in Caller
      BY <2>1, <3>1, HeadTailProperties, LenProperties, EmptySeq
    <3>3. Head(sendP[s]) = sendP[s][1] /\ 1 \in 1 .. Len(sendP[s])
      BY <2>1, <3>1, <3>2
    <3>4. QED
      BY <3>2, <3>3 DEF Pending
  <2>2. QED
    BY <2>1
<1>5. \A s \in Side : recvP[s] = c => c \in Pending
  BY DEF Pending
<1>6. InPipeOf(c) = B2N(c \in Pending) /\ (c \in Pending => Waiting(c))
  BY <1>1, <1>3 DEF B2N
<1>7. QED
  BY <1>4, <1>5, <1>6

-----------------------------------------------------------------------------
(* What a call of the pipe that c makes does: it completes the requests D, *)
(* c is completed or waits in the pipe after it, and every other request   *)
(* is where it was unless it is completed.                                 *)
PipeEffect(c, D) ==
  /\ sem' = [d \in Caller |-> sem[d] \/ d \in D]
  /\ failed' \in [Caller -> BOOLEAN] /\ got' \in [Caller -> BOOLEAN]
  /\ \A d \in Caller : d \notin D => failed'[d] = failed[d] /\ got'[d] = got[d]
  /\ \A d \in Caller : InPipeOf(d)' + B2N(d \in D) = InPipeOf(d) + B2N(d = c)
  /\ recvP' \in [Side -> Caller \cup {NoCaller}] /\ sendP' \in [Side -> Seq(Caller)]
  /\ recvErr' \in [Side -> BOOLEAN]
  /\ Placed'
  /\ ~Overlaps =>
       /\ NoStaleError'
       /\ \A d \in D : kind[d] = "receive" => (failed'[d] <=> ~got'[d])

LEMMA MarksChosen ==
  ASSUME NEW D, NEW E, NEW f \in [Caller -> BOOLEAN]
  PROVE  [d \in Caller |-> IF d \in D THEN d \in E ELSE f[d]] \in [Caller -> BOOLEAN]
<1>1. ASSUME NEW d \in Caller
      PROVE  (IF d \in D THEN d \in E ELSE f[d]) \in BOOLEAN
  <2>1. CASE d \in D
    <3>1. (d \in E) \in BOOLEAN
      OBVIOUS
    <3>2. QED
      BY <2>1, <3>1
  <2>2. CASE d \notin D
    BY <2>2
  <2>3. QED
    BY <2>1, <2>2
<1>2. QED
  BY <1>1

(* The state in which c's call starts. *)
Starts(c) ==
  /\ TypeOK /\ RequestOnce /\ Unposted /\ Placed /\ ResultInv
  /\ c \in Caller /\ ~sem[c] /\ Active(c) /\ c \notin Pending

LEMMA StartsFacts ==
  ASSUME NEW c, Starts(c)
  PROVE  /\ c \in Caller /\ side[c] \in Side /\ Peer(side[c]) \in Side
         /\ Peer(side[c]) # side[c] /\ c # NoCaller
         /\ InPipeOf(c) = 0 /\ ~got[c]
         /\ \A d \in Caller : InPipeOf(d) \in Nat /\ InPipeOf(d) = B2N(d \in Pending)
         /\ \A d \in Caller : d \in Pending => d # c /\ Active(d) /\ ~sem[d] /\ ~got[d]
         /\ \A s \in Side : sendP[s] \in Seq(Caller) /\ recvP[s] \in Caller \cup {NoCaller}
         /\ \A s \in Side : recvP[s] # NoCaller => recvP[s] \in Pending /\ recvP[s] # c
         /\ \A s \in Side : sendP[s] # <<>> => Head(sendP[s]) \in Pending /\ Head(sendP[s]) # c
<1>1. Places /\ RequestOnce /\ Unposted /\ c \in Caller /\ side[c] \in Side /\ c \notin Pending
      /\ ~sem[c]
  BY DEF Starts, TypeOK, Calls
<1>2. \A d \in Caller : InPipeOf(d) = B2N(d \in Pending) /\ (d \in Pending => Waiting(d))
  BY <1>1, InPipeFacts
<1>3. Peer(side[c]) \in Side /\ Peer(side[c]) # side[c] /\ c # NoCaller
  BY <1>1, BridgeAssumption DEF Peer, Side, BridgeAssumption
<1>4. \A s \in Side : sendP[s] \in Seq(Caller) /\ recvP[s] \in Caller \cup {NoCaller}
  BY <1>1 DEF Places
<1>5. \A s \in Side : recvP[s] # NoCaller => recvP[s] \in Pending
  BY <1>4 DEF Pending
<1>6. \A s \in Side : sendP[s] # <<>> => Head(sendP[s]) \in Pending
  BY <1>1, InPipeFacts
<1>7. \A d \in Caller : d \in Pending => d # c /\ Active(d) /\ ~sem[d] /\ ~got[d]
  BY <1>1, <1>2 DEF Unposted, Waiting, Active
<1>8. InPipeOf(c) = 0 /\ ~got[c] /\ \A d \in Caller : InPipeOf(d) \in Nat
  BY <1>1, <1>2 DEF B2N, Unposted
<1>9. QED
  BY <1>1, <1>2, <1>3, <1>4, <1>5, <1>6, <1>7, <1>8


(* A call that fails at once, or cannot do anything but report. *)
LEMMA RefusedEffect ==
  ASSUME NEW c, Starts(c), Complete({c}, {c}),
         UNCHANGED <<recvP, sendP, got, kind, side>>,
         recvErr' \in [Side -> BOOLEAN], ~Overlaps => NoStaleError'
  PROVE  PipeEffect(c, {c})
<1>1. /\ c \in Caller /\ ~got[c]
      /\ \A d \in Caller : InPipeOf(d) \in Nat
  BY StartsFacts
<1>2. /\ sem' = [d \in Caller |-> sem[d] \/ d \in {c}]
      /\ failed' = [d \in Caller |-> IF d \in {c} THEN d \in {c} ELSE failed[d]]
  BY DEF Complete
<1>3. Places /\ Marks /\ Placed
  BY DEF Starts, TypeOK
<1>4. /\ failed' \in [Caller -> BOOLEAN] /\ got' \in [Caller -> BOOLEAN]
      /\ \A d \in Caller : d \notin {c} => failed'[d] = failed[d] /\ got'[d] = got[d]
      /\ failed'[c] /\ ~got'[c]
  BY <1>1, <1>2, <1>3 DEF Marks
<1>5. \A d \in Caller : InPipeOf(d)' + B2N(d \in {c}) = InPipeOf(d) + B2N(d = c)
  <2>1. \A d \in Caller : InPipeOf(d)' = InPipeOf(d) /\ B2N(d \in {c}) = B2N(d = c)
    BY DEF InPipeOf, B2N
  <2>2. QED
    BY <2>1
<1>6. Placed' /\ recvP' \in [Side -> Caller \cup {NoCaller}] /\ sendP' \in [Side -> Seq(Caller)]
  BY <1>3 DEF Placed, Places
<1>7. QED
  BY <1>2, <1>4, <1>5, <1>6 DEF PipeEffect

(* A receive waits, or takes the oldest packet of the other side. *)
LEMMA ReceiveEffect ==
  ASSUME NEW c, Starts(c), kind[c] = "receive", PipeReceive(c),
         UNCHANGED <<kind, side>>
  PROVE  \E D \in SUBSET Caller : PipeEffect(c, D)
<1> DEFINE s == side[c]
           p == Peer(s)
<1>1. /\ c \in Caller /\ s \in Side /\ p \in Side /\ p # s /\ c # NoCaller
      /\ InPipeOf(c) = 0 /\ ~got[c]
      /\ \A d \in Caller : InPipeOf(d) \in Nat
      /\ \A d \in Caller : d \in Pending => d # c /\ Active(d) /\ ~got[d]
      /\ \A x \in Side : sendP[x] \in Seq(Caller) /\ recvP[x] \in Caller \cup {NoCaller}
      /\ \A x \in Side : recvP[x] # NoCaller => recvP[x] \in Pending /\ recvP[x] # c
      /\ \A x \in Side : sendP[x] # <<>> => Head(sendP[x]) \in Pending /\ Head(sendP[x]) # c
  BY StartsFacts
<1>2. /\ Places /\ Marks /\ Placed /\ Flags /\ Active(c)
      /\ ~Overlaps => OneReceive /\ NoStaleError
  BY DEF Starts, TypeOK, ResultInv
<1>3. ~Overlaps => recvP[s] = NoCaller
  BY <1>1, <1>2 DEF OneReceive, Placed
<1>4. /\ recvP \in [Side -> Caller \cup {NoCaller}] /\ sendP \in [Side -> Seq(Caller)]
      /\ recvErr \in [Side -> BOOLEAN]
  BY <1>2 DEF Places, Flags
<1>5. CASE recvP[s] # NoCaller \/ AnyClosed
  <2>1. /\ recvErr' = [recvErr EXCEPT ![s] = TRUE] /\ Complete({c}, {c})
        /\ UNCHANGED <<recvP, sendP, got>>
    BY <1>5 DEF PipeReceive
  <2>2. recvErr' \in [Side -> BOOLEAN] /\ \A x \in Side : x # s => recvErr'[x] = recvErr[x]
    BY <1>1, <1>4, <2>1
  <2>3. ~Overlaps => NoStaleError'
    BY <1>2, <1>3, <2>1, <2>2 DEF NoStaleError
  <2>4. PipeEffect(c, {c})
    BY <2>1, <2>2, <2>3, RefusedEffect
  <2>5. QED
    BY <1>1, <2>4
<1>6. CASE recvP[s] = NoCaller /\ ~AnyClosed /\ sendP[p] = <<>>
  <2>1. /\ recvErr' = [recvErr EXCEPT ![s] = FALSE] /\ recvP' = [recvP EXCEPT ![s] = c]
        /\ UNCHANGED <<sendP, doneVars>>
    BY <1>6 DEF PipeReceive
  <2>2. /\ recvErr' \in [Side -> BOOLEAN] /\ ~recvErr'[s]
        /\ \A x \in Side : x # s => recvErr'[x] = recvErr[x]
        /\ recvP' \in [Side -> Caller \cup {NoCaller}] /\ recvP'[s] = c
        /\ \A x \in Side : x # s => recvP'[x] = recvP[x]
    BY <1>1, <1>4, <2>1
  <2>3. ~Overlaps => NoStaleError'
    BY <1>2, <2>2 DEF NoStaleError
  <2>4. Placed'
    BY <1>2, <2>1, <2>2 DEF Placed
  <2>5. \A d \in Caller : InPipeOf(d)' + B2N(d \in {}) = InPipeOf(d) + B2N(d = c)
    <3>1. ASSUME NEW d \in Caller
          PROVE  InPipeOf(d)' + B2N(d \in {}) = InPipeOf(d) + B2N(d = c)
      <4>1. RecvOf(recvP', d) + B2N(recvP[s] = d) = RecvOf(recvP, d) + B2N(c = d)
        <5>1. Changed(recvP, recvP', s, c) /\ s \in Side
          BY <1>1, <2>2 DEF Changed
        <5>2. QED
          BY <5>1, RecvOfChanged
      <4>2. B2N(recvP[s] = d) = 0 /\ B2N(c = d) = B2N(d = c) /\ B2N(d \in {}) = 0
        BY <1>6, BridgeAssumption DEF B2N, BridgeAssumption
      <4>3. /\ RecvOf(recvP, d) \in Nat /\ RecvOf(recvP', d) \in Nat
            /\ SendOf(sendP, d) \in Nat /\ B2N(d = c) \in Nat
        BY <1>4, RecvOfType, SendOfType DEF B2N
      <4>4. SendOf(sendP', d) = SendOf(sendP, d)
        BY <2>1
      <4>5. QED
        BY <4>1, <4>2, <4>3, <4>4 DEF InPipeOf
    <3>2. QED
      BY <3>1
  <2>6. /\ sem' = [d \in Caller |-> sem[d] \/ d \in {}]
        /\ failed' \in [Caller -> BOOLEAN] /\ got' \in [Caller -> BOOLEAN]
        /\ failed' = failed /\ got' = got
    BY <1>2, <2>1 DEF doneVars, Marks
  <2>7. sendP' \in [Side -> Seq(Caller)]
    BY <1>4, <2>1
  <2>8. PipeEffect(c, {})
    BY <2>2, <2>3, <2>4, <2>5, <2>6, <2>7 DEF PipeEffect
  <2>9. QED
    BY <2>8
<1>7. CASE recvP[s] = NoCaller /\ ~AnyClosed /\ sendP[p] # <<>>
  <2> DEFINE snd == Head(sendP[p])
             D == {c, snd}
  <2>1. /\ recvErr' = [recvErr EXCEPT ![s] = FALSE] /\ UNCHANGED recvP
        /\ sendP' = [sendP EXCEPT ![p] = Tail(@)]
        /\ Transfer(p, c, snd, FALSE)
    BY <1>7 DEF PipeReceive
  <2>2. /\ sem' = [d \in Caller |-> sem[d] \/ d \in D]
        /\ failed' = [d \in Caller |-> IF d \in D THEN d \in {} ELSE failed[d]]
        /\ got' = [got EXCEPT ![c] = TRUE]
    <3>1. /\ Complete({c, snd}, IF FALSE THEN {c} ELSE {}) /\ got' = [got EXCEPT ![c] = TRUE]
      BY <2>1 DEF Transfer
    <3>2. Complete(D, {})
      BY <3>1
    <3> HIDE DEF D
    <3>3. QED
      BY <3>1, <3>2 DEF Complete
  <2>3. /\ snd \in Pending /\ snd # c /\ snd \in Caller
        /\ Tail(sendP[p]) \in Seq(Caller) /\ sendP[p] \in Seq(Caller)
        /\ \A d : Occurs(sendP[p], d) = Occurs(Tail(sendP[p]), d) + B2N(snd = d)
    BY <1>1, <1>7, OccursTail
  <2>4. /\ recvErr' \in [Side -> BOOLEAN] /\ ~recvErr'[s]
        /\ \A x \in Side : x # s => recvErr'[x] = recvErr[x]
        /\ sendP' \in [Side -> Seq(Caller)] /\ sendP'[p] = Tail(sendP[p])
        /\ \A x \in Side : x # p => sendP'[x] = sendP[x]
    BY <1>1, <1>4, <2>1, <2>3
  <2>5. ~Overlaps => NoStaleError'
    BY <1>2, <1>7, <2>1, <2>4 DEF NoStaleError
  <2>6. /\ \A x \in Side : \A k \in 1 .. Len(sendP'[x]) : \E j \in 1 .. Len(sendP[x]) :
              sendP'[x][k] = sendP[x][j]
        /\ kind[snd] = "send"
    <3>1. /\ Len(sendP[p]) \in Nat /\ Len(sendP[p]) # 0 /\ Len(Tail(sendP[p])) = Len(sendP[p]) - 1
          /\ \A k \in 1 .. Len(Tail(sendP[p])) : Tail(sendP[p])[k] = sendP[p][k + 1]
      BY <1>7, <2>3, HeadTailProperties, LenProperties, EmptySeq
    <3>2. snd = sendP[p][1]
      BY <1>7, <2>3
    <3>3. kind[snd] = "send"
      BY <1>1, <1>2, <3>1, <3>2 DEF Placed
    <3>4. \A k \in 1 .. Len(sendP'[p]) : \E j \in 1 .. Len(sendP[p]) : sendP'[p][k] = sendP[p][j]
      <4>1. ASSUME NEW k \in 1 .. Len(sendP'[p])
            PROVE  k + 1 \in 1 .. Len(sendP[p]) /\ sendP'[p][k] = sendP[p][k + 1]
        BY <2>4, <3>1
      <4>2. QED
        BY <4>1
    <3>5. \A x \in Side : x # p =>
            \A k \in 1 .. Len(sendP'[x]) : k \in 1 .. Len(sendP[x]) /\ sendP'[x][k] = sendP[x][k]
      BY <2>4
    <3>6. QED
      BY <3>3, <3>4, <3>5
  <2>7. Placed'
    BY <1>2, <2>1, <2>6 DEF Placed
  <2>8. /\ failed' \in [Caller -> BOOLEAN] /\ got' \in [Caller -> BOOLEAN]
        /\ \A d \in Caller : d \notin D => failed'[d] = failed[d] /\ got'[d] = got[d]
        /\ \A d \in D : kind[d] = "receive" => (failed'[d] <=> ~got'[d])
    <3>1. /\ failed' \in [Caller -> BOOLEAN] /\ got' \in [Caller -> BOOLEAN]
          /\ got'[c] /\ \A d \in Caller : d # c => got'[d] = got[d]
      BY <1>1, <1>2, <2>2 DEF Marks
    <3>2. \A d \in Caller : /\ d \in D => ~failed'[d]
                            /\ d \notin D => failed'[d] = failed[d]
      BY <2>2
    <3>3. QED
      BY <1>1, <2>3, <2>6, <3>1, <3>2
  <2>9. \A d \in Caller : InPipeOf(d)' + B2N(d \in D) = InPipeOf(d) + B2N(d = c)
    <3>1. ASSUME NEW d \in Caller
          PROVE  InPipeOf(d)' + B2N(d \in D) = InPipeOf(d) + B2N(d = c)
      <4>1. SendOf(sendP', d) + Occurs(sendP[p], d) = SendOf(sendP, d) + Occurs(Tail(sendP[p]), d)
        <5>1. PICK x \in Seq(Caller) : x = Tail(sendP[p])
          BY <2>3
        <5>2. p \in Side /\ sendP \in [Side -> Seq(Caller)] /\ Changed(sendP, sendP', p, x)
          BY <1>1, <1>4, <2>4, <5>1 DEF Changed
        <5>3. SendOf(sendP', d) + Occurs(sendP[p], d) = SendOf(sendP, d) + Occurs(x, d)
          BY <5>2, SendOfChanged
        <5>4. QED
          BY <5>1, <5>3
      <4>2. /\ Occurs(sendP[p], d) \in Nat /\ Occurs(Tail(sendP[p]), d) \in Nat
            /\ SendOf(sendP, d) \in Nat /\ SendOf(sendP', d) \in Nat
            /\ RecvOf(recvP, d) \in Nat
        BY <1>4, <2>3, <2>4, OccursType, RecvOfType, SendOfType
      <4>3. B2N(d \in D) = B2N(d = c) + B2N(snd = d) /\ B2N(snd = d) \in Nat /\ B2N(d = c) \in Nat
        BY <2>3 DEF B2N
      <4>4. Occurs(sendP[p], d) = Occurs(Tail(sendP[p]), d) + B2N(snd = d)
        BY <2>3
      <4>5. RecvOf(recvP', d) = RecvOf(recvP, d)
        BY <2>1
      <4>6. QED
        BY <4>1, <4>2, <4>3, <4>4, <4>5 DEF InPipeOf
    <3>2. QED
      BY <3>1
  <2>10. recvP' \in [Side -> Caller \cup {NoCaller}]
    BY <1>4, <2>1
  <2>11. PipeEffect(c, D)
    BY <2>2, <2>4, <2>5, <2>7, <2>8, <2>9, <2>10 DEF PipeEffect
  <2>12. QED
    BY <1>1, <2>3, <2>11
<1>8. QED
  BY <1>5, <1>6, <1>7


(* A send waits behind the others of its side, or meets a receive. *)
LEMMA SendEffect ==
  ASSUME NEW c, Starts(c), kind[c] = "send", PipeSend(c), UNCHANGED <<kind, side>>
  PROVE  \E D \in SUBSET Caller : PipeEffect(c, D)
<1> DEFINE s == side[c]
           p == Peer(s)
<1>1. /\ c \in Caller /\ s \in Side /\ p \in Side /\ p # s /\ c # NoCaller
      /\ InPipeOf(c) = 0 /\ ~got[c]
      /\ \A d \in Caller : InPipeOf(d) \in Nat
      /\ \A d \in Caller : d \in Pending => d # c /\ Active(d) /\ ~got[d]
      /\ \A x \in Side : sendP[x] \in Seq(Caller) /\ recvP[x] \in Caller \cup {NoCaller}
      /\ \A x \in Side : recvP[x] # NoCaller => recvP[x] \in Pending /\ recvP[x] # c
  BY StartsFacts
<1>2. /\ Places /\ Marks /\ Placed /\ Flags
      /\ ~Overlaps => NoStaleError
  BY DEF Starts, TypeOK, ResultInv
<1>3. /\ recvP \in [Side -> Caller \cup {NoCaller}] /\ sendP \in [Side -> Seq(Caller)]
      /\ recvErr' \in [Side -> BOOLEAN] /\ recvErr' = recvErr
  BY <1>2 DEF Places, Flags, PipeSend
<1>4. CASE AnyClosed
  <2>1. Complete({c}, {c}) /\ UNCHANGED <<recvP, sendP, got>>
    BY <1>4 DEF PipeSend
  <2>2. ~Overlaps => NoStaleError'
    BY <1>2, <1>3, <2>1 DEF NoStaleError
  <2>3. PipeEffect(c, {c})
    BY <1>3, <2>1, <2>2, RefusedEffect
  <2>4. QED
    BY <1>1, <2>3
<1>5. CASE ~AnyClosed /\ recvP[p] = NoCaller
  <2>1. sendP' = [sendP EXCEPT ![s] = Append(@, c)] /\ UNCHANGED <<recvP, doneVars>>
    BY <1>5 DEF PipeSend
  <2>2. PICK x \in Seq(Caller) : /\ x = Append(sendP[s], c)
                                 /\ \A d : Occurs(x, d) = Occurs(sendP[s], d) + B2N(c = d)
    <3>1. /\ Append(sendP[s], c) \in Seq(Caller)
          /\ \A d : Occurs(Append(sendP[s], c), d) = Occurs(sendP[s], d) + B2N(c = d)
      BY <1>1, OccursAppend
    <3>2. QED
      BY <3>1
  <2>3. /\ sendP' \in [Side -> Seq(Caller)] /\ sendP'[s] = x
        /\ \A y \in Side : y # s => sendP'[y] = sendP[y]
    BY <1>1, <1>3, <2>1, <2>2
  <2>4. ~Overlaps => NoStaleError'
    BY <1>2, <1>3, <2>1 DEF NoStaleError
  <2>5. Placed'
    <3>1. \A k \in 1 .. Len(x) :
            \/ x[k] = c
            \/ k \in 1 .. Len(sendP[s]) /\ x[k] = sendP[s][k]
      <4>1. /\ Len(Append(sendP[s], c)) = Len(sendP[s]) + 1 /\ Len(sendP[s]) \in Nat
            /\ \A k \in 1 .. Len(sendP[s]) : Append(sendP[s], c)[k] = sendP[s][k]
            /\ Append(sendP[s], c)[Len(sendP[s]) + 1] = c
        BY <1>1, AppendProperties, LenProperties
      <4>2. \A k \in 1 .. Len(sendP[s]) + 1 : k \in 1 .. Len(sendP[s]) \/ k = Len(sendP[s]) + 1
        BY <4>1
      <4>3. QED
        BY <2>2, <4>1, <4>2
    <3>2. \A k \in 1 .. Len(x) : kind[x[k]] = "send" /\ side[x[k]] = s
      <4>1. \A k \in 1 .. Len(sendP[s]) : kind[sendP[s][k]] = "send" /\ side[sendP[s][k]] = s
        BY <1>1, <1>2 DEF Placed
      <4>2. kind[c] = "send" /\ side[c] = s
        OBVIOUS
      <4>3. QED
        BY <3>1, <4>1, <4>2
    <3>3. QED
      BY <1>2, <2>1, <2>3, <3>2 DEF Placed
  <2>6. \A d \in Caller : InPipeOf(d)' + B2N(d \in {}) = InPipeOf(d) + B2N(d = c)
    <3>1. ASSUME NEW d \in Caller
          PROVE  InPipeOf(d)' + B2N(d \in {}) = InPipeOf(d) + B2N(d = c)
      <4>1. s \in Side /\ sendP[s] \in Seq(Caller)
        BY <1>1
      <4>2. SendOf(sendP', d) + Occurs(sendP[s], d) = SendOf(sendP, d) + Occurs(x, d)
        <5>1. sendP \in [Side -> Seq(Caller)] /\ Changed(sendP, sendP', s, x)
          BY <1>3, <2>3 DEF Changed
        <5>2. QED
          BY <4>1, <5>1, SendOfChanged
      <4>3. Occurs(x, d) = Occurs(sendP[s], d) + B2N(c = d)
        BY <2>2
      <4>4. B2N(c = d) = B2N(d = c) /\ B2N(d \in {}) = 0 /\ B2N(d = c) \in Nat
        BY DEF B2N
      <4>5. /\ RecvOf(recvP, d) \in Nat /\ Occurs(sendP[s], d) \in Nat /\ Occurs(x, d) \in Nat
            /\ SendOf(sendP, d) \in Nat /\ SendOf(sendP', d) \in Nat
        BY <1>3, <2>3, <4>1, OccursType, RecvOfType, SendOfType
      <4>6. RecvOf(recvP', d) = RecvOf(recvP, d)
        BY <2>1
      <4>7. QED
        BY <4>2, <4>3, <4>4, <4>5, <4>6 DEF InPipeOf
    <3>2. QED
      BY <3>1
  <2>7. /\ sem' = [d \in Caller |-> sem[d] \/ d \in {}]
        /\ failed' \in [Caller -> BOOLEAN] /\ got' \in [Caller -> BOOLEAN]
        /\ failed' = failed /\ got' = got
    BY <1>2, <2>1 DEF doneVars, Marks
  <2>8. recvP' \in [Side -> Caller \cup {NoCaller}]
    BY <1>3, <2>1
  <2>9. PipeEffect(c, {})
    BY <1>3, <2>3, <2>4, <2>5, <2>6, <2>7, <2>8 DEF PipeEffect
  <2>10. QED
    BY <2>9
<1>6. CASE ~AnyClosed /\ recvP[p] # NoCaller
  <2> DEFINE rcv == recvP[p]
             D == {c, rcv}
             errs == IF recvErr[p] THEN {rcv} ELSE {}
  <2>1. /\ Transfer(s, rcv, c, recvErr[p]) /\ UNCHANGED sendP
        /\ recvP' = [recvP EXCEPT ![p] = NoCaller]
    BY <1>6 DEF PipeSend
  <2>2. /\ sem' = [d \in Caller |-> sem[d] \/ d \in D]
        /\ failed' = [d \in Caller |-> IF d \in D THEN d \in errs ELSE failed[d]]
        /\ got' = [got EXCEPT ![rcv] = TRUE]
    <3>1. Complete({rcv, c}, errs) /\ got' = [got EXCEPT ![rcv] = TRUE]
      BY <2>1 DEF Transfer
    <3>2. Complete(D, errs)
      BY <3>1
    <3> HIDE DEF D, errs
    <3>3. QED
      BY <3>1, <3>2 DEF Complete
  <2>3. rcv \in Pending /\ rcv # c /\ rcv \in Caller
    BY <1>1, <1>6
  <2>4. /\ recvP' \in [Side -> Caller \cup {NoCaller}] /\ recvP'[p] = NoCaller
        /\ \A y \in Side : y # p => recvP'[y] = recvP[y]
    BY <1>1, <1>3, <2>1
  <2>5. ~Overlaps => NoStaleError' /\ ~recvErr[p]
    BY <1>1, <1>2, <1>3, <1>6, <2>4 DEF NoStaleError
  <2>6. Placed'
    BY <1>2, <2>1, <2>4 DEF Placed
  <2>7. /\ failed' \in [Caller -> BOOLEAN] /\ got' \in [Caller -> BOOLEAN]
        /\ \A d \in Caller : d \notin D => failed'[d] = failed[d] /\ got'[d] = got[d]
        /\ ~Overlaps => \A d \in D : kind[d] = "receive" => (failed'[d] <=> ~got'[d])
    <3>1. /\ failed' \in [Caller -> BOOLEAN] /\ got' \in [Caller -> BOOLEAN]
          /\ got'[rcv] /\ \A d \in Caller : d # rcv => got'[d] = got[d]
      <4>1. got' \in [Caller -> BOOLEAN] /\ got'[rcv] /\ \A d \in Caller : d # rcv => got'[d] = got[d]
        BY <1>2, <2>2, <2>3 DEF Marks
      <4> HIDE DEF D, errs
      <4>2. failed \in [Caller -> BOOLEAN]
        BY <1>2 DEF Marks
      <4>3. QED
        BY <2>2, <4>1, <4>2, MarksChosen
    <3>2. \A d \in Caller : /\ d \in D => (failed'[d] <=> d \in errs)
                            /\ d \notin D => failed'[d] = failed[d]
      BY <2>2
    <3>3. ~Overlaps => errs = {}
      BY <2>5
    <3>4. ~Overlaps => ~failed'[rcv]
      BY <2>3, <3>2, <3>3
    <3>5. kind[c] # "receive"
      OBVIOUS
    <3>6. QED
      BY <2>3, <3>1, <3>2, <3>4, <3>5
  <2>8. \A d \in Caller : InPipeOf(d)' + B2N(d \in D) = InPipeOf(d) + B2N(d = c)
    <3>1. ASSUME NEW d \in Caller
          PROVE  InPipeOf(d)' + B2N(d \in D) = InPipeOf(d) + B2N(d = c)
      <4>1. RecvOf(recvP', d) + B2N(recvP[p] = d) = RecvOf(recvP, d) + B2N(NoCaller = d)
        <5>1. Changed(recvP, recvP', p, NoCaller) /\ p \in Side
          BY <1>1, <2>4 DEF Changed
        <5>2. QED
          BY <5>1, RecvOfChanged
      <4>2. /\ B2N(d \in D) = B2N(d = c) + B2N(recvP[p] = d)
            /\ B2N(recvP[p] = d) \in Nat /\ B2N(d = c) \in Nat
        BY <2>3 DEF B2N
      <4>3. B2N(NoCaller = d) = 0
        BY BridgeAssumption DEF B2N, BridgeAssumption
      <4>4. /\ RecvOf(recvP, d) \in Nat /\ RecvOf(recvP', d) \in Nat
            /\ SendOf(sendP, d) \in Nat
        BY <1>3, RecvOfType, SendOfType
      <4>5. SendOf(sendP', d) = SendOf(sendP, d)
        BY <2>1
      <4>6. QED
        BY <4>1, <4>2, <4>3, <4>4, <4>5 DEF InPipeOf
    <3>2. QED
      BY <3>1
  <2>9. sendP' \in [Side -> Seq(Caller)]
    BY <1>3, <2>1
  <2>10. PipeEffect(c, D)
    BY <1>3, <2>2, <2>4, <2>5, <2>6, <2>7, <2>8, <2>9 DEF PipeEffect
  <2>11. QED
    BY <1>1, <2>3, <2>10
<1>7. QED
  BY <1>4, <1>5, <1>6

(* A close completes all that waits in the pipe. *)
LEMMA CloseEffect ==
  ASSUME NEW c, Starts(c), kind[c] = "close", PipeClose(c), UNCHANGED <<kind, side>>
  PROVE  PipeEffect(c, Pending \cup {c})
<1> DEFINE D == Pending \cup {c}
<1>1. /\ c \in Caller /\ c # NoCaller /\ InPipeOf(c) = 0
      /\ \A d \in Caller : InPipeOf(d) \in Nat /\ InPipeOf(d) = B2N(d \in Pending)
      /\ \A d \in Caller : d \in Pending => d # c /\ ~got[d]
  BY StartsFacts
<1>2. Places /\ Marks
  BY DEF Starts, TypeOK
<1>3. /\ Complete(D, Pending) /\ got' = got
      /\ recvP' = [s \in Side |-> NoCaller] /\ sendP' = [s \in Side |-> <<>>]
      /\ recvErr' = [s \in Side |-> TRUE]
  BY DEF PipeClose
<1>4. /\ sem' = [d \in Caller |-> sem[d] \/ d \in D]
      /\ failed' = [d \in Caller |-> IF d \in D THEN d \in Pending ELSE failed[d]]
  BY <1>3 DEF Complete
<1>5. /\ failed' \in [Caller -> BOOLEAN] /\ got' \in [Caller -> BOOLEAN]
      /\ \A d \in Caller : d \notin D => failed'[d] = failed[d] /\ got'[d] = got[d]
  <2>1. failed \in [Caller -> BOOLEAN]
    BY <1>2 DEF Marks
  <2>2. failed' \in [Caller -> BOOLEAN]
    <3> HIDE DEF D
    <3>1. QED
      BY <1>4, <2>1, MarksChosen
  <2>3. QED
    BY <1>2, <1>3, <1>4, <2>2 DEF Marks
<1>6. \A d \in D : kind[d] = "receive" => (failed'[d] <=> ~got'[d])
  <2>1. \A d \in Pending : d \in Caller /\ failed'[d] /\ ~got'[d]
    BY <1>1, <1>3, <1>4 DEF Pending
  <2>2. QED
    BY <2>1
<1>7. /\ recvP' \in [Side -> Caller \cup {NoCaller}] /\ sendP' \in [Side -> Seq(Caller)]
      /\ recvErr' \in [Side -> BOOLEAN]
      /\ \A s \in Side : recvP'[s] = NoCaller /\ sendP'[s] = <<>>
  BY <1>3
<1>8. Placed' /\ NoStaleError'
  BY <1>7 DEF Placed, NoStaleError
<1>9. \A d \in Caller : InPipeOf(d)' + B2N(d \in D) = InPipeOf(d) + B2N(d = c)
  <2>1. ASSUME NEW d \in Caller
        PROVE  InPipeOf(d)' + B2N(d \in D) = InPipeOf(d) + B2N(d = c)
    <3>1. InPipeOf(d)' = 0
      <4>1. recvP'["client"] # d /\ recvP'["server"] # d
        BY <1>7, BridgeAssumption DEF Side, BridgeAssumption
      <4>2. Occurs(sendP'["client"], d) = 0 /\ Occurs(sendP'["server"], d) = 0
        BY <1>7, OccursEmpty DEF Side
      <4>3. QED
        BY <4>1, <4>2 DEF InPipeOf, RecvOf, SendOf, B2N
    <3>2. B2N(d \in D) = B2N(d \in Pending) + B2N(d = c) /\ B2N(d \in D) \in Nat
      BY <1>1 DEF B2N
    <3>3. InPipeOf(d) = B2N(d \in Pending)
      BY <1>1
    <3>4. QED
      BY <3>1, <3>2, <3>3
  <2>2. QED
    BY <2>1
<1>10. QED
  BY <1>4, <1>5, <1>6, <1>7, <1>8, <1>9 DEF PipeEffect

-----------------------------------------------------------------------------
(* Steps that leave the requests where they are. *)

(* What a step keeps that touches no request and starts none. *)
LEMMA KeptRest ==
  ASSUME IInv, UNCHANGED <<kind, side, doneVars, connVars, closing>>,
         Calls', queue' \in Seq(Caller), batch' \in Seq(Caller),
         \A c \in Caller :
           /\ pc'[c] \in {"dispatch", "push"} => ~sem[c]
           /\ pc'[c] # "idle" => pc[c] # "idle"
  PROVE  TypeOK' /\ Unposted' /\ Placed' /\ ResultInv' /\ MemInv'
<1>1. /\ Places /\ Marks /\ Flags /\ Unposted /\ Placed
      /\ ~Overlaps => ResultTrue /\ OneReceive /\ NoStaleError
      /\ ~SharedClose => ClosingAlone /\ Connects
  BY DEF IInv, TypeOK, CallInv, ResultInv, MemInv
<1>2. /\ kind' = kind /\ side' = side /\ sem' = sem /\ failed' = failed /\ got' = got
      /\ conn' = conn /\ recvP' = recvP /\ sendP' = sendP /\ sideClosed' = sideClosed
      /\ recvErr' = recvErr /\ closing' = closing
  BY DEF doneVars, connVars
<1>3. \A c \in Caller : Active(c)' => Active(c)
  BY DEF Active
<1>4. TypeOK'
  BY <1>1, <1>2 DEF TypeOK, Places, Marks, Flags
<1>5. Unposted' /\ Placed'
  BY <1>1, <1>2 DEF Unposted, Placed
<1>6. ~Overlaps => ResultTrue' /\ OneReceive' /\ NoStaleError'
  <2>1. ~Overlaps => ResultTrue' /\ NoStaleError'
    BY <1>1, <1>2 DEF ResultTrue, NoStaleError
  <2>2. ~Overlaps => OneReceive'
    BY <1>1, <1>2, <1>3 DEF OneReceive
  <2>3. QED
    BY <2>1, <2>2
<1>7. ~SharedClose => ClosingAlone'
  <2>1. \A c \in Caller, s \in Side : Uses(c, s)' => Uses(c, s)
    BY <1>2, <1>3 DEF Uses
  <2>2. QED
    BY <1>1, <1>2, <1>3, <2>1 DEF ClosingAlone
<1>8. ~SharedClose => Connects'
  BY <1>1, <1>2, <1>3 DEF Connects
<1>9. QED
  BY <1>4, <1>5, <1>6, <1>7, <1>8 DEF ResultInv, MemInv

LEMMA OnceKept ==
  ASSUME Places, Places', RequestOnce, UNCHANGED <<queue, batch, recvP, sendP>>,
         \A c \in Caller : Waiting(c)' <=> Waiting(c)
  PROVE  RequestOnce'
<1>1. ASSUME NEW c \in Caller
      PROVE  Occurs(queue', c) + Occurs(batch', c) + InPipeOf(c)' = B2N(Waiting(c)')
  <2>1. Occurs(queue, c) + Occurs(batch, c) + InPipeOf(c) = B2N(Waiting(c))
    BY OnceNow
  <2>2. InPipeOf(c)' = InPipeOf(c)
    BY DEF InPipeOf
  <2>3. B2N(Waiting(c)') = B2N(Waiting(c))
    BY DEF B2N
  <2>4. QED
    BY <2>1, <2>2, <2>3
<1>2. QED
  BY <1>1, OnceNext

LEMMA InsideKept ==
  ASSUME Inside, UNCHANGED kind, loop' = "pipe" <=> loop = "pipe",
         loop = "pipe" => batch' = batch
  PROVE  Inside'
  BY DEF Inside

(* Steps of the loop thread and of Start that no request notices. *)
LEMMA LoopKept ==
  ASSUME IInv, UNCHANGED <<callVars, doneVars, connVars, closing, queue, batch>>,
         loop' = "pipe" <=> loop = "pipe", Batches'
  PROVE  IInv'
<1>1. TypeOK /\ Unposted /\ RequestOnce /\ Inside
  BY DEF IInv, CallInv
<1>2. pc' = pc /\ kind' = kind /\ side' = side /\ sem' = sem /\ recvP' = recvP /\ sendP' = sendP
  BY DEF callVars, doneVars, connVars
<1>3. TypeOK' /\ Unposted' /\ Placed' /\ ResultInv' /\ MemInv'
  <2>1. Calls' /\ queue' \in Seq(Caller) /\ batch' \in Seq(Caller)
    BY <1>1, <1>2 DEF TypeOK, Calls, Places
  <2>2. \A c \in Caller : /\ pc'[c] \in {"dispatch", "push"} => ~sem[c]
                          /\ pc'[c] # "idle" => pc[c] # "idle"
    BY <1>1, <1>2 DEF Unposted
  <2>3. QED
    BY <1>2, <2>1, <2>2, KeptRest
<1>4. RequestOnce'
  <2>1. \A c \in Caller : Waiting(c)' <=> Waiting(c)
    BY <1>2 DEF Waiting
  <2>2. QED
    BY <1>1, <1>2, <1>3, <2>1, OnceKept DEF TypeOK
<1>5. Inside'
  BY <1>1, <1>2, InsideKept
<1>6. QED
  BY <1>3, <1>4, <1>5 DEF IInv, CallInv

LEMMA StartStep ==
  ASSUME IInv, NEW c \in Caller, Start(c)
  PROVE  IInv'
<1>1. Batches
  BY DEF IInv, CallInv
<1>2. UNCHANGED <<callVars, doneVars, connVars, closing, queue, batch>>
  BY DEF Start, loopVars
<1>3. CASE inited
  <2>1. UNCHANGED <<lifeVars, loopVars>>
    BY <1>3 DEF Start
  <2>2. QED
    BY <1>1, <1>2, <2>1, LoopKept DEF Batches, lifeVars, loopVars
<1>4. CASE ~inited
  <2>1. loop' = "poll" /\ inited' = TRUE /\ batch' = batch
    BY <1>4 DEF Start
  <2>2. loop = "none" /\ batch = <<>>
    BY <1>1, <1>4 DEF Batches
  <2>3. Batches'
    BY <2>1, <2>2 DEF Batches
  <2>4. QED
    BY <1>2, <2>1, <2>2, <2>3, LoopKept
<1>5. QED
  BY <1>3, <1>4

LEMMA LoopStopsStep ==
  ASSUME IInv, LoopStops
  PROVE  IInv'
<1>1. /\ UNCHANGED <<callVars, doneVars, connVars, closing, queue, batch, inited>>
      /\ loop = "poll" /\ loop' = "ending"
  BY DEF LoopStops
<1>2. Batches'
  BY <1>1 DEF Batches, IInv, CallInv
<1>3. QED
  BY <1>1, <1>2, LoopKept

LEMMA LoopEndsStep ==
  ASSUME IInv, LoopEnds
  PROVE  IInv'
<1>1. /\ UNCHANGED <<callVars, doneVars, connVars, closing, queue, batch>>
      /\ loop = "ending" /\ loop' = "none"
  BY DEF LoopEnds
<1>2. Batches'
  BY <1>1 DEF Batches, IInv, CallInv
<1>3. QED
  BY <1>1, <1>2, LoopKept

LEMMA AsyncWakesStep ==
  ASSUME IInv, AsyncWakes
  PROVE  IInv'
<1>1. /\ UNCHANGED <<callVars, doneVars, connVars, closing, queue, batch, inited>>
      /\ loop = "poll" /\ loop' = "take"
  BY DEF AsyncWakes, lifeVars
<1>2. Batches'
  BY <1>1 DEF Batches, IInv, CallInv
<1>3. QED
  BY <1>1, <1>2, LoopKept


(* The batch takes the queue over. *)
LEMMA AsyncTakesStep ==
  ASSUME IInv, AsyncTakes
  PROVE  IInv'
<1>1. /\ TypeOK /\ Unposted /\ RequestOnce /\ Inside /\ Batches
      /\ loop = "take" /\ loop' = "run" /\ batch' = queue /\ queue' = <<>>
      /\ pc' = pc /\ kind' = kind /\ side' = side /\ inited' = inited
      /\ UNCHANGED <<doneVars, connVars, closing>>
  BY DEF IInv, CallInv, AsyncTakes, callVars, lifeVars
<1>2. sem' = sem /\ recvP' = recvP /\ sendP' = sendP
  BY <1>1 DEF doneVars, connVars
<1>3. TypeOK' /\ Unposted' /\ Placed' /\ ResultInv' /\ MemInv'
  <2>1. Calls' /\ queue' \in Seq(Caller) /\ batch' \in Seq(Caller)
    BY <1>1 DEF TypeOK, Calls, Places
  <2>2. \A c \in Caller : /\ pc'[c] \in {"dispatch", "push"} => ~sem[c]
                          /\ pc'[c] # "idle" => pc[c] # "idle"
    BY <1>1 DEF Unposted
  <2>3. QED
    BY <1>1, <2>1, <2>2, KeptRest
<1>4. RequestOnce'
  <2>1. batch = <<>>
    BY <1>1 DEF Batches
  <2>2. ASSUME NEW c \in Caller
        PROVE  Occurs(queue', c) + Occurs(batch', c) + InPipeOf(c)' = B2N(Waiting(c)')
    <3>1. /\ Occurs(queue, c) + Occurs(batch, c) + InPipeOf(c) = B2N(Waiting(c))
          /\ Occurs(queue, c) \in Nat /\ InPipeOf(c) \in Nat
      BY <1>1, OnceNow DEF TypeOK
    <3>2. Occurs(queue', c) = 0 /\ Occurs(batch, c) = 0 /\ Occurs(batch', c) = Occurs(queue, c)
      BY <1>1, <2>1, OccursEmpty
    <3>3. InPipeOf(c)' = InPipeOf(c)
      BY <1>2 DEF InPipeOf
    <3>4. B2N(Waiting(c)') = B2N(Waiting(c))
      BY <1>1, <1>2 DEF Waiting
    <3>5. QED
      BY <3>1, <3>2, <3>3, <3>4
  <2>3. QED
    BY <1>3, <2>2, OnceNext DEF TypeOK
<1>5. Inside' /\ Batches'
  BY <1>1, InsideKept DEF Batches
<1>6. QED
  BY <1>3, <1>4, <1>5 DEF IInv, CallInv

(* A caller goes on to p. *)
GoesOn(c, p) ==
  /\ pc' = [pc EXCEPT ![c] = p]
  /\ UNCHANGED <<kind, side, doneVars, connVars, closing, batch, loop, inited>>

LEMMA GoesOnRest ==
  ASSUME IInv, NEW c \in Caller, NEW p, GoesOn(c, p), pc[c] # "idle",
         p \in {"idle", "push", "queued", "wait", "crashed"},
         p = "push" => ~sem[c],
         queue' \in Seq(Caller)
  PROVE  /\ TypeOK' /\ Unposted' /\ Placed' /\ ResultInv' /\ MemInv' /\ Batches'
         /\ pc'[c] = p /\ \A d \in Caller : d # c => pc'[d] = pc[d]
<1>1. TypeOK /\ Unposted /\ Batches
  BY DEF IInv, CallInv
<1>2. pc'[c] = p /\ \A d \in Caller : d # c => pc'[d] = pc[d]
  BY <1>1 DEF GoesOn, TypeOK, Calls
<1>3. Calls' /\ batch' \in Seq(Caller)
  BY <1>1 DEF GoesOn, TypeOK, Calls, Places
<1>4. \A d \in Caller : /\ pc'[d] \in {"dispatch", "push"} => ~sem[d]
                        /\ pc'[d] # "idle" => pc[d] # "idle"
  BY <1>1, <1>2 DEF Unposted
<1>5. Batches'
  BY <1>1 DEF Batches, GoesOn
<1>6. UNCHANGED <<kind, side, doneVars, connVars, closing>>
  BY DEF GoesOn
<1>7. QED
  BY <1>2, <1>3, <1>4, <1>5, <1>6, KeptRest

LEMMA GoesOnKept ==
  ASSUME IInv, NEW c \in Caller, NEW p, GoesOn(c, p), pc[c] # "idle",
         p \in {"idle", "push", "queued", "wait", "crashed"}, p = "push" => ~sem[c],
         UNCHANGED queue,
         Waiting(c) <=> p \in {"queued", "wait"} /\ ~sem[c]
  PROVE  IInv'
<1>1. TypeOK /\ RequestOnce /\ Inside
  BY DEF IInv, CallInv
<1>2. queue' \in Seq(Caller)
  BY <1>1 DEF TypeOK, Places
<1>3. /\ TypeOK' /\ Unposted' /\ Placed' /\ ResultInv' /\ MemInv' /\ Batches'
      /\ pc'[c] = p /\ \A d \in Caller : d # c => pc'[d] = pc[d]
  BY <1>2, GoesOnRest
<1>4. UNCHANGED <<kind, side, sem, batch, recvP, sendP, loop>>
  BY DEF GoesOn, doneVars, connVars
<1>5. RequestOnce'
  <2>1. \A d \in Caller : Waiting(d)' <=> Waiting(d)
    BY <1>3, <1>4 DEF Waiting
  <2>2. QED
    BY <1>1, <1>3, <1>4, <2>1, OnceKept DEF TypeOK
<1>6. Inside'
  BY <1>1, <1>3, <1>4, InsideKept
<1>7. QED
  BY <1>3, <1>5, <1>6 DEF IInv, CallInv

LEMMA DispatchStep ==
  ASSUME IInv, NEW c \in Caller, Dispatch(c)
  PROVE  IInv'
<1>1. Unposted
  BY DEF IInv, CallInv
<1>2. PICK p \in {"push", "crashed"} : p = IF exec THEN "push" ELSE "crashed"
  OBVIOUS
<1>3. GoesOn(c, p) /\ pc[c] = "dispatch" /\ UNCHANGED queue
  BY <1>2 DEF GoesOn, Dispatch, lifeVars, loopVars
<1>4. ~sem[c] /\ ~Waiting(c)
  BY <1>1, <1>3 DEF Unposted, Waiting
<1>5. QED
  BY <1>3, <1>4, GoesOnKept

LEMMA WakeUpStep ==
  ASSUME IInv, NEW c \in Caller, WakeUp(c)
  PROVE  IInv'
<1>1. GoesOn(c, "wait") /\ pc[c] = "queued" /\ UNCHANGED queue
  BY DEF GoesOn, WakeUp, lifeVars
<1>2. Waiting(c) <=> ~sem[c]
  BY <1>1 DEF Waiting
<1>3. QED
  BY <1>1, <1>2, GoesOnKept

LEMMA ReturnStep ==
  ASSUME IInv, NEW c \in Caller, Return(c)
  PROVE  IInv'
<1>1. GoesOn(c, "idle") /\ pc[c] = "wait" /\ sem[c] /\ UNCHANGED queue
  BY DEF GoesOn, Return, lifeVars, loopVars
<1>2. ~Waiting(c)
  BY <1>1 DEF Waiting
<1>3. QED
  BY <1>1, <1>2, GoesOnKept

LEMMA PushStep ==
  ASSUME IInv, NEW c \in Caller, Push(c)
  PROVE  IInv'
<1>1. TypeOK /\ Unposted /\ RequestOnce /\ Inside
  BY DEF IInv, CallInv
<1>2. /\ GoesOn(c, "queued") /\ pc[c] = "push" /\ queue' = <<c>> \o queue
      /\ UNCHANGED <<kind, side, sem, batch, recvP, sendP, loop>>
  BY DEF GoesOn, Push, lifeVars, doneVars, connVars
<1>3. /\ queue \in Seq(Caller) /\ queue' \in Seq(Caller)
      /\ \A d : Occurs(queue', d) = Occurs(queue, d) + B2N(c = d)
  <2>1. queue \in Seq(Caller)
    BY <1>1 DEF TypeOK, Places
  <2>2. QED
    BY <1>2, <2>1, OccursPush
<1>4. /\ TypeOK' /\ Unposted' /\ Placed' /\ ResultInv' /\ MemInv' /\ Batches'
      /\ pc'[c] = "queued" /\ \A d \in Caller : d # c => pc'[d] = pc[d]
  BY <1>2, <1>3, GoesOnRest
<1>5. RequestOnce'
  <2>1. ~sem[c]
    BY <1>1, <1>2 DEF Unposted
  <2>2. ASSUME NEW d \in Caller
        PROVE  Occurs(queue', d) + Occurs(batch', d) + InPipeOf(d)' = B2N(Waiting(d)')
    <3>1. /\ Occurs(queue, d) + Occurs(batch, d) + InPipeOf(d) = B2N(Waiting(d))
          /\ Occurs(queue, d) \in Nat /\ Occurs(batch, d) \in Nat /\ InPipeOf(d) \in Nat
      BY <1>1, OnceNow DEF TypeOK
    <3>2. Occurs(queue', d) = Occurs(queue, d) + B2N(c = d) /\ Occurs(batch', d) = Occurs(batch, d)
      BY <1>2, <1>3
    <3>3. InPipeOf(d)' = InPipeOf(d)
      BY <1>2 DEF InPipeOf
    <3>4. B2N(Waiting(d)') = B2N(Waiting(d)) + B2N(c = d)
      BY <1>2, <1>4, <2>1 DEF Waiting, B2N
    <3>5. B2N(Waiting(d)) \in Nat /\ B2N(c = d) \in Nat
      BY DEF B2N
    <3>6. QED
      BY <3>1, <3>2, <3>3, <3>4, <3>5
  <2>3. QED
    BY <1>4, <2>2, OnceNext DEF TypeOK
<1>6. Inside'
  BY <1>1, <1>2, <1>4, InsideKept
<1>7. QED
  BY <1>4, <1>5, <1>6 DEF IInv, CallInv

-----------------------------------------------------------------------------
(* Steps that call the pipe, or complete a request without it. *)

LEMMA MemKept ==
  ASSUME MemInv, UNCHANGED <<kind, side, closing, sideClosed, conn>>,
         \A d \in Caller : (Active(d)' => Active(d)) /\ (sem[d] => sem'[d])
  PROVE  MemInv'
<1>1. \A d \in Caller, s \in Side : Uses(d, s)' => Uses(d, s)
  BY DEF Uses
<1>2. ~SharedClose => ClosingAlone'
  BY <1>1 DEF MemInv, ClosingAlone
<1>3. ~SharedClose => Connects'
  BY DEF MemInv, Connects
<1>4. QED
  BY <1>2, <1>3 DEF MemInv

(* The requests that a call of the pipe leaves, and those it completes. *)
LEMMA EffectRest ==
  ASSUME IInv, NEW c, Starts(c), NEW D \in SUBSET Caller, PipeEffect(c, D),
         UNCHANGED <<kind, side>>, Calls',
         \A d \in Caller : d # c => pc'[d] = pc[d],
         pc'[c] \notin {"dispatch", "push"}
  PROVE  /\ Marks' /\ Unposted' /\ Placed' /\ ResultInv'
         /\ recvP' \in [Side -> Caller \cup {NoCaller}] /\ sendP' \in [Side -> Seq(Caller)]
         /\ recvErr' \in [Side -> BOOLEAN]
         /\ \A d \in Caller : sem'[d] <=> sem[d] \/ d \in D
         /\ \A d \in Caller : Active(d)' => Active(d)
         /\ \A d \in D : d # c => d \in Pending /\ Waiting(d)
<1>1. /\ c \in Caller /\ Active(c) /\ InPipeOf(c) = 0
      /\ \A d \in Caller : InPipeOf(d) \in Nat /\ InPipeOf(d) = B2N(d \in Pending)
  BY StartsFacts DEF Starts
<1>2. TypeOK /\ Unposted /\ RequestOnce /\ Marks /\ (~Overlaps => ResultTrue /\ OneReceive)
  BY DEF IInv, CallInv, TypeOK, ResultInv
<1>3. /\ sem' = [d \in Caller |-> sem[d] \/ d \in D]
      /\ failed' \in [Caller -> BOOLEAN] /\ got' \in [Caller -> BOOLEAN]
      /\ \A d \in Caller : d \notin D => failed'[d] = failed[d] /\ got'[d] = got[d]
      /\ \A d \in Caller : InPipeOf(d)' + B2N(d \in D) = InPipeOf(d) + B2N(d = c)
      /\ recvP' \in [Side -> Caller \cup {NoCaller}] /\ sendP' \in [Side -> Seq(Caller)]
      /\ recvErr' \in [Side -> BOOLEAN]
      /\ Placed'
      /\ ~Overlaps =>
           /\ NoStaleError'
           /\ \A d \in D : kind[d] = "receive" => (failed'[d] <=> ~got'[d])
  BY DEF PipeEffect
<1>4. \A d \in Caller : sem'[d] <=> sem[d] \/ d \in D
  BY <1>3
<1>5. Marks'
  <2>1. sem' \in [Caller -> BOOLEAN]
    <3>1. \A d \in Caller : (sem[d] \/ d \in D) \in BOOLEAN
      OBVIOUS
    <3>2. QED
      BY <1>3, <3>1
  <2>2. QED
    BY <1>3, <2>1 DEF Marks
<1>6. \A d \in Caller : InPipeOf(d)' \in Nat
  <2>1. ASSUME NEW d \in Caller
        PROVE  InPipeOf(d)' \in Nat
    <3>1. RecvOf(recvP', d) \in Nat /\ SendOf(sendP', d) \in Nat
      BY <1>3, RecvOfType, SendOfType
    <3>2. QED
      BY <3>1 DEF InPipeOf
  <2>2. QED
    BY <2>1
<1>7. \A d \in D : d # c => d \in Pending /\ Waiting(d)
  <2>1. ASSUME NEW d \in D, d # c
        PROVE  d \in Pending /\ Waiting(d)
    <3>1. d \in Caller /\ B2N(d \in D) = 1 /\ B2N(d = c) = 0
      BY <2>1 DEF B2N
    <3>2. InPipeOf(d) # 0
      BY <1>1, <1>3, <1>6, <3>1
    <3>3. d \in Pending
      BY <1>1, <3>1, <3>2 DEF B2N
    <3>4. QED
      BY <1>2, <3>1, <3>3, InPipeFacts DEF TypeOK
  <2>2. QED
    BY <2>1
<1>8. Unposted'
  <2>1. ASSUME NEW d \in Caller
        PROVE  /\ pc'[d] \in {"dispatch", "push"} => ~sem'[d]
               /\ got'[d] => sem'[d]
    <3>1. pc'[d] \in {"dispatch", "push"} => d # c /\ pc[d] \in {"dispatch", "push"}
      BY <1>1
    <3>2. pc[d] \in {"dispatch", "push"} => ~sem[d] /\ ~Waiting(d)
      BY <1>2 DEF Unposted, Waiting
    <3>3. got'[d] => sem'[d]
      BY <1>2, <1>3, <1>4 DEF Unposted
    <3>4. QED
      BY <1>4, <1>7, <3>1, <3>2, <3>3
  <2>2. QED
    BY <2>1 DEF Unposted
<1>9. \A d \in Caller : Active(d)' => Active(d)
  BY <1>1 DEF Active
<1>10. ResultInv'
  <2>1. ~Overlaps => OneReceive'
    BY <1>2, <1>9 DEF OneReceive
  <2>2. ~Overlaps => ResultTrue'
    <3>1. ASSUME ~Overlaps, NEW d \in Caller, kind'[d] = "receive", sem'[d]
          PROVE  failed'[d] <=> ~got'[d]
      <4>1. CASE d \in D
        BY <1>3, <3>1, <4>1
      <4>2. CASE d \notin D
        BY <1>2, <1>3, <1>4, <3>1, <4>2 DEF ResultTrue
      <4>3. QED
        BY <4>1, <4>2
    <3>2. QED
      BY <3>1 DEF ResultTrue
  <2>3. QED
    BY <1>3, <2>1, <2>2 DEF ResultInv
<1>11. QED
  BY <1>3, <1>4, <1>5, <1>7, <1>8, <1>9, <1>10

(* The loop thread's next request. *)
LEMMA HeadFacts ==
  ASSUME IInv, batch # <<>>
  PROVE  /\ Starts(Head(batch)) /\ Waiting(Head(batch)) /\ Head(batch) \in Caller
         /\ Tail(batch) \in Seq(Caller)
         /\ \A d : Occurs(batch, d) = Occurs(Tail(batch), d) + B2N(Head(batch) = d)
<1>1. TypeOK /\ RequestOnce /\ Unposted /\ Placed /\ ResultInv /\ batch \in Seq(Caller)
  BY DEF IInv, CallInv, TypeOK, Places
<1>2. /\ Head(batch) \in Caller /\ Tail(batch) \in Seq(Caller)
      /\ \A d : Occurs(batch, d) = Occurs(Tail(batch), d) + B2N(Head(batch) = d)
  BY <1>1, OccursTail
<1>3. PICK c \in Caller : c = Head(batch)
  BY <1>2
<1>4. /\ Occurs(queue, c) \in Nat /\ Occurs(batch, c) \in Nat /\ InPipeOf(c) \in Nat
      /\ Occurs(queue, c) + Occurs(batch, c) + InPipeOf(c) = B2N(Waiting(c))
  BY <1>1, OnceNow DEF TypeOK
<1>5. Occurs(Tail(batch), c) \in Nat
  BY <1>2, OccursType
<1>6. Occurs(batch, c) = Occurs(Tail(batch), c) + B2N(Head(batch) = c)
  BY <1>2
<1>7. InPipeOf(c) = 0 /\ Waiting(c)
  BY <1>3, <1>4, <1>5, <1>6 DEF B2N
<1>8. c \notin Pending
  BY <1>1, <1>7, InPipeFacts DEF TypeOK, B2N
<1>9. Starts(c)
  BY <1>1, <1>7, <1>8 DEF Starts, Waiting, Active
<1>10. QED
  BY <1>2, <1>3, <1>7, <1>9

(* What the loop thread's next request becomes; the memory apart. *)
LEMMA HandledRest ==
  ASSUME IInv, batch # <<>>, NEW D \in SUBSET Caller, PipeEffect(Head(batch), D),
         UNCHANGED <<callVars, queue, closing>>, batch' = Tail(batch),
         sideClosed' \in [Side -> BOOLEAN], conn' \in {"none", "open", "freed"}
  PROVE  /\ TypeOK' /\ RequestOnce' /\ Unposted' /\ Placed' /\ ResultInv'
         /\ \A d \in Caller : sem'[d] <=> sem[d] \/ d \in D
         /\ \A d \in Caller : Active(d)' => Active(d)
<1>1. PICK c \in Caller : c = Head(batch)
  BY HeadFacts
<1>2. /\ Starts(c) /\ Waiting(c) /\ Tail(batch) \in Seq(Caller)
      /\ \A d : Occurs(batch, d) = Occurs(Tail(batch), d) + B2N(c = d)
  BY <1>1, HeadFacts
<1>3. TypeOK /\ RequestOnce
  BY DEF IInv, CallInv
<1>4. pc' = pc /\ kind' = kind /\ side' = side /\ PipeEffect(c, D)
  BY <1>1 DEF callVars
<1>5. Calls' /\ pc'[c] \notin {"dispatch", "push"}
  BY <1>2, <1>3, <1>4 DEF TypeOK, Calls, Waiting
<1>6. /\ Marks' /\ Unposted' /\ Placed' /\ ResultInv'
      /\ recvP' \in [Side -> Caller \cup {NoCaller}] /\ sendP' \in [Side -> Seq(Caller)]
      /\ recvErr' \in [Side -> BOOLEAN]
      /\ \A d \in Caller : sem'[d] <=> sem[d] \/ d \in D
      /\ \A d \in Caller : Active(d)' => Active(d)
      /\ \A d \in D : d # c => d \in Pending /\ Waiting(d)
  BY <1>2, <1>4, <1>5, EffectRest
<1>7. TypeOK'
  BY <1>2, <1>3, <1>5, <1>6 DEF TypeOK, Places, Flags
<1>8. RequestOnce'
  <2>1. ASSUME NEW d \in Caller
        PROVE  Occurs(queue', d) + Occurs(batch', d) + InPipeOf(d)' = B2N(Waiting(d)')
    <3>1. /\ Occurs(queue, d) + Occurs(batch, d) + InPipeOf(d) = B2N(Waiting(d))
          /\ Occurs(queue, d) \in Nat /\ Occurs(batch, d) \in Nat /\ InPipeOf(d) \in Nat
      BY <1>3, OnceNow DEF TypeOK
    <3>2. Occurs(queue', d) = Occurs(queue, d)
      OBVIOUS
    <3>3. Occurs(batch, d) = Occurs(batch', d) + B2N(c = d) /\ Occurs(batch', d) \in Nat
      BY <1>2, OccursType
    <3>4. InPipeOf(d)' + B2N(d \in D) = InPipeOf(d) + B2N(d = c)
      BY <1>4 DEF PipeEffect
    <3>5. InPipeOf(d)' \in Nat
      <4>1. RecvOf(recvP', d) \in Nat /\ SendOf(sendP', d) \in Nat
        BY <1>6, RecvOfType, SendOfType
      <4>2. QED
        BY <4>1 DEF InPipeOf
    <3>6. B2N(Waiting(d)') + B2N(d \in D) = B2N(Waiting(d))
      BY <1>2, <1>4, <1>6 DEF Waiting, B2N
    <3>7. /\ B2N(c = d) = B2N(d = c) /\ B2N(d = c) \in Nat /\ B2N(d \in D) \in Nat
          /\ B2N(Waiting(d)') \in Nat /\ B2N(Waiting(d)) \in Nat
      BY DEF B2N
    <3>8. PICK w \in Nat, v \in Nat, x \in Nat, y \in Nat, i \in Nat :
            /\ w = B2N(Waiting(d)) /\ v = B2N(Waiting(d)') /\ x = B2N(d = c)
            /\ y = B2N(d \in D) /\ i = InPipeOf(d)'
      BY <3>5, <3>7
    <3>9. /\ Occurs(queue, d) + Occurs(batch, d) + InPipeOf(d) = w
          /\ Occurs(batch, d) = Occurs(batch', d) + x
          /\ i + y = InPipeOf(d) + x
          /\ v + y = w
      BY <3>1, <3>3, <3>4, <3>6, <3>7, <3>8
    <3>10. Occurs(queue, d) + Occurs(batch', d) + i = v
      <4>1. PICK q \in Nat, b \in Nat, j \in Nat, k \in Nat :
              /\ q = Occurs(queue, d) /\ b = Occurs(batch, d) /\ j = InPipeOf(d)
              /\ k = Occurs(batch', d)
        BY <3>1, <3>3
      <4>2. q + b + j = w /\ b = k + x /\ i + y = j + x /\ v + y = w
        BY <3>9, <4>1
      <4>3. q + k + i = v
        BY <4>2
      <4>4. QED
        BY <4>1, <4>3
    <3>11. QED
      BY <3>2, <3>8, <3>10
  <2>2. QED
    BY <1>7, <2>1, OnceNext DEF TypeOK
<1>9. QED
  BY <1>6, <1>7, <1>8


(* A request that is done at once: a connect, or a stop of the loop. *)
LEMMA DoneEffect ==
  ASSUME NEW c, Starts(c), kind[c] # "receive", Complete({c}, {}),
         UNCHANGED <<recvP, sendP, recvErr, got, kind, side>>
  PROVE  PipeEffect(c, {c})
<1>1. Places /\ Marks /\ Flags /\ Placed /\ c \in Caller /\ (~Overlaps => NoStaleError)
  BY DEF Starts, TypeOK, ResultInv
<1>2. /\ sem' = [d \in Caller |-> sem[d] \/ d \in {c}]
      /\ failed' = [d \in Caller |-> IF d \in {c} THEN d \in {} ELSE failed[d]]
  BY DEF Complete
<1>3. failed' \in [Caller -> BOOLEAN]
  <2>1. failed \in [Caller -> BOOLEAN]
    BY <1>1 DEF Marks
  <2>2. QED
    BY <1>2, <2>1, MarksChosen
<1>4. /\ got' \in [Caller -> BOOLEAN]
      /\ \A d \in Caller : d \notin {c} => failed'[d] = failed[d] /\ got'[d] = got[d]
  BY <1>1, <1>2 DEF Marks
<1>5. \A d \in Caller : InPipeOf(d)' + B2N(d \in {c}) = InPipeOf(d) + B2N(d = c)
  <2>1. \A d \in Caller : InPipeOf(d)' = InPipeOf(d) /\ B2N(d \in {c}) = B2N(d = c)
    BY DEF InPipeOf, B2N
  <2>2. QED
    BY <2>1
<1>6. /\ recvP' \in [Side -> Caller \cup {NoCaller}] /\ sendP' \in [Side -> Seq(Caller)]
      /\ recvErr' \in [Side -> BOOLEAN] /\ Placed'
      /\ ~Overlaps => NoStaleError'
  BY <1>1 DEF Placed, Places, Flags, NoStaleError
<1>7. QED
  BY <1>2, <1>3, <1>4, <1>5, <1>6 DEF PipeEffect

LEMMA HandleNextStep ==
  ASSUME IInv, HandleNext
  PROVE  IInv'
<1>1. /\ Inside /\ Batches /\ MemInv /\ TypeOK /\ loop = "run"
      /\ UNCHANGED <<inited, queue, callVars, connVars, closing>>
  BY DEF IInv, CallInv, HandleNext
<1>2. CASE batch = <<>>
  <2>1. loop' = "poll" /\ UNCHANGED <<batch, doneVars>>
    BY <1>2 DEF HandleNext
  <2>2. QED
    BY <1>1, <1>2, <2>1, LoopKept DEF Batches
<1>3. CASE batch # <<>> /\ kind[Head(batch)] = "stop"
  <2>1. /\ Complete({Head(batch)}, {}) /\ batch' = Tail(batch) /\ UNCHANGED <<loop, got>>
    BY <1>3 DEF HandleNext
  <2>2. Head(batch) \in Caller /\ Starts(Head(batch)) /\ kind[Head(batch)] # "receive"
    BY <1>3, HeadFacts
  <2>3. PipeEffect(Head(batch), {Head(batch)})
    BY <1>1, <2>1, <2>2, DoneEffect DEF callVars, connVars
  <2>4. sideClosed' \in [Side -> BOOLEAN] /\ conn' \in {"none", "open", "freed"}
    BY <1>1 DEF TypeOK, Flags, connVars
  <2>5. /\ TypeOK' /\ RequestOnce' /\ Unposted' /\ Placed' /\ ResultInv'
        /\ \A d \in Caller : sem'[d] <=> sem[d] \/ d \in {Head(batch)}
        /\ \A d \in Caller : Active(d)' => Active(d)
    BY <1>1, <1>3, <2>1, <2>2, <2>3, <2>4, HandledRest
  <2>6. MemInv'
    BY <1>1, <2>5, MemKept DEF callVars, connVars
  <2>7. Inside' /\ Batches'
    BY <1>1, <2>1, InsideKept DEF Batches, callVars
  <2>8. QED
    BY <2>5, <2>6, <2>7 DEF IInv, CallInv
<1>4. CASE batch # <<>> /\ kind[Head(batch)] # "stop"
  <2>1. loop' = "pipe" /\ UNCHANGED <<batch, doneVars>>
    BY <1>4 DEF HandleNext
  <2>2. /\ pc' = pc /\ kind' = kind /\ side' = side /\ sem' = sem
        /\ recvP' = recvP /\ sendP' = sendP
    BY <1>1, <2>1 DEF callVars, doneVars, connVars
  <2>3. TypeOK' /\ Unposted' /\ Placed' /\ ResultInv' /\ MemInv'
    <3>1. Calls' /\ queue' \in Seq(Caller) /\ batch' \in Seq(Caller)
      BY <1>1, <2>1, <2>2 DEF TypeOK, Calls, Places
    <3>2. \A c \in Caller : /\ pc'[c] \in {"dispatch", "push"} => ~sem[c]
                            /\ pc'[c] # "idle" => pc[c] # "idle"
      BY <2>2 DEF IInv, CallInv, Unposted
    <3>3. QED
      BY <1>1, <2>1, <2>2, <3>1, <3>2, KeptRest
  <2>4. RequestOnce'
    <3>1. \A c \in Caller : Waiting(c)' <=> Waiting(c)
      BY <2>2 DEF Waiting
    <3>2. QED
      BY <1>1, <2>1, <2>2, <2>3, <3>1, OnceKept DEF TypeOK, IInv, CallInv
  <2>5. Inside' /\ Batches'
    BY <1>1, <1>4, <2>1, <2>2, BridgeAssumption DEF Inside, Batches, BridgeAssumption
  <2>6. QED
    BY <2>3, <2>4, <2>5 DEF IInv, CallInv
<1>5. QED
  BY <1>2, <1>3, <1>4

(* A connection opens for the one caller that connects it. *)
LEMMA ConnectMem ==
  ASSUME IInv, NEW c \in Caller, Active(c), kind[c] = "connect", conn' = "open", sem'[c],
         UNCHANGED <<kind, side, closing, sideClosed>>,
         \A d \in Caller : (Active(d)' => Active(d)) /\ (sem[d] => sem'[d])
  PROVE  MemInv'
<1>1. MemInv
  BY DEF IInv
<1>2. \A d \in Caller, s \in Side : Uses(d, s)' => Uses(d, s)
  BY DEF Uses
<1>3. ~SharedClose => ClosingAlone'
  BY <1>1, <1>2 DEF MemInv, ClosingAlone
<1>4. ~SharedClose => Connects'
  BY <1>1 DEF MemInv, Connects
<1>5. QED
  BY <1>3, <1>4 DEF MemInv

(* A close is done by the only caller that uses its side. *)
LEMMA CloseMem ==
  ASSUME IInv, NEW c \in Caller, Active(c), kind[c] = "close", conn = "open", PipeClose(c),
         sem'[c], UNCHANGED <<kind, side, closing>>,
         \A d \in Caller : (Active(d)' => Active(d)) /\ (sem[d] => sem'[d])
  PROVE  MemInv'
<1> DEFINE s == side[c]
<1>1. MemInv /\ TypeOK /\ s \in Side /\ Peer(s) \in Side /\ Peer(s) # s
      /\ \A x \in Side : x = s \/ x = Peer(s)
  BY DEF IInv, TypeOK, Calls, Peer, Side
<1>2. \A d \in Caller, x \in Side : Uses(d, x)' => Uses(d, x)
  BY DEF Uses
<1>3. /\ sideClosed'[s] /\ sideClosed'[Peer(s)] = sideClosed[Peer(s)]
      /\ conn' = IF sideClosed[Peer(s)] THEN "freed" ELSE conn
  BY <1>1 DEF PipeClose, TypeOK, Flags
<1>4. ~SharedClose => ClosingAlone'
  <2>1. ASSUME ~SharedClose
        PROVE  ClosingAlone'
    <3>1. ClosingAlone /\ closing[s] /\ Uses(c, s)
      BY <1>1, <2>1 DEF MemInv, ClosingAlone, Uses
    <3>2. \A d \in Caller : Uses(d, s) => d = c
      BY <1>1, <3>1 DEF ClosingAlone
    <3>3. \A d \in Caller : Uses(d, s)' => sem'[d]
      BY <1>1, <1>2, <3>2
    <3>4. \A x \in Side : sideClosed'[x] => closing'[x] /\ \A d \in Caller : Uses(d, x)' => sem'[d]
      BY <1>1, <1>2, <1>3, <3>1, <3>3 DEF ClosingAlone
    <3>5. QED
      BY <1>2, <3>1, <3>4 DEF ClosingAlone
  <2>2. QED
    BY <2>1
<1>5. ~SharedClose => Connects'
  <2>1. conn' = "freed" => \A x \in Side : sideClosed'[x]
    BY <1>1, <1>3
  <2>2. QED
    BY <1>1, <2>1 DEF MemInv, Connects
<1>6. QED
  BY <1>4, <1>5 DEF MemInv


(* The loop thread carries a request out on the pipe. *)
LEMMA HandlePipeStep ==
  ASSUME IInv, HandlePipe
  PROVE  IInv'
<1>1. /\ Inside /\ Batches /\ MemInv /\ TypeOK /\ loop = "pipe"
      /\ loop' = "run" /\ batch' = Tail(batch)
      /\ UNCHANGED <<inited, queue, callVars, closing>>
  BY DEF IInv, CallInv, HandlePipe, lifeVars
<1>2. batch # <<>> /\ kind[Head(batch)] # "stop"
  BY <1>1 DEF Inside
<1>3. PICK c \in Caller : c = Head(batch)
  BY <1>2, HeadFacts
<1>4. Starts(c) /\ Waiting(c) /\ Active(c) /\ kind[c] \in {"receive", "send", "connect", "close"}
  <2>1. kind[c] \in Kind
    BY <1>1, <1>3 DEF TypeOK, Calls
  <2>2. QED
    BY <1>2, <1>3, <2>1, HeadFacts DEF Starts, Kind
<1>5. pc' = pc /\ kind' = kind /\ side' = side
  BY <1>1 DEF callVars
<1>6. Inside' /\ Batches'
  BY <1>1, <1>5, BridgeAssumption DEF Inside, Batches, BridgeAssumption
<1>7. ASSUME NEW D \in SUBSET Caller, PipeEffect(c, D),
             sideClosed' \in [Side -> BOOLEAN], conn' \in {"none", "open", "freed"}
      PROVE  /\ TypeOK' /\ RequestOnce' /\ Unposted' /\ Placed' /\ ResultInv'
             /\ \A d \in Caller : sem'[d] <=> sem[d] \/ d \in D
             /\ \A d \in Caller : Active(d)' => Active(d)
  BY <1>1, <1>2, <1>3, <1>7, HandledRest
<1>8. sideClosed \in [Side -> BOOLEAN] /\ conn \in {"none", "open", "freed"}
  BY <1>1 DEF TypeOK, Flags
<1>9. CASE kind[c] = "connect"
  <2>1. /\ conn' = "open" /\ Complete({c}, {})
        /\ UNCHANGED <<recvP, sendP, sideClosed, recvErr, got>>
    BY <1>3, <1>9 DEF HandlePipe
  <2>2. PipeEffect(c, {c})
    BY <1>4, <1>5, <1>9, <2>1, DoneEffect
  <2>3. /\ TypeOK' /\ RequestOnce' /\ Unposted' /\ Placed' /\ ResultInv'
        /\ \A d \in Caller : sem'[d] <=> sem[d] \/ d \in {c}
        /\ \A d \in Caller : Active(d)' => Active(d)
    BY <1>7, <1>8, <2>1, <2>2
  <2>4. MemInv'
    BY <1>1, <1>4, <1>5, <1>9, <2>1, <2>3, ConnectMem
  <2>5. QED
    BY <1>6, <2>3, <2>4 DEF IInv, CallInv
<1>10. CASE kind[c] \in {"receive", "send"}
  <2>1. UNCHANGED <<conn, sideClosed>>
    BY <1>3, <1>10 DEF HandlePipe
  <2>2. PICK D \in SUBSET Caller : PipeEffect(c, D)
    <3>1. CASE kind[c] = "receive"
      <4>1. PipeReceive(c)
        BY <1>3, <3>1 DEF HandlePipe
      <4>2. QED
        BY <1>4, <1>5, <3>1, <4>1, ReceiveEffect
    <3>2. CASE kind[c] = "send"
      <4>1. PipeSend(c)
        BY <1>3, <3>2 DEF HandlePipe
      <4>2. QED
        BY <1>4, <1>5, <3>2, <4>1, SendEffect
    <3>3. QED
      BY <1>10, <3>1, <3>2
  <2>3. /\ TypeOK' /\ RequestOnce' /\ Unposted' /\ Placed' /\ ResultInv'
        /\ \A d \in Caller : sem'[d] <=> sem[d] \/ d \in D
        /\ \A d \in Caller : Active(d)' => Active(d)
    BY <1>7, <1>8, <2>1, <2>2
  <2>4. MemInv'
    BY <1>1, <1>5, <2>1, <2>3, MemKept
  <2>5. QED
    BY <1>6, <2>3, <2>4 DEF IInv, CallInv
<1>11. CASE kind[c] = "close"
  <2>1. conn = "open" /\ PipeClose(c)
    BY <1>3, <1>11 DEF HandlePipe
  <2>2. PipeEffect(c, Pending \cup {c}) /\ Pending \cup {c} \in SUBSET Caller
    BY <1>4, <1>5, <1>11, <2>1, CloseEffect DEF Pending
  <2>3. sideClosed' \in [Side -> BOOLEAN] /\ conn' \in {"none", "open", "freed"}
    BY <1>8, <2>1 DEF PipeClose
  <2>4. /\ TypeOK' /\ RequestOnce' /\ Unposted' /\ Placed' /\ ResultInv'
        /\ \A d \in Caller : sem'[d] <=> sem[d] \/ d \in Pending \cup {c}
        /\ \A d \in Caller : Active(d)' => Active(d)
    BY <1>7, <2>2, <2>3
  <2>5. MemInv'
    BY <1>1, <1>4, <1>5, <1>11, <2>1, <2>4, CloseMem
  <2>6. QED
    BY <1>6, <2>4, <2>5 DEF IInv, CallInv
<1>12. QED
  BY <1>4, <1>9, <1>10, <1>11

-----------------------------------------------------------------------------
(* A thread begins a call. *)

LEMMA MayCallSpec ==
  ASSUME NEW c \in Caller, NEW k \in Kind, NEW s \in Side, MayCall(c, k, s)
  PROVE  /\ k \in {"receive", "send", "close"} => conn = "open" /\ ~closing[s]
         /\ k = "receive" /\ ~Overlaps =>
              \A d \in Caller : pc[d] # "idle" => ~(kind[d] = "receive" /\ side[d] = s)
         /\ k = "close" /\ ~SharedClose => ~OthersUse(c, s)
         /\ k = "connect" =>
              conn = "none" /\ \A d \in Caller : pc[d] # "idle" => kind[d] # "connect"
<1>1. CASE k = "connect"
  BY <1>1 DEF MayCall
<1>2. CASE k = "receive"
  BY <1>2 DEF MayCall
<1>3. CASE k = "send"
  BY <1>3 DEF MayCall
<1>4. CASE k = "close"
  BY <1>4 DEF MayCall
<1>5. CASE k = "stop"
  BY <1>5
<1>6. QED
  BY <1>1, <1>2, <1>3, <1>4, <1>5 DEF Kind

LEMMA BeginStep ==
  ASSUME IInv, NEW c \in Caller, Begin(c)
  PROVE  IInv'
<1>1. /\ TypeOK /\ RequestOnce /\ Unposted /\ Placed /\ Inside /\ Batches /\ ResultInv /\ MemInv
      /\ pc[c] = "idle" /\ pc' = [pc EXCEPT ![c] = "dispatch"]
      /\ sem' = [sem EXCEPT ![c] = FALSE] /\ got' = [got EXCEPT ![c] = FALSE]
      /\ failed' = [failed EXCEPT ![c] = FALSE]
      /\ UNCHANGED <<inited, queue, batch, loop, conn, recvP, sendP, sideClosed, recvErr>>
  BY DEF Begin, IInv, CallInv, lifeVars, loopVars, connVars
<1>2. PICK k \in Kind, s \in Side :
        /\ MayCall(c, k, s)
        /\ kind' = [kind EXCEPT ![c] = k] /\ side' = [side EXCEPT ![c] = s]
        /\ closing' = [closing EXCEPT ![s] = @ \/ k = "close"]
  BY DEF Begin
<1>3. /\ pc'[c] = "dispatch" /\ kind'[c] = k /\ side'[c] = s
      /\ ~sem'[c] /\ ~got'[c]
      /\ \A d \in Caller : d # c =>
           /\ pc'[d] = pc[d] /\ kind'[d] = kind[d] /\ side'[d] = side[d]
           /\ sem'[d] = sem[d] /\ got'[d] = got[d] /\ failed'[d] = failed[d]
  BY <1>1, <1>2 DEF TypeOK, Calls, Marks
<1>4. /\ closing'[s] <=> closing[s] \/ k = "close"
      /\ \A x \in Side : x # s => closing'[x] = closing[x]
      /\ closing' \in [Side -> BOOLEAN]
  BY <1>1, <1>2 DEF TypeOK, Flags
<1>5. ~Waiting(c) /\ ~Active(c) /\ c \notin Pending
  <2>1. ~Waiting(c) /\ ~Active(c)
    BY <1>1 DEF Waiting, Active
  <2>2. QED
    BY <1>1, <2>1, InPipeFacts DEF TypeOK
<1>6. TypeOK'
  <2>1. Calls'
    BY <1>1, <1>2 DEF TypeOK, Calls
  <2>2. Marks'
    BY <1>1 DEF TypeOK, Marks
  <2>3. QED
    BY <1>1, <1>4, <2>1, <2>2 DEF TypeOK, Places, Flags
<1>7. Unposted'
  BY <1>1, <1>3 DEF Unposted
<1>8. Placed'
  <2>1. \A x \in Side : recvP[x] # NoCaller => recvP[x] \in Caller /\ recvP[x] # c
    BY <1>1, <1>5 DEF TypeOK, Places, Pending
  <2>2. \A x \in Side : \A j \in 1 .. Len(sendP[x]) : sendP[x][j] \in Caller /\ sendP[x][j] # c
    <3>1. ASSUME NEW x \in Side, NEW j \in 1 .. Len(sendP[x])
          PROVE  sendP[x][j] \in Caller /\ sendP[x][j] # c
      <4>1. sendP[x] \in Seq(Caller)
        BY <1>1 DEF TypeOK, Places
      <4>2. sendP[x][j] \in Caller
        BY <4>1
      <4>3. QED
        BY <1>5, <4>2 DEF Pending
    <3>2. QED
      BY <3>1
  <2>3. \A x \in Side :
          recvP'[x] # NoCaller => kind'[recvP'[x]] = "receive" /\ side'[recvP'[x]] = x
    BY <1>1, <1>3, <2>1 DEF Placed
  <2>4. \A x \in Side : \A j \in 1 .. Len(sendP'[x]) :
          kind'[sendP'[x][j]] = "send" /\ side'[sendP'[x][j]] = x
    BY <1>1, <1>3, <2>2 DEF Placed
  <2>5. QED
    BY <2>3, <2>4 DEF Placed
<1>9. RequestOnce'
  <2>1. \A d \in Caller : Waiting(d)' <=> Waiting(d)
    BY <1>3, <1>5 DEF Waiting
  <2>2. QED
    BY <1>1, <1>6, <2>1, OnceKept DEF TypeOK
<1>10. Inside' /\ Batches'
  <2>1. batch # <<>> => Head(batch) \in Caller /\ Head(batch) # c
    BY <1>5, HeadFacts
  <2>2. Inside'
    BY <1>1, <1>3, <2>1 DEF Inside
  <2>3. QED
    BY <1>1, <2>2 DEF Batches
<1>11. /\ k \in {"receive", "send", "close"} => conn = "open" /\ ~closing[s]
       /\ k = "receive" /\ ~Overlaps =>
            \A d \in Caller : pc[d] # "idle" => ~(kind[d] = "receive" /\ side[d] = s)
       /\ k = "close" /\ ~SharedClose => ~OthersUse(c, s)
       /\ k = "connect" =>
            conn = "none" /\ \A d \in Caller : pc[d] # "idle" => kind[d] # "connect"
  BY <1>2, MayCallSpec
<1>12. ResultInv'
  <2>1. ASSUME ~Overlaps
        PROVE  OneReceive' /\ ResultTrue' /\ NoStaleError'
    <3>1. OneReceive /\ ResultTrue /\ NoStaleError
      BY <1>1, <2>1 DEF ResultInv
    <3>2. OneReceive'
      BY <1>3, <1>11, <2>1, <3>1 DEF OneReceive, Active
    <3>3. ResultTrue'
      BY <1>3, <3>1 DEF ResultTrue
    <3>4. NoStaleError'
      BY <1>1, <3>1 DEF NoStaleError
    <3>5. QED
      BY <3>2, <3>3, <3>4
  <2>2. QED
    BY <2>1 DEF ResultInv
<1>13. MemInv'
  <2>1. ASSUME ~SharedClose
        PROVE  ClosingAlone' /\ Connects'
    <3>1. ClosingAlone /\ Connects
      BY <1>1, <2>1 DEF MemInv
    <3>2. /\ \A d \in Caller, x \in Side : d # c => (Uses(d, x)' <=> Uses(d, x))
          /\ \A x \in Side : Uses(c, x)' => x = s /\ ~closing[s]
      BY <1>3, <1>11 DEF Uses, Active
    <3>3. k = "close" => \A d \in Caller : d # c => ~Uses(d, s)
      BY <1>11, <2>1 DEF OthersUse, Uses, Active
    <3>4. ASSUME NEW x \in Side, closing'[x], NEW d \in Caller, NEW e \in Caller,
                 Uses(d, x)', Uses(e, x)'
          PROVE  d = e
      <4>1. CASE closing[x]
        BY <3>1, <3>2, <3>4, <4>1 DEF ClosingAlone
      <4>2. CASE ~closing[x]
        BY <1>4, <3>2, <3>3, <3>4, <4>2
      <4>3. QED
        BY <4>1, <4>2
    <3>5. \A x \in Side : sideClosed'[x] => closing'[x] /\ \A d \in Caller : Uses(d, x)' => sem'[d]
      BY <1>1, <1>3, <1>4, <3>1, <3>2 DEF ClosingAlone
    <3>6. \A d \in Caller : Active(d)' /\ kind'[d] = "close" => closing'[side'[d]]
      <4>1. ASSUME NEW d \in Caller, d # c, Active(d)', kind'[d] = "close"
            PROVE  closing'[side'[d]]
        <5>1. closing[side[d]] /\ side[d] \in Side /\ side'[d] = side[d]
          BY <1>1, <1>3, <3>1, <4>1 DEF ClosingAlone, Active, TypeOK, Calls
        <5>2. QED
          BY <1>4, <5>1
      <4>2. QED
        BY <1>3, <1>4, <4>1
    <3>7. ClosingAlone'
      BY <3>4, <3>5, <3>6 DEF ClosingAlone
    <3>8. Connects'
      <4>1. \A d, e \in Caller :
              Active(d)' /\ Active(e)' /\ kind'[d] = "connect" /\ kind'[e] = "connect" => d = e
        BY <1>3, <1>11, <3>1 DEF Connects, Active
      <4>2. \A d \in Caller : Active(d)' /\ kind'[d] = "connect" /\ ~sem'[d] => conn' = "none"
        BY <1>1, <1>3, <1>11, <3>1 DEF Connects, Active
      <4>3. QED
        BY <1>1, <3>1, <4>1, <4>2 DEF Connects
    <3>9. QED
      BY <3>7, <3>8
  <2>2. QED
    BY <2>1 DEF MemInv
<1>14. QED
  BY <1>6, <1>7, <1>8, <1>9, <1>10, <1>12, <1>13 DEF IInv, CallInv

-----------------------------------------------------------------------------
(* Every reachable state. *)

LEMMA InitInv == Init => IInv
<1> SUFFICES ASSUME Init
             PROVE  IInv
  OBVIOUS
<1>1. TypeOK
  BY DEF Init, TypeOK, Places, Marks, Calls, Flags, Kind, Side
<1>2. RequestOnce
  <2>1. ASSUME NEW c \in Caller
        PROVE  Occurs(queue, c) + Occurs(batch, c)
                   + Cardinality({s \in Side : recvP[s] = c})
                   + Occurs(sendP["client"], c) + Occurs(sendP["server"], c)
                 = B2N(pc[c] \in {"queued", "wait"} /\ ~sem[c])
    <3>1. /\ Occurs(queue, c) = 0 /\ Occurs(batch, c) = 0
          /\ Occurs(sendP["client"], c) = 0 /\ Occurs(sendP["server"], c) = 0
      BY OccursEmpty DEF Init, Side
    <3>2. recvP["client"] # c /\ recvP["server"] # c
      BY BridgeAssumption DEF Init, Side, BridgeAssumption
    <3>3. Cardinality({s \in Side : recvP[s] = c}) = 0
      BY <3>2, OccursReceive DEF B2N
    <3>4. B2N(pc[c] \in {"queued", "wait"} /\ ~sem[c]) = 0
      BY DEF Init, B2N
    <3>5. QED
      BY <3>1, <3>3, <3>4
  <2>2. QED
    BY <2>1 DEF RequestOnce
<1>3. Unposted /\ Placed /\ Inside /\ Batches
  BY DEF Init, Unposted, Placed, Inside, Batches, Side
<1>4. ResultInv /\ MemInv
  <2>1. ResultTrue /\ OneReceive /\ NoStaleError
    BY DEF Init, ResultTrue, OneReceive, NoStaleError, Active
  <2>2. ClosingAlone /\ Connects
    BY DEF Init, ClosingAlone, Connects, Uses, Active
  <2>3. QED
    BY <2>1, <2>2 DEF ResultInv, MemInv
<1>5. QED
  BY <1>1, <1>2, <1>3, <1>4 DEF IInv, CallInv

LEMMA StutterInv == IInv /\ UNCHANGED vars => IInv'
<1> SUFFICES ASSUME IInv, UNCHANGED vars
             PROVE  IInv'
  OBVIOUS
<1>1. UNCHANGED <<callVars, doneVars, connVars, closing, queue, batch, loop, inited>>
  BY DEF vars, loopVars, lifeVars
<1>2. Batches'
  BY <1>1 DEF IInv, CallInv, Batches
<1>3. QED
  BY <1>1, <1>2, LoopKept

LEMMA StepInv == IInv /\ [Next]_vars => IInv'
<1> SUFFICES ASSUME IInv, [Next]_vars
             PROVE  IInv'
  OBVIOUS
<1>1. CASE LoopThread
  BY <1>1, AsyncWakesStep, AsyncTakesStep, HandleNextStep, HandlePipeStep, LoopStopsStep,
     LoopEndsStep DEF LoopThread
<1>2. ASSUME NEW c \in Caller, Start(c) \/ Begin(c) \/ CallerRuns(c)
      PROVE  IInv'
  BY <1>2, StartStep, BeginStep, DispatchStep, PushStep, WakeUpStep, ReturnStep
     DEF CallerRuns
<1>3. CASE UNCHANGED vars
  BY <1>3, StutterInv
<1>4. QED
  BY <1>1, <1>2, <1>3 DEF Next

LEMMA AlwaysInv == Spec => []IInv
<1>1. Init => IInv
  BY InitInv
<1>2. IInv /\ [Next]_vars => IInv'
  BY StepInv
<1>3. QED
  BY <1>1, <1>2, PTL DEF Spec

(* A request that lives on its caller's stack is in exactly one of the     *)
(* bridge's queues or the pipe's lists while the caller waits for its      *)
(* semaphore, and in none once it is posted - for every number of threads, *)
(* whatever they call, and when the loop is stopped and started again      *)
(* between (_rtbioreqdispatch, _rtbasyncb, _rtbiocb).                      *)
THEOREM BridgeRequestOnce == Spec => []RequestOnce
<1>1. IInv => RequestOnce
  BY DEF IInv, CallInv
<1>2. QED
  BY <1>1, AlwaysInv, PTL

(* When no two threads receive on one side at once, a receive that         *)
(* returned has failed exactly when it took no packet.                     *)
THEOREM BridgeResultTrue ==
  ASSUME ~Overlaps
  PROVE  Spec => []ResultTrue
<1>1. IInv => ResultTrue
  BY DEF IInv, ResultInv
<1>2. QED
  BY <1>1, AlwaysInv, PTL

(* When threads close through the bridge, and no side that others are      *)
(* using, the loop thread carries out no request on a connection whose     *)
(* memory was given back, in whatever order it took the requests.          *)
THEOREM BridgeNoUseAfterFree ==
  ASSUME ~SharedClose
  PROVE  Spec => []NoUseAfterFree
<1>1. ASSUME IInv, loop = "pipe", conn = "freed"
      PROVE  FALSE
  <2>1. ClosingAlone /\ Connects /\ Inside /\ TypeOK /\ Unposted
    BY <1>1 DEF IInv, MemInv, CallInv
  <2>2. \A s \in Side : sideClosed[s]
    BY <1>1, <2>1 DEF Connects
  <2>3. \A c \in Caller : Active(c) /\ kind[c] \in {"receive", "send", "close"} => sem[c]
    BY <2>1, <2>2 DEF ClosingAlone, Uses, TypeOK, Calls
  <2>4. batch # <<>> /\ kind[Head(batch)] # "stop"
    BY <1>1, <2>1 DEF Inside
  <2>5. PICK c \in Caller : c = Head(batch)
    BY <1>1, <2>4, HeadFacts
  <2>6. Active(c) /\ ~sem[c] /\ kind[c] \in Kind /\ kind[c] # "stop"
    BY <1>1, <2>1, <2>4, <2>5, HeadFacts DEF Waiting, Active, TypeOK, Calls
  <2>7. kind[c] = "connect"
    BY <2>3, <2>6 DEF Kind
  <2>8. QED
    BY <1>1, <2>1, <2>6, <2>7 DEF Connects
<1>2. IInv => NoUseAfterFree
  BY <1>1 DEF NoUseAfterFree
<1>3. QED
  BY <1>2, AlwaysInv, PTL
=============================================================================
