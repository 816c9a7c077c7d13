--------------------------- MODULE RefPoolProofs ----------------------------
(***************************************************************************)
(* Proofs about RefPool for every set of objects, every expansion count,   *)
(* every nesting of on_free functions and every pool that stays smaller    *)
(* than the range of ref_pool_size.                                        *)
(***************************************************************************)
EXTENDS RefPool, FiniteSetTheorems, SequenceTheorems, TLAPS

(* Which calls may be on the stack: one loop of close at most, on top      *)
(* unless an on_free function it called runs; releases of different        *)
(* objects in different slots that nobody holds any more.                  *)
FrameOK(k) ==
  /\ stack[k].fn = "loop" => k = Len(stack)
  /\ stack[k].fn # "free" => closed
  /\ stack[k].fn # "loop" =>
       /\ stack[k].i \in Slot
       /\ stack[k].o \in Obj
       /\ hook[stack[k].o] \in {"running", "again"}
       /\ holds[stack[k].o] \in {NULL, stack[k].i}
       /\ \A j \in Slot : object[j] = stack[k].o => j = stack[k].i
  /\ stack[k].fn = "free" =>
       /\ holds[stack[k].o] = NULL
       /\ \A p \in Obj : holds[p] # stack[k].i

Apart(k, l) ==
  /\ stack[k].fn = "free" \/ stack[l].fn = "free"
  /\ stack[k].fn = "free" /\ stack[l].fn = "free" =>
       stack[k].i # stack[l].i /\ stack[k].o # stack[l].o

FramesOK ==
  /\ \A k \in DOMAIN stack : FrameOK(k)
  /\ \A k, l \in DOMAIN stack : k # l => Apart(k, l)

(* The calls that wait for o's on_free function. *)
Runs(fn, o) == \E k \in DOMAIN stack : stack[k].fn = fn /\ stack[k].o = o
Leaves(i, o) == \E k \in DOMAIN stack : stack[k].fn = "free" /\ stack[k].i = i /\ stack[k].o = o

(* A slot with an on_free function contains the object it was set for,     *)
(* which holds the slot or is just released from it; the function is yet   *)
(* to run, or runs and was called once by each of the two that may call    *)
(* it at most.                                                             *)
ArmedOK(i) ==
  onFree[i] =>
    /\ object[i] \in Obj
    /\ holds[object[i]] = i \/ Leaves(i, object[i])
    /\ hook[object[i]] \in {"armed", "stray", "running", "again"}
    /\ hook[object[i]] = "again" => Runs("close", object[i]) /\ Runs("free", object[i])

ObjectOK(o) ==
  /\ hook[o] = "unset" => holds[o] = NULL /\ \A i \in Slot : object[i] # o
  /\ \A i, j \in Slot : object[i] = o /\ object[j] = o => i = j
  /\ hook[o] = "running" => Runs("free", o) \/ Runs("close", o)
  /\ Runs("free", o) /\ Runs("close", o) => hook[o] = "again"
  /\ hook[o] = "running" /\ holds[o] # NULL => onFree[holds[o]]

(* What the loop of close has passed is no longer armed. *)
ClosingOK(k) ==
  /\ stack[k].fn = "loop" =>
       \A o \in Obj : hook[o] = "armed" => holds[o] >= stack[k].i
  /\ stack[k].fn = "close" =>
       \A o \in Obj : hook[o] = "armed" => holds[o] > stack[k].i

HooksOK ==
  /\ \A i \in Slot : ArmedOK(i)
  /\ \A o \in Obj : ObjectOK(o)
  /\ \A k \in DOMAIN stack : ClosingOK(k)

(* The inductive invariant. *)
IInv ==
  /\ TypeOK
  /\ size = cap
  /\ IndexDenotesObject
  /\ FreeChainExact
  /\ HookNotRunAgain
  /\ FramesOK
  /\ HooksOK

-----------------------------------------------------------------------------
(* The stack. *)

LEMMA StackFacts ==
  ASSUME TypeOK, stack # <<>>
  PROVE  /\ Len(stack) \in Nat \ {0} /\ DOMAIN stack = 1 .. Len(stack)
         /\ Len(stack) \in DOMAIN stack /\ Top \in Call
         /\ Pop \in Seq(Call) /\ DOMAIN Pop = 1 .. Len(stack) - 1
         /\ \A k \in DOMAIN Pop : Pop[k] = stack[k]
<1>1. stack \in Seq(Call) /\ Len(stack) \in Nat /\ DOMAIN stack = 1 .. Len(stack)
  BY LenProperties DEF TypeOK
<1>2. Len(stack) # 0
  BY <1>1, EmptySeq
<1>3. /\ Pop \in Seq(Call) /\ Len(Pop) = Len(stack) - 1
      /\ \A k \in 1 .. Len(stack) - 1 : Pop[k] = stack[k]
  BY <1>1, <1>2 DEF Pop
<1>4. Top \in Call
  BY <1>1, <1>2 DEF Top
<1>5. QED
  BY <1>1, <1>2, <1>3, <1>4, LenProperties

LEMMA PushFacts ==
  ASSUME TypeOK, NEW f \in Call
  PROVE  /\ Push(f) \in Seq(Call) /\ Len(Push(f)) = Len(stack) + 1 /\ Len(stack) \in Nat
         /\ DOMAIN stack = 1 .. Len(stack) /\ DOMAIN Push(f) = 1 .. Len(stack) + 1
         /\ \A k \in DOMAIN stack : Push(f)[k] = stack[k]
         /\ Push(f)[Len(stack) + 1] = f
<1>1. stack \in Seq(Call) /\ Len(stack) \in Nat /\ DOMAIN stack = 1 .. Len(stack)
  BY LenProperties DEF TypeOK
<1>2. QED
  BY <1>1, AppendProperties DEF Push

LEMMA TopBecomesFacts ==
  ASSUME TypeOK, stack # <<>>, NEW f \in Call
  PROVE  /\ TopBecomes(f) \in Seq(Call) /\ Len(TopBecomes(f)) = Len(stack)
         /\ DOMAIN TopBecomes(f) = DOMAIN stack
         /\ \A k \in DOMAIN stack : k # Len(stack) => TopBecomes(f)[k] = stack[k]
         /\ TopBecomes(f)[Len(stack)] = f
<1>1. stack \in Seq(Call) /\ Len(stack) \in DOMAIN stack
  BY StackFacts DEF TypeOK
<1>2. QED
  BY <1>1, ExceptSeq DEF TopBecomes

-----------------------------------------------------------------------------
(* The chain of free slots. *)

(* A held slot leaves room: the chain is strictly shorter than the pool,   *)
(* so a released slot still gets a rank of at most cap.                    *)
LEMMA ChainShorterThanPool ==
  ASSUME cap \in Nat, freeEntry \in Slot,
         NEW rank \in [Slot -> 0 .. cap], Chain(rank),
         NEW i \in Slot, rank[i] = 0
  PROVE  rank[freeEntry] + 1 <= cap
<1> DEFINE n == rank[freeEntry]
           g == [k \in 0 .. n |-> CHOOSE j \in Slot : rank[j] = k]
<1>1. n \in Nat
  OBVIOUS
<1>2. \A k \in 0 .. n : \E j \in Slot : rank[j] = k
  <2>1. freeEntry # NULL
    BY DEF Slot, NULL
  <2>2. \A k \in 1 .. n : \E j \in Slot : rank[j] = k
    BY <2>1 DEF Chain
  <2>3. QED
    BY <2>2, <1>1
<1>3. \A k \in 0 .. n : g[k] \in Slot /\ rank[g[k]] = k
  BY <1>2
<1>4. g \in [0 .. n -> Slot] /\ \A j, k \in 0 .. n : g[j] = g[k] => j = k
  BY <1>3
<1>5. g \in Injection(0 .. n, Slot)
  BY <1>4 DEF Injection, IsInjective
<1>6. IsFiniteSet(Slot) /\ Cardinality(Slot) = cap
  BY FS_Interval DEF Slot
<1>7. Cardinality(0 .. n) <= Cardinality(Slot)
  BY <1>5, <1>6, FS_Injection
<1>8. Cardinality(0 .. n) = n + 1
  BY FS_Interval, <1>1
<1>9. QED
  BY <1>6, <1>7, <1>8

(* Nothing about the chain changes. *)
LEMMA ChainKept ==
  ASSUME FreeChainExact, nextFree' = nextFree, freeEntry' = freeEntry, cap' = cap,
         \A i \in Slot : Taken(i)' <=> Taken(i)
  PROVE  FreeChainExact'
<1>1. PICK rank \in [Slot -> 0 .. cap] : Chain(rank)
  BY DEF FreeChainExact
<1>2. Slot' = Slot
  BY DEF Slot
<1>3. Chain(rank)'
  BY <1>1, <1>2 DEF Chain
<1>4. QED
  BY <1>1, <1>2, <1>3 DEF FreeChainExact

(* The slot at its head is taken. *)
LEMMA ChainTaken ==
  ASSUME TypeOK, FreeChainExact, NEW e \in Slot, freeEntry = e,
         freeEntry' = nextFree[e], nextFree' = nextFree, cap' = cap,
         \A i \in Slot : Taken(i)' <=> Taken(i) \/ i = e
  PROVE  FreeChainExact'
<1>0. PICK rank \in [Slot -> 0 .. cap] : Chain(rank)
  BY DEF FreeChainExact
<1>1. /\ e # NULL /\ rank[e] # 0 /\ Slot' = Slot
      /\ freeEntry' = nextFree[e] /\ nextFree' = nextFree /\ cap' = cap
  BY <1>0 DEF TypeOK, Chain, Slot, NULL
<1>2. \A i \in Slot : Taken(i)' <=> Taken(i) \/ i = e
  OBVIOUS
<1>3. QED
  <2>0. [rank EXCEPT ![e] = 0] \in [Slot -> 0 .. cap]
    <3>1. cap \in Nat
      BY DEF TypeOK
    <3>2. 0 \in 0 .. cap
      BY <3>1
    <3>3. QED
      BY <3>2
  <2>1. PICK r2 \in [Slot -> 0 .. cap] :
          r2[e] = 0 /\ \A i \in Slot \ {e} : r2[i] = rank[i]
    BY <2>0, <1>1
  <2>2. \A i \in Slot : r2[i] = 0 <=> Taken(i)'
    BY <2>1, <1>0, <1>1, <1>2 DEF Chain
  <2>3. \A i, j \in Slot : i # j /\ r2[i] # 0 => r2[i] # r2[j]
    BY <2>1, <1>0, <1>1 DEF Chain
  <2>4. ASSUME NEW i \in Slot, r2[i] # 0
        PROVE  IF nextFree[i] = NULL THEN r2[i] = 1
               ELSE r2[i] > 1 /\ r2[nextFree[i]] = r2[i] - 1
    <3>1. i # e /\ r2[i] = rank[i] /\ rank[i] <= rank[e]
      BY <2>1, <2>4, <1>0, <1>1 DEF Chain
    <3>2. IF nextFree[i] = NULL THEN rank[i] = 1
          ELSE rank[i] > 1 /\ rank[nextFree[i]] = rank[i] - 1
      BY <3>1, <2>4, <1>0 DEF Chain
    <3>3. nextFree[i] # NULL => nextFree[i] \in Slot /\ nextFree[i] # e
      BY <3>1, <3>2 DEF TypeOK
    <3>4. QED
      BY <2>1, <3>1, <3>2, <3>3
  <2>5. CASE nextFree[e] = NULL
    <3>1. rank[e] = 1
      BY <2>5, <1>0, <1>1 DEF Chain
    <3>2. \A i \in Slot : r2[i] = 0
      BY <2>1, <3>1, <1>0, <1>1 DEF Chain
    <3>3. Chain(r2)'
      BY <2>2, <2>3, <2>4, <2>5, <3>2, <1>1 DEF Chain
    <3>4. QED
      BY <2>1, <3>3, <1>1 DEF FreeChainExact
  <2>6. CASE nextFree[e] # NULL
    <3> DEFINE h == nextFree[e]
    <3>1. h \in Slot /\ h # e /\ rank[h] = rank[e] - 1 /\ rank[e] > 1
      BY <2>6, <1>0, <1>1 DEF Chain, TypeOK
    <3>2. \A i \in Slot : r2[i] <= r2[h]
      <4> SUFFICES ASSUME NEW i \in Slot PROVE r2[i] <= r2[h]
        OBVIOUS
      <4>1. CASE i = e
        BY <2>1, <4>1, <3>1
      <4>2. CASE i # e
        BY <2>1, <4>2, <3>1, <1>0, <1>1 DEF Chain
      <4>3. QED
        BY <4>1, <4>2
    <3>3. \A k \in 1 .. r2[h] : \E i \in Slot : r2[i] = k
      <4> SUFFICES ASSUME NEW k \in 1 .. r2[h] PROVE \E i \in Slot : r2[i] = k
        OBVIOUS
      <4>1. PICK i \in Slot : rank[i] = k
        BY <2>1, <3>1, <1>0, <1>1 DEF Chain
      <4>2. i # e
        BY <2>1, <4>1, <3>1
      <4>3. QED
        BY <2>1, <4>1, <4>2
    <3>4. freeEntry' = h /\ Slot' = Slot /\ nextFree' = nextFree /\ r2[h] # 0
      BY <2>1, <3>1, <1>1
    <3>5. Chain(r2)'
      BY <2>2, <2>3, <2>4, <2>6, <3>2, <3>3, <3>4 DEF Chain
    <3>6. QED
      BY <2>1, <3>5, <1>1 DEF FreeChainExact
  <2>7. QED
    BY <2>5, <2>6

(* A taken slot is released and becomes its head. *)
LEMMA ChainReleased ==
  ASSUME TypeOK, FreeChainExact, NEW s \in Slot, Taken(s), Chained(s),
         \A i \in Slot : Taken(i)' <=> Taken(i) /\ i # s
  PROVE  FreeChainExact'
<1>0. PICK rank \in [Slot -> 0 .. cap] : Chain(rank)
  BY DEF FreeChainExact
<1>1. /\ s # NULL /\ Slot' = Slot /\ cap' = cap
      /\ cap \in Nat /\ cap > 0 /\ NULL \notin Slot
  BY PoolAssumption DEF TypeOK, Chained, Slot, NULL
<1>2. \A i \in Slot : Taken(i)' <=> Taken(i) /\ i # s
  OBVIOUS
<1>3. rank[s] = 0
  BY <1>0, <1>1 DEF Chain
<1>4. nextFree' = [nextFree EXCEPT ![s] = freeEntry] /\ freeEntry' = s
  BY DEF Chained
<1>5. QED
  <2> DEFINE top == IF freeEntry = NULL THEN 1 ELSE rank[freeEntry] + 1
  <2>1. top \in 1 .. cap
    <3>1. CASE freeEntry = NULL
      BY <3>1, <1>1
    <3>2. CASE freeEntry # NULL
      <4>1. freeEntry \in Slot
        BY <3>2 DEF TypeOK
      <4>2. rank[freeEntry] + 1 <= cap
        BY <4>1, <1>0, <1>1, <1>3, ChainShorterThanPool
      <4>3. QED
        BY <3>2, <4>1, <4>2
    <3>3. QED
      BY <3>1, <3>2
  <2>2. [rank EXCEPT ![s] = top] \in [Slot -> 0 .. cap]
    <3> HIDE DEF top
    <3>1. top \in 0 .. cap
      BY <2>1, <1>1
    <3>2. QED
      BY <3>1
  <2>3. PICK r2 \in [Slot -> 0 .. cap] :
          r2[s] = top /\ \A i \in Slot \ {s} : r2[i] = rank[i]
    BY <2>2, <1>1
  <2>4. \A i \in Slot \ {s} : r2[i] < top
    BY <2>1, <2>3, <1>0, <1>1 DEF Chain, TypeOK
  <2>5. \A i \in Slot : r2[i] = 0 <=> Taken(i)'
    BY <2>1, <2>3, <1>0, <1>1, <1>2 DEF Chain
  <2>6. \A i, j \in Slot : i # j /\ r2[i] # 0 => r2[i] # r2[j]
    BY <2>1, <2>3, <2>4, <1>0 DEF Chain
  <2>7. ASSUME NEW i \in Slot, r2[i] # 0
        PROVE  IF nextFree'[i] = NULL THEN r2[i] = 1
               ELSE r2[i] > 1 /\ r2[nextFree'[i]] = r2[i] - 1
    <3>1. CASE i = s
      <4>1. nextFree'[s] = freeEntry
        BY <1>1, <1>4 DEF TypeOK
      <4>2. CASE freeEntry = NULL
        BY <3>1, <4>1, <4>2, <2>3
      <4>3. CASE freeEntry # NULL
        <5>1. freeEntry \in Slot /\ rank[freeEntry] # 0
          BY <4>3, <1>0 DEF Chain, TypeOK
        <5>2. r2[freeEntry] = rank[freeEntry] /\ rank[freeEntry] > 0
          BY <5>1, <2>3, <1>3
        <5>3. QED
          BY <3>1, <4>1, <4>3, <5>1, <5>2, <2>3
      <4>4. QED
        BY <4>2, <4>3
    <3>2. CASE i # s
      <4>1. nextFree'[i] = nextFree[i] /\ r2[i] = rank[i]
        BY <3>2, <1>4, <2>3 DEF TypeOK
      <4>2. IF nextFree[i] = NULL THEN rank[i] = 1
            ELSE rank[i] > 1 /\ rank[nextFree[i]] = rank[i] - 1
        BY <4>1, <2>7, <1>0 DEF Chain
      <4>3. nextFree[i] # NULL => nextFree[i] \in Slot /\ nextFree[i] # s
        BY <4>2, <1>3 DEF TypeOK
      <4>4. QED
        BY <4>1, <4>2, <4>3, <2>3
    <3>3. QED
      BY <3>1, <3>2
  <2>8. \A i \in Slot : r2[i] <= top
    BY <2>1, <2>3, <2>4
  <2>9. ASSUME NEW k \in 1 .. top PROVE \E i \in Slot : r2[i] = k
    <3>1. CASE k = top
      BY <3>1, <1>1, <2>3
    <3>2. CASE k # top
      <4>1. freeEntry # NULL /\ k \in 1 .. rank[freeEntry]
        BY <3>2, <2>9, <2>1 DEF TypeOK
      <4>2. PICK i \in Slot : rank[i] = k
        BY <4>1, <1>0 DEF Chain
      <4>3. i # s
        BY <4>1, <4>2, <1>3
      <4>4. QED
        BY <4>2, <4>3, <2>3
    <3>3. QED
      BY <3>1, <3>2
  <2>10. r2[freeEntry'] = top /\ top # 0 /\ freeEntry' # NULL
    BY <2>1, <2>3, <1>1, <1>4
  <2>11. Chain(r2)'
    BY <2>5, <2>6, <2>7, <2>8, <2>9, <2>10, <1>1 DEF Chain
  <2>12. QED
    BY <2>11, <1>1 DEF FreeChainExact

(* Every slot is taken, the pool grows and the first new one is taken. *)
LEMMA ChainGrown ==
  ASSUME TypeOK, size = cap, freeEntry = NULL, newCap <= MaxPool, cap' = newCap,
         nextFree' = expandedNext, freeEntry' = expandedNext[size],
         \A i \in Slot' : Taken(i)' <=> i <= cap
  PROVE  FreeChainExact'
<1>1. /\ cap \in Nat /\ newCap = cap + Expand /\ newCap \in Nat /\ newCap > cap
      /\ newCap <= MaxPool
  BY PoolAssumption DEF TypeOK, newCap
<1>2. \A i \in Slot' : Taken(i)' <=> i <= cap
  OBVIOUS
<1>3. cap' = newCap /\ Slot' = 0 .. newCap - 1 /\ cap \in Slot' /\ Slot = 0 .. cap - 1
  BY <1>1 DEF Slot
<1>4. /\ nextFree' = [i \in Slot' |-> IF i < cap THEN nextFree[i]
                                      ELSE IF i < newCap - 1 THEN i + 1 ELSE NULL]
      /\ freeEntry = NULL /\ freeEntry' = nextFree'[cap]
  BY <1>1, <1>3 DEF expandedNext
<1>9. NULL \notin Slot'
  BY <1>3 DEF NULL
<1>5. QED
  <2>0. [i \in Slot' |-> IF i <= cap THEN 0 ELSE newCap - i] \in [Slot' -> 0 .. newCap]
    BY <1>1, <1>3
  <2>1. PICK r2 \in [Slot' -> 0 .. newCap] :
          \A i \in Slot' : r2[i] = IF i <= cap THEN 0 ELSE newCap - i
    BY <2>0
  <2>2. \A i \in Slot' : r2[i] = 0 <=> i <= cap
    BY <2>1, <1>1, <1>3
  <2>3. \A i \in Slot' : r2[i] = 0 <=> Taken(i)'
    BY <2>2, <1>2
  <2>4. \A i, j \in Slot' : i # j /\ r2[i] # 0 => r2[i] # r2[j]
    BY <2>1, <1>1, <1>3
  <2>5. ASSUME NEW i \in Slot', r2[i] # 0
        PROVE  IF nextFree'[i] = NULL THEN r2[i] = 1
               ELSE r2[i] > 1 /\ r2[nextFree'[i]] = r2[i] - 1
    <3>1. i > cap /\ r2[i] = newCap - i
      BY <2>1, <2>2, <2>5, <1>1, <1>3
    <3>2. nextFree'[i] = IF i < newCap - 1 THEN i + 1 ELSE NULL
      BY <3>1, <1>1, <1>3, <1>4
    <3>3. CASE i < newCap - 1
      <4>1. i + 1 \in Slot' /\ nextFree'[i] = i + 1 /\ i + 1 # NULL
        BY <3>1, <3>2, <3>3, <1>1, <1>3, <1>9
      <4>2. r2[i + 1] = newCap - (i + 1)
        BY <4>1, <2>1, <3>1, <1>1, <1>3
      <4>3. QED
        BY <4>1, <4>2, <3>1, <3>3, <1>1, <1>3
    <3>4. CASE ~(i < newCap - 1)
      BY <3>1, <3>2, <3>4, <1>1, <1>3
    <3>5. QED
      BY <3>3, <3>4
  <2>6. freeEntry' = NULL => \A i \in Slot' : r2[i] = 0
    BY <2>2, <1>1, <1>3, <1>4, <1>9
  <2>7. ASSUME freeEntry' # NULL
        PROVE  /\ r2[freeEntry'] # 0
               /\ \A i \in Slot' : r2[i] <= r2[freeEntry']
               /\ \A k \in 1 .. r2[freeEntry'] : \E i \in Slot' : r2[i] = k
    <3>1. freeEntry' = cap + 1 /\ cap + 1 \in Slot'
      BY <2>7, <1>1, <1>3, <1>4
    <3>2. r2[cap + 1] = newCap - (cap + 1)
      BY <3>1, <2>1, <1>1
    <3>3. \A i \in Slot' : r2[i] <= r2[cap + 1]
      BY <3>1, <3>2, <2>1, <1>1, <1>3
    <3>4. ASSUME NEW k \in 1 .. r2[cap + 1] PROVE \E i \in Slot' : r2[i] = k
      <4>1. newCap - k \in Slot' /\ newCap - k > cap
        BY <3>2, <3>4, <1>1, <1>3
      <4>2. r2[newCap - k] = k
        BY <4>1, <2>1, <1>1, <3>4
      <4>3. QED
        BY <4>1, <4>2
    <3>5. r2[cap + 1] # 0
      BY <3>1, <3>2, <1>3, <1>1
    <3>6. QED
      BY <3>1, <3>3, <3>4, <3>5
  <2>8. Chain(r2)'
    BY <2>3, <2>4, <2>5, <2>6, <2>7 DEF Chain
  <2>9. QED
    BY <2>8, <1>3 DEF FreeChainExact

-----------------------------------------------------------------------------
(* The steps. *)

LEMMA InitInv == Init => IInv
<1> SUFFICES ASSUME Init PROVE IInv
  OBVIOUS
<1> USE PoolAssumption
<1>1. Slot = {} /\ stack = <<>> /\ DOMAIN stack = {} /\ stack \in Seq(Call)
  BY EmptySeq DEF Init, Slot
<1>2. TypeOK
  <2>1. size \in 0 .. SizeMod - 1 /\ cap \in 0 .. MaxPool
    BY DEF Init
  <2>2. holds \in [Obj -> Slot \cup {NULL}] /\ hook \in [Obj -> Abs!HookState]
    BY DEF Init, Abs!HookState, NULL
  <2>3. QED
    BY <1>1, <2>1, <2>2 DEF Init, TypeOK
<1>3. FreeChainExact
  <2>1. [i \in Slot |-> 0] \in [Slot -> 0 .. cap]
    BY <1>1
  <2>2. Chain([i \in Slot |-> 0])
    BY <1>1 DEF Chain, Init, NULL
  <2>3. QED
    BY <2>1, <2>2 DEF FreeChainExact
<1>4. size = cap /\ IndexDenotesObject /\ HookNotRunAgain
  BY <1>1 DEF Init, NULL, IndexDenotesObject, HookNotRunAgain
<1>5. FramesOK
  BY <1>1 DEF FramesOK
<1>6. HooksOK
  BY <1>1 DEF HooksOK, Init, ObjectOK, Runs
<1>7. QED
  BY <1>2, <1>3, <1>4, <1>5, <1>6 DEF IInv

(* An object that is new to the pool is nowhere in it. *)
LEMMA NewObject ==
  ASSUME IInv, NEW o \in Obj, hook[o] = "unset"
  PROVE  /\ holds[o] = NULL /\ \A i \in Slot : object[i] # o
         /\ \A k \in DOMAIN stack : stack[k].fn # "loop" => stack[k].o # o
<1>1. holds[o] = NULL /\ \A i \in Slot : object[i] # o
  BY DEF IInv, HooksOK, ObjectOK
<1>2. \A k \in DOMAIN stack : stack[k].fn # "loop" => stack[k].o # o
  BY DEF IInv, FramesOK, FrameOK
<1>3. QED
  BY <1>1, <1>2

(* What an allocation that puts o into slot e leaves of the calls and the  *)
(* hooks, the others staying what they are.                                *)
LEMMA OccupyKeeps ==
  ASSUME IInv, NEW o \in Obj, NEW e \in Slot', NEW h \in {"armed", "stray", "plain"},
         hook[o] = "unset", TypeOK', Slot \subseteq Slot',
         e \in Slot => ~Taken(e),
         stack' = stack, closed' = closed,
         holds' = [holds EXCEPT ![o] = e], hook' = [hook EXCEPT ![o] = h],
         h = "armed" => ~closed /\ onFree'[e], onFree'[e] => h \in {"armed", "stray"},
         object'[e] = o,
         \A i \in Slot : i # e => object'[i] = object[i] /\ onFree'[i] = onFree[i],
         \A i \in Slot' : i # e /\ i \notin Slot => object'[i] = NoObj /\ ~onFree'[i]
  PROVE  IndexDenotesObject' /\ HookNotRunAgain' /\ FramesOK' /\ HooksOK'
<1>1. /\ holds[o] = NULL /\ \A i \in Slot : object[i] # o
      /\ \A k \in DOMAIN stack : stack[k].fn # "loop" => stack[k].o # o
  BY NewObject
<1>2. /\ holds \in [Obj -> Slot \cup {NULL}] /\ hook \in [Obj -> Abs!HookState]
      /\ NULL \notin Slot /\ NULL \notin Slot' /\ e # NULL
  BY DEF IInv, TypeOK, Slot, NULL
<1>3. \A p \in Obj : holds[p] # e
  BY <1>2 DEF Taken
<1>4. /\ holds'[o] = e /\ hook'[o] = h
      /\ \A p \in Obj : p # o => holds'[p] = holds[p] /\ hook'[p] = hook[p]
  BY <1>2
<1>5. \A p \in Obj : p # o /\ holds[p] # NULL =>
        object'[holds[p]] = object[holds[p]] /\ onFree'[holds[p]] = onFree[holds[p]]
  BY <1>2, <1>3
<1>6. IndexDenotesObject'
  <2> SUFFICES ASSUME NEW p \in Obj, holds'[p] # NULL
               PROVE  /\ object'[holds'[p]] = p \/ (closed' /\ object'[holds'[p]] = NoObj)
                      /\ \A q \in Obj \ {p} : holds'[q] # holds'[p]
    BY DEF IndexDenotesObject
  <2>1. CASE p = o
    BY <2>1, <1>3, <1>4
  <2>2. CASE p # o
    BY <2>2, <1>3, <1>4, <1>5 DEF IInv, IndexDenotesObject
  <2>3. QED
    BY <2>1, <2>2
<1>7. HookNotRunAgain'
  <2> SUFFICES ASSUME NEW p \in Obj
               PROVE  /\ hook'[p] # "late"
                      /\ hook'[p] = "again" => closed
                      /\ hook'[p] = "armed" => holds'[p] # NULL /\ onFree'[holds'[p]]
    BY DEF HookNotRunAgain
  <2>1. CASE p = o
    BY <2>1, <1>2, <1>4
  <2>2. CASE p # o
    BY <2>2, <1>4, <1>5 DEF IInv, HookNotRunAgain
  <2>3. QED
    BY <2>1, <2>2
<1>8. FramesOK'
  <2>1. ASSUME NEW k \in DOMAIN stack PROVE FrameOK(k)'
    <3>1. FrameOK(k)
      BY DEF IInv, FramesOK
    <3>2. CASE stack[k].fn = "loop"
      BY <3>1, <3>2 DEF FrameOK
    <3>3. CASE stack[k].fn # "loop"
      <4>1. stack[k].fn = "free" => stack[k].i # e
        BY <3>1, <3>3, <1>1 DEF FrameOK, Taken, Leaving
      <4>2. stack[k].o # o /\ stack[k].i \in Slot' /\ stack[k].o \in Obj
        BY <3>1, <3>3, <1>1 DEF FrameOK
      <4>3. \A j \in Slot' : object'[j] = stack[k].o => j = stack[k].i
        <5> SUFFICES ASSUME NEW j \in Slot', object'[j] = stack[k].o PROVE j = stack[k].i
          OBVIOUS
        <5>1. j # e /\ j \in Slot
          BY <4>2, PoolAssumption
        <5>2. QED
          BY <5>1, <3>1, <3>3 DEF FrameOK
      <4>4. stack[k].fn = "free" => holds'[stack[k].o] = NULL /\ \A p \in Obj : holds'[p] # stack[k].i
        BY <4>1, <4>2, <3>1, <1>4 DEF FrameOK
      <4>5. QED
        BY <3>1, <3>3, <4>2, <4>3, <4>4, <1>4 DEF FrameOK
    <3>4. QED
      BY <3>2, <3>3
  <2>2. \A k, l \in DOMAIN stack : k # l => Apart(k, l)'
    BY DEF IInv, FramesOK, Apart
  <2>3. QED
    BY <2>1, <2>2 DEF FramesOK
<1>9. \A i \in Slot' : ArmedOK(i)'
  <2> SUFFICES ASSUME NEW i \in Slot' PROVE ArmedOK(i)'
    OBVIOUS
  <2>1. CASE i = e
    BY <2>1, <1>4 DEF ArmedOK
  <2>2. CASE i # e
    <3>1. CASE i \in Slot
      <4>1. onFree'[i] = onFree[i] /\ object'[i] = object[i] /\ object[i] # o
        BY <2>2, <3>1, <1>1
      <4>2. ArmedOK(i)
        BY <3>1 DEF IInv, HooksOK
      <4>3. QED
        BY <4>1, <4>2, <1>4 DEF ArmedOK, Leaves, Runs
    <3>2. CASE i \notin Slot
      BY <2>2, <3>2 DEF ArmedOK
    <3>3. QED
      BY <3>1, <3>2
  <2>3. QED
    BY <2>1, <2>2
<1>10. \A p \in Obj : ObjectOK(p)'
  <2> SUFFICES ASSUME NEW p \in Obj PROVE ObjectOK(p)'
    OBVIOUS
  <2>1. CASE p = o
    <3>1. \A i \in Slot' : object'[i] = o => i = e
      BY <1>1, PoolAssumption
    <3>2. ~Runs("free", o)'
      BY <1>1 DEF Runs
    <3>3. QED
      BY <2>1, <3>1, <3>2, <1>4 DEF ObjectOK
  <2>2. CASE p # o
    <3>1. \A i \in Slot' : object'[i] = p => i \in Slot /\ object[i] = p
      BY <2>2, PoolAssumption
    <3>2. ObjectOK(p)
      BY DEF IInv, HooksOK
    <3>3. QED
      BY <2>2, <3>1, <3>2, <1>4, <1>5 DEF ObjectOK, Runs
  <2>3. QED
    BY <2>1, <2>2
<1>11. \A k \in DOMAIN stack : ClosingOK(k)'
  <2> SUFFICES ASSUME NEW k \in DOMAIN stack PROVE ClosingOK(k)'
    OBVIOUS
  <2>1. ClosingOK(k) /\ (stack[k].fn # "free" => closed)
    BY DEF IInv, HooksOK, FramesOK, FrameOK
  <2>2. QED
    BY <2>1, <1>4 DEF ClosingOK
<1>12. QED
  BY <1>6, <1>7, <1>8, <1>9, <1>10, <1>11 DEF HooksOK

(* What an allocation arms: nothing a close had to run. *)
LEMMA ArmedNow ==
  \A armed \in BOOLEAN :
    LET h == IF armed THEN Abs!Armed ELSE "plain" IN
    /\ h \in {"armed", "stray", "plain"}
    /\ h = "armed" => ~closed /\ armed
    /\ armed => h \in {"armed", "stray"}
  BY DEF Abs!Armed, phase

(* Taking the slot at the head of the chain. *)
LEMMA AllocRefInv ==
  ASSUME IInv, NEW o \in Obj, NEW armed \in BOOLEAN, AllocRef(o, armed)
  PROVE  IInv'
<1> DEFINE e == freeEntry
           h == IF armed THEN Abs!Armed ELSE "plain"
<1>0. PICK rank \in [Slot -> 0 .. cap] : Chain(rank)
  BY DEF IInv, FreeChainExact
<1>1. e \in Slot /\ Slot' = Slot /\ ~Taken(e)
  BY <1>0 DEF IInv, TypeOK, AllocRef, Chain, Slot
<1>2. /\ nextFree' = nextFree /\ freeEntry' = nextFree[e] /\ cap' = cap /\ size' = size
      /\ object' = [object EXCEPT ![e] = o] /\ onFree' = [onFree EXCEPT ![e] = armed]
      /\ holds' = [holds EXCEPT ![o] = e] /\ closed' = closed /\ stack' = stack
      /\ hook' = [hook EXCEPT ![o] = h] /\ hook[o] = "unset"
  BY DEF AllocRef, Occupy
<1>3. /\ h \in {"armed", "stray", "plain"} /\ (h = "armed" => ~closed /\ armed)
      /\ (armed => h \in {"armed", "stray"})
  BY ArmedNow
<1>4. TypeOK'
  BY <1>1, <1>2, <1>3 DEF IInv, TypeOK, Abs!HookState
<1>5. \A i \in Slot : Taken(i)' <=> Taken(i) \/ i = e
  <2>1. holds[o] = NULL /\ holds \in [Obj -> Slot \cup {NULL}] /\ NULL \notin Slot
    BY <1>2, NewObject DEF IInv, TypeOK, Slot, NULL
  <2>2. ASSUME NEW i \in Slot PROVE Taken(i)' <=> Taken(i) \/ i = e
    <3>1. Leaving(i)' <=> Leaving(i)
      BY <1>2 DEF Leaving
    <3>2. (\E p \in Obj : holds'[p] = i) <=> (\E p \in Obj : holds[p] = i) \/ i = e
      BY <1>2, <2>1
    <3>3. QED
      BY <3>1, <3>2 DEF Taken
  <2>3. QED
    BY <2>2
<1>6. FreeChainExact'
  BY <1>1, <1>2, <1>5, ChainTaken DEF IInv
<1>7. /\ object'[e] = o /\ onFree'[e] = armed
      /\ \A i \in Slot : i # e => object'[i] = object[i] /\ onFree'[i] = onFree[i]
  BY <1>1, <1>2 DEF IInv, TypeOK
<1>8. IndexDenotesObject' /\ HookNotRunAgain' /\ FramesOK' /\ HooksOK'
  <2> HIDE DEF h, e
  <2>1. e \in Slot' /\ Slot \subseteq Slot' /\ \A i \in Slot' : i \in Slot
    BY <1>1
  <2>2. QED
    BY <1>1, <1>2, <1>3, <1>4, <1>7, <2>1, OccupyKeeps, ZenonT(30)
<1>9. QED
  BY <1>2, <1>4, <1>6, <1>8 DEF IInv

(* Growing the pool when every slot is held: the old slots keep their      *)
(* contents, the first new one is taken, the others become the chain.      *)
LEMMA AllocRefExpandInv ==
  ASSUME MaxPool < SizeMod, IInv, NEW o \in Obj, NEW armed \in BOOLEAN,
         AllocRefExpand(o, armed)
  PROVE  IInv'
<1> DEFINE h == IF armed THEN Abs!Armed ELSE "plain"
<1> USE PoolAssumption
<1>0. PICK rank \in [Slot -> 0 .. cap] : Chain(rank)
  BY DEF IInv, FreeChainExact
<1>1. cap \in Nat /\ size = cap /\ newCap = cap + Expand /\ newCap \in Nat
      /\ newCap > cap /\ newCap <= MaxPool
  BY DEF IInv, TypeOK, newCap, AllocRefExpand
<1>2. stack = <<>> /\ stack' = stack /\ DOMAIN stack = {} /\ freeEntry = NULL
  BY DEF AllocRefExpand, Occupy
<1>3. \A i \in Slot : Taken(i)
  BY <1>0, <1>2 DEF Chain
<1>4. /\ cap' = newCap /\ size' = newCap
      /\ Slot' = 0 .. newCap - 1 /\ cap \in Slot' /\ Slot \subseteq Slot' /\ cap \notin Slot
      /\ Slot = 0 .. cap - 1
  <2>1. newCap % SizeMod = newCap
    BY <1>1
  <2>2. QED
    BY <1>1, <2>1 DEF AllocRefExpand, Slot
<1>5. /\ nextFree' = [i \in Slot' |-> IF i < cap THEN nextFree[i]
                                      ELSE IF i < newCap - 1 THEN i + 1 ELSE NULL]
      /\ freeEntry' = nextFree'[cap] /\ freeEntry' = expandedNext[size]
      /\ nextFree' = expandedNext
  BY <1>1, <1>2, <1>4 DEF AllocRefExpand, expandedNext
<1>6. /\ object' \in [Slot' -> Obj \cup {NoObj}]
      /\ object'[cap] = o /\ \A i \in Slot : object'[i] = object[i]
      /\ \A i \in Slot' : i # cap /\ i \notin Slot => object'[i] = NoObj
  BY <1>1, <1>4 DEF AllocRefExpand, Occupy, expandedObject, IInv, TypeOK
<1>7. /\ onFree' \in [Slot' -> BOOLEAN]
      /\ onFree'[cap] = armed /\ \A i \in Slot : onFree'[i] = onFree[i]
      /\ \A i \in Slot' : i # cap /\ i \notin Slot => onFree'[i] = FALSE
  <2>1. onFree' = [expandedOnFree EXCEPT ![cap] = armed]
    BY <1>1 DEF AllocRefExpand, Occupy
  <2>2. \A i \in Slot : onFree[i] \in BOOLEAN
    BY DEF IInv, TypeOK
  <2>3. expandedOnFree = [i \in Slot' |-> IF i < size THEN onFree[i] ELSE FALSE]
    BY <1>4 DEF expandedOnFree
  <2>4. \A i \in Slot' : i < size <=> i \in Slot
    BY <1>1, <1>4
  <2>5. onFree' = [i \in Slot' |-> IF i = cap THEN armed ELSE expandedOnFree[i]]
    BY <2>1, <2>3, Zenon
  <2>6. \A i \in Slot' : onFree'[i] = IF i = cap THEN armed
                                    ELSE IF i \in Slot THEN onFree[i] ELSE FALSE
    BY <2>3, <2>4, <2>5, Zenon
  <2>7. onFree' \in [Slot' -> BOOLEAN]
    <3>1. \A i \in Slot' : onFree'[i] \in BOOLEAN
      BY <2>2, <2>6, Zenon
    <3>2. QED
      BY <2>5, <3>1, Zenon
  <2>8. QED
    BY <2>6, <2>7, <1>4, Zenon
<1>8. /\ holds' = [holds EXCEPT ![o] = cap] /\ closed' = closed
      /\ hook' = [hook EXCEPT ![o] = h] /\ hook[o] = "unset"
      /\ holds \in [Obj -> Slot \cup {NULL}] /\ hook \in [Obj -> Abs!HookState]
      /\ closed \in BOOLEAN
  BY <1>1 DEF AllocRefExpand, Occupy, IInv, TypeOK
<1>9. /\ h \in {"armed", "stray", "plain"} /\ (h = "armed" => ~closed /\ armed)
      /\ (armed => h \in {"armed", "stray"})
  BY ArmedNow
<1>10. TypeOK'
  <2>1. size' \in 0 .. SizeMod - 1 /\ cap' \in 0 .. MaxPool
    BY <1>1, <1>4
  <2>2. nextFree' \in [Slot' -> Slot' \cup {NULL}]
    <3>1. \A i \in Slot : nextFree[i] \in Slot \cup {NULL}
      BY DEF IInv, TypeOK
    <3>2. ASSUME NEW i \in Slot' PROVE nextFree'[i] \in Slot' \cup {NULL}
      BY <3>1, <3>2, <1>1, <1>4, <1>5
    <3>3. QED
      BY <3>2, <1>5
  <2>3. freeEntry' \in Slot' \cup {NULL}
    BY <2>2, <1>4, <1>5
  <2>4. holds' \in [Obj -> Slot' \cup {NULL}] /\ hook' \in [Obj -> Abs!HookState]
    <3>1. h \in Abs!HookState
      BY <1>9 DEF Abs!HookState
    <3> HIDE DEF h
    <3>2. QED
      BY <3>1, <1>4, <1>8
  <2>5. stack' \in Seq(Call)'
    BY <1>2 DEF IInv, TypeOK, Call
  <2>6. Abs!HookState' = Abs!HookState /\ closed' \in BOOLEAN
    BY <1>8 DEF Abs!HookState
  <2>7. QED
    BY <2>1, <2>2, <2>3, <2>4, <2>5, <2>6, <1>6, <1>7 DEF TypeOK
<1>11. FreeChainExact'
  <2>1. ASSUME NEW i \in Slot' PROVE Taken(i)' <=> i <= cap
    <3>1. ~Leaving(i)' /\ ~Leaving(i)
      BY <1>2 DEF Leaving
    <3>2. Taken(i)' <=> \E p \in Obj : holds'[p] = i
      BY <3>1 DEF Taken
    <3>3. CASE i = cap
      BY <3>2, <3>3, <1>1, <1>8
    <3>4. CASE i < cap
      <4>1. i \in Slot
        BY <3>4, <1>4
      <4>2. PICK p \in Obj : holds[p] = i
        BY <4>1, <3>1, <1>3 DEF Taken
      <4>3. p # o
        BY <4>1, <4>2, <1>8, <1>4, NewObject DEF NULL
      <4>4. QED
        <5>1. holds'[p] = i
          BY <4>2, <4>3, <1>8
        <5>2. QED
          BY <3>2, <3>4, <5>1, <1>1, <1>4
    <3>5. CASE i > cap
      <4>1. \A p \in Obj : holds'[p] # i
        <5>1. \A p \in Obj : holds[p] \in Slot \/ holds[p] = NULL
          BY <1>8
        <5>2. \A p \in Obj : holds'[p] = IF p = o THEN cap ELSE holds[p]
          BY <1>8
        <5>3. i \notin Slot /\ i # NULL /\ i # cap
          BY <3>5, <1>1, <1>4 DEF NULL
        <5>4. QED
          BY <5>1, <5>2, <5>3
      <4>2. QED
        BY <3>2, <3>5, <4>1, <1>1, <1>4
    <3>6. QED
      BY <3>3, <3>4, <3>5, <1>1, <1>4
  <2>2. TypeOK /\ newCap <= MaxPool /\ cap' = newCap
    BY <1>1, <1>4 DEF IInv
  <2>3. QED
    BY <2>1, <2>2, <1>1, <1>2, <1>5, ChainGrown
<1>12. IndexDenotesObject' /\ HookNotRunAgain' /\ FramesOK' /\ HooksOK'
  <2> HIDE DEF h
  <2>1. /\ cap \in Slot' /\ cap \notin Slot /\ Slot \subseteq Slot'
        /\ hook' = [hook EXCEPT ![o] = h] /\ holds' = [holds EXCEPT ![o] = cap]
    BY <1>4, <1>8
  <2>2. h = "armed" => ~closed /\ onFree'[cap]
    BY <1>7, <1>9
  <2>3. onFree'[cap] => h \in {"armed", "stray"}
    BY <1>7, <1>9
  <2>4. \A i \in Slot' : i # cap /\ i \notin Slot => object'[i] = NoObj /\ ~onFree'[i]
    BY <1>6, <1>7
  <2>5. \A i \in Slot : i # cap => object'[i] = object[i] /\ onFree'[i] = onFree[i]
    BY <1>6, <1>7
  <2>6. stack' = stack /\ closed' = closed /\ object'[cap] = o /\ hook[o] = "unset"
    BY <1>2, <1>6, <1>8
  <2>7. (cap \in Slot => ~Taken(cap)) /\ h \in {"armed", "stray", "plain"}
    BY <1>9, <2>1
  <2>8. QED
    BY ONLY IInv, o \in Obj, <1>10, <2>1, <2>2, <2>3, <2>4, <2>5, <2>6, <2>7, OccupyKeeps
<1>13. QED
  BY <1>4, <1>10, <1>11, <1>12 DEF IInv

-----------------------------------------------------------------------------
(* What pushing and popping do to the calls in progress. *)

Fns == {"free", "loop", "close"}

LEMMA PushRuns ==
  ASSUME TypeOK, NEW f \in Call, stack' = Push(f)
  PROVE  /\ \A fn \in Fns, o \in Obj : Runs(fn, o)' <=> Runs(fn, o) \/ (f.fn = fn /\ f.o = o)
         /\ \A i \in Nat, o \in Obj : Leaves(i, o) => Leaves(i, o)'
         /\ \A i \in Nat : Leaving(i)' <=> Leaving(i) \/ (f.fn = "free" /\ f.i = i)
<1>1. /\ Len(stack) \in Nat /\ DOMAIN stack = 1 .. Len(stack)
      /\ DOMAIN stack' = 1 .. Len(stack) + 1
      /\ \A k \in 1 .. Len(stack) : stack'[k] = stack[k]
      /\ stack'[Len(stack) + 1] = f
  BY PushFacts
<1>2. \A k \in 1 .. Len(stack) + 1 : k = Len(stack) + 1 \/ k \in 1 .. Len(stack)
  BY <1>1
<1>3. Len(stack) + 1 \in 1 .. Len(stack) + 1 /\ 1 .. Len(stack) \subseteq 1 .. Len(stack) + 1
  BY <1>1
<1>4. QED
  BY <1>1, <1>2, <1>3 DEF Runs, Leaves, Leaving

LEMMA PopRuns ==
  ASSUME TypeOK, stack # <<>>, stack' = Pop
  PROVE  /\ \A fn \in Fns, o \in Obj :
              Runs(fn, o) => Runs(fn, o)' \/ (Top.fn = fn /\ Top.o = o)
         /\ \A fn \in Fns, o \in Obj : Runs(fn, o)' => Runs(fn, o)
         /\ \A i \in Nat, o \in Obj :
              Leaves(i, o) => Leaves(i, o)' \/ (Top.fn = "free" /\ Top.i = i /\ Top.o = o)
         /\ \A i \in Nat : Leaving(i) => Leaving(i)' \/ (Top.fn = "free" /\ Top.i = i)
         /\ \A i \in Nat : Leaving(i)' => Leaving(i)
<1>0. Len(stack) \in Nat \ {0}
  BY StackFacts
<1>1. /\ Len(stack) \in Nat \ {0} /\ DOMAIN stack = 1 .. Len(stack)
      /\ DOMAIN stack' = 1 .. Len(stack) - 1
      /\ \A k \in 1 .. Len(stack) - 1 : stack'[k] = stack[k]
      /\ Top = stack[Len(stack)]
  BY StackFacts DEF Top
<1>2. \A k \in 1 .. Len(stack) : k = Len(stack) \/ k \in 1 .. Len(stack) - 1
  BY <1>0
<1>3. 1 .. Len(stack) - 1 \subseteq 1 .. Len(stack)
  BY <1>1
<1>4. QED
  BY <1>1, <1>2, <1>3 DEF Runs, Leaves, Leaving

LEMMA TopBecomesRuns ==
  ASSUME TypeOK, stack # <<>>, NEW f \in Call, stack' = TopBecomes(f)
  PROVE  /\ \A fn \in Fns, o \in Obj :
              Runs(fn, o) => Runs(fn, o)' \/ (Top.fn = fn /\ Top.o = o)
         /\ \A o \in Obj : f.o = o => Runs(f.fn, o)'
         /\ \A fn \in Fns, o \in Obj : Runs(fn, o)' => Runs(fn, o) \/ (f.fn = fn /\ f.o = o)
         /\ \A i \in Nat, o \in Obj :
              Leaves(i, o) => Leaves(i, o)' \/ (Top.fn = "free" /\ Top.i = i /\ Top.o = o)
         /\ Top.fn # "free" /\ f.fn # "free" => \A i \in Nat : Leaving(i)' <=> Leaving(i)
<1>0. Len(stack) \in Nat \ {0}
  BY StackFacts
<1>1. /\ Len(stack) \in Nat \ {0} /\ DOMAIN stack = 1 .. Len(stack)
      /\ DOMAIN stack' = 1 .. Len(stack)
      /\ \A k \in 1 .. Len(stack) : k # Len(stack) => stack'[k] = stack[k]
      /\ Top = stack[Len(stack)] /\ stack'[Len(stack)] = f
  BY StackFacts, TopBecomesFacts DEF Top
<1>2. Len(stack) \in 1 .. Len(stack)
  BY <1>0
<1>3. QED
  BY <1>1, <1>2 DEF Runs, Leaves, Leaving

-----------------------------------------------------------------------------
(* The on_free function in a slot somebody holds is its holder's; it is    *)
(* yet to run, or the loop of close runs it.                               *)
LEMMA HolderArmed ==
  ASSUME IInv, NEW o \in Obj, holds[o] # NULL, onFree[holds[o]]
  PROVE  /\ holds[o] \in Slot /\ object[holds[o]] = o
         /\ hook[o] \in {"armed", "stray", "running"}
         /\ hook[o] = "running" => Runs("close", o) /\ closed
         /\ Runs("close", o) => hook[o] = "running"
<1>1. holds[o] \in Slot /\ ArmedOK(holds[o]) /\ ObjectOK(o)
  BY DEF IInv, TypeOK, HooksOK
<1>2. object[holds[o]] = o
  BY <1>1, PoolAssumption DEF ArmedOK, IInv, IndexDenotesObject
<1>3. ~Runs("free", o)
  BY DEF Runs, IInv, FramesOK, FrameOK
<1>4. Runs("close", o) => closed
  BY DEF Runs, IInv, FramesOK, FrameOK
<1>5. Runs("close", o) => hook[o] \in {"running", "again"}
  BY DEF Runs, IInv, FramesOK, FrameOK
<1>6. QED
  BY <1>1, <1>2, <1>3, <1>4, <1>5 DEF ArmedOK, ObjectOK

(* A release that begins with the on_free function. *)
LEMMA FreeRefCallsInv ==
  ASSUME IInv, NEW o \in Obj, FreeRef(o), onFree[holds[o]]
  PROVE  IInv'
<1>0. PICK s : s = holds[o]
  OBVIOUS
<1> DEFINE f == Frame("free", s, o)
<1>1. /\ s \in Slot /\ s # NULL /\ s \in Nat /\ object[s] = o
      /\ hook[o] \in {"armed", "stray", "running"}
      /\ (hook[o] = "running" => Runs("close", o) /\ closed)
      /\ (Runs("close", o) => hook[o] = "running")
  BY <1>0, HolderArmed DEF FreeRef, Slot
<1>2. /\ stack' = Push(f) /\ closed' = closed /\ Slot' = Slot
      /\ size' = size /\ cap' = cap /\ nextFree' = nextFree /\ freeEntry' = freeEntry
      /\ object' = object /\ onFree' = onFree
      /\ holds' = [holds EXCEPT ![o] = NULL] /\ hook' = [hook EXCEPT ![o] = Abs!Fire(@)]
      /\ (stack # <<>> => Top.fn # "loop")
  BY <1>0 DEF FreeRef, Fires, slotVars, Slot, Calling
<1>3. f \in Call /\ f.fn = "free" /\ f.i = s /\ f.o = o
  BY <1>1, PoolAssumption DEF Frame, Call, IInv, TypeOK, Slot
<1>4. TypeOK /\ TypeOK'
  <2>1. stack' \in Seq(Call)' /\ Call' = Call
    BY <1>2, <1>3, PushFacts DEF IInv, Call
  <2>2. holds' \in [Obj -> Slot \cup {NULL}] /\ hook' \in [Obj -> Abs!HookState]
    BY <1>1, <1>2 DEF IInv, TypeOK, Abs!HookState, Abs!Fire
  <2>3. QED
    BY <1>2, <2>1, <2>2 DEF IInv, TypeOK, Abs!HookState
<1>5. /\ holds'[o] = NULL /\ \A p \in Obj : p # o => holds'[p] = holds[p]
      /\ \A p \in Obj : p # o => hook'[p] = hook[p] /\ holds[p] # s
      /\ hook'[o] = (IF hook[o] = "running" THEN "again" ELSE "running")
  BY <1>0, <1>1, <1>2 DEF IInv, TypeOK, IndexDenotesObject, Abs!Fire
<1>6. /\ Len(stack) \in Nat /\ DOMAIN stack = 1 .. Len(stack)
      /\ DOMAIN stack' = 1 .. Len(stack) + 1
      /\ \A k \in 1 .. Len(stack) : stack'[k] = stack[k]
      /\ stack'[Len(stack) + 1] = f /\ Len(stack') = Len(stack) + 1
  BY <1>2, <1>3, <1>4, PushFacts
<1> HIDE DEF f
<1>7. /\ \A fn \in Fns, p \in Obj : Runs(fn, p)' <=> Runs(fn, p) \/ ("free" = fn /\ o = p)
      /\ \A i \in Nat, p \in Obj : Leaves(i, p) => Leaves(i, p)'
      /\ \A i \in Nat : Leaving(i)' <=> Leaving(i) \/ s = i
      /\ Leaves(s, o)'
  <2>1. Len(stack) + 1 \in 1 .. Len(stack) + 1
    BY <1>6
  <2>2. Leaves(s, o)'
    BY <1>3, <1>6, <2>1 DEF Leaves
  <2>3. QED
    BY <1>2, <1>3, <1>4, <2>2, PushRuns
<1>8. IndexDenotesObject'
  BY <1>2, <1>5 DEF IInv, IndexDenotesObject
<1>9. HookNotRunAgain'
  <2> SUFFICES ASSUME NEW p \in Obj
               PROVE  /\ hook'[p] # "late"
                      /\ hook'[p] = "again" => closed
                      /\ hook'[p] = "armed" => holds'[p] # NULL /\ onFree'[holds'[p]]
    BY <1>2 DEF HookNotRunAgain
  <2>1. CASE p = o
    BY <2>1, <1>1, <1>5
  <2>2. CASE p # o
    BY <2>2, <1>2, <1>5 DEF IInv, HookNotRunAgain
  <2>3. QED
    BY <2>1, <2>2
<1>10. FreeChainExact'
  <2>1. ASSUME NEW i \in Slot PROVE Taken(i)' <=> Taken(i)
    <3>1. i \in Nat /\ i # NULL
      BY DEF Slot, NULL
    <3>2. QED
      BY <3>1, <1>0, <1>1, <1>5, <1>7 DEF Taken
  <2>2. QED
    BY <2>1, <1>2, ChainKept DEF IInv
<1>11. \A k \in 1 .. Len(stack) : FrameOK(k) /\ stack[k].fn # "loop"
  <2>1. \A k \in 1 .. Len(stack) : FrameOK(k)
    BY <1>6 DEF IInv, FramesOK
  <2>2. stack # <<>> => Len(stack) # 0
    BY <1>4, EmptySeq DEF TypeOK
  <2>3. \A k \in 1 .. Len(stack) : stack # <<>>
    BY <1>6
  <2>4. QED
    BY <2>1, <2>3, <1>2 DEF FrameOK, Top
<1>12. FramesOK'
  <2>1. ASSUME NEW k \in 1 .. Len(stack) PROVE FrameOK(k)'
    <3>1. FrameOK(k) /\ stack'[k] = stack[k] /\ stack[k].fn # "loop"
      BY <1>6, <1>11
    <3>2. hook'[stack[k].o] \in {"running", "again"} /\ holds'[stack[k].o] \in {NULL, stack[k].i}
      BY <3>1, <1>5 DEF FrameOK
    <3>3. stack[k].fn = "free" =>
            holds'[stack[k].o] = NULL /\ \A p \in Obj : holds'[p] # stack[k].i
      <4>1. stack[k].fn = "free" => stack[k].i # NULL
        BY <3>1 DEF FrameOK, Slot, NULL
      <4>2. QED
        BY <3>1, <4>1, <1>5 DEF FrameOK
    <3>4. QED
      BY <3>1, <3>2, <3>3, <1>2 DEF FrameOK
  <2>2. ASSUME NEW k, k = Len(stack) + 1 PROVE FrameOK(k)'
    <3>1. stack'[k] = f
      BY <2>2, <1>6
    <3>2. \A j \in Slot : object[j] = o => j = s
      BY <1>1 DEF IInv, HooksOK, ObjectOK
    <3>3. \A p \in Obj : holds'[p] # s
      BY <1>1, <1>5
    <3>4. QED
      BY <3>1, <3>2, <3>3, <1>1, <1>2, <1>3, <1>5 DEF FrameOK
  <2>3. ASSUME NEW k \in 1 .. Len(stack)
        PROVE  stack[k].fn = "free" => stack[k].i # s /\ stack[k].o # o
    BY <1>0, <1>1, <1>11 DEF FrameOK
  <2>4. ASSUME NEW k \in 1 .. Len(stack), NEW l \in 1 .. Len(stack), k # l
        PROVE  Apart(k, l)'
    <3>1. Apart(k, l)
      BY <2>4, <1>6 DEF IInv, FramesOK
    <3>2. QED
      BY <3>1, <1>6 DEF Apart
  <2>5. ASSUME NEW k \in 1 .. Len(stack), NEW l, l = Len(stack) + 1
        PROVE  Apart(k, l)' /\ Apart(l, k)'
    <3>1. stack'[k] = stack[k] /\ stack'[l] = f
      BY <2>5, <1>6
    <3>2. QED
      BY <3>1, <2>3, <1>3 DEF Apart
  <2>6. \A k \in DOMAIN stack' : k \in 1 .. Len(stack) \/ k = Len(stack) + 1
    BY <1>6
  <2>7. QED
    BY <2>1, <2>2, <2>4, <2>5, <2>6 DEF FramesOK
<1>13. \A i \in Slot : ArmedOK(i)'
  <2> SUFFICES ASSUME NEW i \in Slot PROVE ArmedOK(i)'
    OBVIOUS
  <2>1. ArmedOK(i) /\ i \in Nat
    BY DEF IInv, HooksOK, Slot
  <2>2. CASE i = s
    <3>1. object'[i] = o /\ hook'[o] \in {"running", "again"} /\ Leaves(i, o)'
      BY <2>2, <1>1, <1>2, <1>5, <1>7
    <3>2. hook'[o] = "again" => Runs("close", o)' /\ Runs("free", o)'
      BY <1>1, <1>5, <1>7 DEF Fns
    <3>3. QED
      BY <3>1, <3>2 DEF ArmedOK
  <2>3. CASE i # s
    <3>1. object'[i] = object[i] /\ object[i] # o /\ onFree'[i] = onFree[i]
      BY <2>3, <1>1, <1>2 DEF IInv, HooksOK, ObjectOK
    <3>2. QED
      BY <2>1, <3>1, <1>0, <1>5, <1>7 DEF ArmedOK, Fns
  <2>4. QED
    BY <2>2, <2>3
<1>14. \A p \in Obj : ObjectOK(p)'
  <2> SUFFICES ASSUME NEW p \in Obj PROVE ObjectOK(p)'
    OBVIOUS
  <2>1. ObjectOK(p)
    BY DEF IInv, HooksOK
  <2>2. CASE p = o
    BY <2>1, <2>2, <1>1, <1>2, <1>5, <1>7 DEF ObjectOK, Fns
  <2>3. CASE p # o
    BY <2>1, <2>3, <1>2, <1>5, <1>7 DEF ObjectOK, Fns
  <2>4. QED
    BY <2>2, <2>3
<1>15. \A k \in DOMAIN stack' : ClosingOK(k)'
  <2>1. ASSUME NEW k \in 1 .. Len(stack) PROVE ClosingOK(k)'
    <3>1. ClosingOK(k) /\ stack'[k] = stack[k]
      BY <1>6 DEF IInv, HooksOK
    <3>2. QED
      BY <3>1, <1>5 DEF ClosingOK
  <2>2. ASSUME NEW k, k = Len(stack) + 1 PROVE ClosingOK(k)'
    BY <2>2, <1>3, <1>6 DEF ClosingOK
  <2>3. QED
    BY <2>1, <2>2, <1>6
<1>16. QED
  BY <1>2, <1>4, <1>8, <1>9, <1>10, <1>12, <1>13, <1>14, <1>15 DEF IInv, HooksOK

(* A release of a slot without one. *)
LEMMA FreeRefPlainInv ==
  ASSUME IInv, NEW o \in Obj, FreeRef(o), ~onFree[holds[o]]
  PROVE  IInv'
<1> DEFINE s == holds[o]
<1>1. s \in Slot /\ s # NULL /\ NULL \notin Slot /\ TypeOK
  BY DEF FreeRef, IInv, TypeOK, Slot, NULL
<1>2. /\ Chained(s) /\ stack' = stack /\ closed' = closed /\ hook' = hook
      /\ holds' = [holds EXCEPT ![o] = NULL]
  BY DEF FreeRef
<1>3. /\ size' = size /\ cap' = cap /\ Slot' = Slot
      /\ onFree' = [onFree EXCEPT ![s] = FALSE] /\ object' = [object EXCEPT ![s] = NoObj]
      /\ nextFree' = [nextFree EXCEPT ![s] = freeEntry] /\ freeEntry' = s
  BY <1>2 DEF Chained, Slot
<1>4. TypeOK'
  BY <1>1, <1>2, <1>3 DEF TypeOK, Abs!HookState, Call
<1>5. /\ holds'[o] = NULL
      /\ \A p \in Obj : p # o => holds'[p] = holds[p] /\ holds[p] # s
      /\ \A i \in Slot : i # s => object'[i] = object[i] /\ onFree'[i] = onFree[i]
      /\ object'[s] = NoObj /\ ~onFree'[s]
  BY <1>1, <1>2, <1>3 DEF IInv, TypeOK, IndexDenotesObject
<1>6. hook[o] # "armed" /\ hook[o] # "running"
  BY <1>1 DEF IInv, HookNotRunAgain, HooksOK, ObjectOK
<1>7. ~Leaving(s)
  BY <1>1 DEF Leaving, IInv, FramesOK, FrameOK
<1>8. FreeChainExact'
  <2>1. ASSUME NEW i \in Slot PROVE Taken(i)' <=> Taken(i) /\ i # s
    <3>1. Leaving(i)' <=> Leaving(i)
      BY <1>2 DEF Leaving
    <3>2. QED
      BY <3>1, <1>1, <1>5, <1>7 DEF Taken
  <2>2. Taken(s)
    BY DEF Taken
  <2>3. QED
    BY <2>1, <2>2, <1>1, <1>2, ChainReleased DEF IInv
<1>9. IndexDenotesObject'
  BY <1>1, <1>2, <1>5 DEF IInv, TypeOK, IndexDenotesObject
<1>10. HookNotRunAgain'
  BY <1>1, <1>2, <1>5, <1>6 DEF IInv, TypeOK, HookNotRunAgain
<1>11. FramesOK'
  <2>1. ASSUME NEW k \in DOMAIN stack PROVE FrameOK(k)'
    <3>1. FrameOK(k)
      BY DEF IInv, FramesOK
    <3>2. CASE stack[k].fn = "loop"
      BY <3>1, <3>2, <1>2 DEF FrameOK
    <3>3. CASE stack[k].fn # "loop"
      <4>1. \A j \in Slot : object'[j] = stack[k].o => j = stack[k].i
        BY <3>1, <3>3, <1>5, PoolAssumption DEF FrameOK
      <4>2. stack[k].i # NULL /\ holds'[stack[k].o] \in {NULL, stack[k].i}
        BY <3>1, <3>3, <1>1, <1>5 DEF FrameOK
      <4>3. stack[k].fn = "free" =>
              holds'[stack[k].o] = NULL /\ \A p \in Obj : holds'[p] # stack[k].i
        BY <3>1, <4>2, <1>5 DEF FrameOK
      <4>4. QED
        BY <3>1, <3>3, <4>1, <4>2, <4>3, <1>2, <1>3 DEF FrameOK
    <3>4. QED
      BY <3>2, <3>3
  <2>2. \A k, l \in DOMAIN stack : k # l => Apart(k, l)'
    BY <1>2 DEF IInv, FramesOK, Apart
  <2>3. QED
    BY <2>1, <2>2, <1>2 DEF FramesOK
<1>12. \A i \in Slot : ArmedOK(i)'
  <2> SUFFICES ASSUME NEW i \in Slot PROVE ArmedOK(i)'
    OBVIOUS
  <2>1. CASE i = s
    BY <2>1, <1>5 DEF ArmedOK
  <2>2. CASE i # s
    <3>1. ArmedOK(i) /\ object'[i] = object[i] /\ onFree'[i] = onFree[i]
      BY <2>2, <1>5 DEF IInv, HooksOK
    <3>2. onFree[i] => holds[o] # i
      BY <2>2
    <3>3. QED
      BY <3>1, <3>2, <1>2, <1>5 DEF ArmedOK, Leaves, Runs
  <2>3. QED
    BY <2>1, <2>2
<1>13. \A p \in Obj : ObjectOK(p)'
  <2> SUFFICES ASSUME NEW p \in Obj PROVE ObjectOK(p)'
    OBVIOUS
  <2>1. ObjectOK(p)
    BY DEF IInv, HooksOK
  <2>2. \A i \in Slot : object'[i] = p => object[i] = p
    BY <1>5, PoolAssumption
  <2>3. holds'[p] # NULL => p # o /\ holds[p] \in Slot /\ onFree'[holds[p]] = onFree[holds[p]]
    BY <1>1, <1>5 DEF TypeOK
  <2>4. QED
    BY <2>1, <2>2, <2>3, <1>2, <1>3, <1>5 DEF ObjectOK, Runs
<1>14. \A k \in DOMAIN stack : ClosingOK(k)'
  <2> SUFFICES ASSUME NEW k \in DOMAIN stack PROVE ClosingOK(k)'
    OBVIOUS
  <2>1. ClosingOK(k)
    BY DEF IInv, HooksOK
  <2>2. QED
    BY <2>1, <1>2, <1>5, <1>6 DEF ClosingOK
<1>15. QED
  BY <1>2, <1>3, <1>4, <1>8, <1>9, <1>10, <1>11, <1>12, <1>13, <1>14 DEF IInv, HooksOK

-----------------------------------------------------------------------------
(* What is known of the call on top and of those below it. *)
LEMMA TopFacts ==
  ASSUME IInv, stack # <<>>
  PROVE  /\ Len(stack) \in Nat \ {0} /\ DOMAIN stack = 1 .. Len(stack)
         /\ Top = stack[Len(stack)] /\ Top \in Call
         /\ FrameOK(Len(stack)) /\ ClosingOK(Len(stack))
         /\ \A k \in 1 .. Len(stack) - 1 :
              /\ FrameOK(k) /\ stack[k].fn # "loop"
              /\ Apart(k, Len(stack)) /\ Apart(Len(stack), k)
              /\ Top.fn # "free" => stack[k].fn = "free"
         /\ Top.fn # "free" => closed
         /\ Top.fn = "loop" => \A o \in Obj : ~Runs("close", o)
         /\ Top.fn = "close" => \A o \in Obj : Runs("close", o) => o = Top.o
<1>0. TypeOK
  BY DEF IInv
<1>1. /\ Len(stack) \in Nat \ {0} /\ DOMAIN stack = 1 .. Len(stack)
      /\ Len(stack) \in DOMAIN stack /\ Top = stack[Len(stack)] /\ Top \in Call
  BY <1>0, StackFacts DEF Top
<1>2. FrameOK(Len(stack)) /\ ClosingOK(Len(stack))
  BY <1>1 DEF IInv, FramesOK, HooksOK
<1>3. ASSUME NEW k \in 1 .. Len(stack) - 1
      PROVE  /\ FrameOK(k) /\ stack[k].fn # "loop"
             /\ Apart(k, Len(stack)) /\ Apart(Len(stack), k)
             /\ Top.fn # "free" => stack[k].fn = "free"
  <2>0. Len(stack) \in Nat
    BY <1>1
  <2>1. k \in 1 .. Len(stack) /\ k \in DOMAIN stack /\ k # Len(stack)
    <3>1. k \in 1 .. Len(stack) /\ k # Len(stack)
      BY <2>0
    <3>2. QED
      BY <3>1, <1>1
  <2>2. FrameOK(k) /\ Apart(k, Len(stack)) /\ Apart(Len(stack), k)
    BY <1>1, <2>1 DEF IInv, FramesOK
  <2>3. QED
    BY <1>1, <2>1, <2>2 DEF FrameOK, Apart
<1>4. \A k \in DOMAIN stack : k = Len(stack) \/ k \in 1 .. Len(stack) - 1
  BY <1>1
<1>5. Top.fn # "free" => closed
  BY <1>1, <1>2 DEF FrameOK
<1>6. Top.fn # "free" => \A k \in DOMAIN stack : stack[k].fn = "close" => k = Len(stack)
  BY <1>3, <1>4
<1>7. QED
  BY <1>1, <1>2, <1>3, <1>5, <1>6 DEF Runs

(* The end of a release whose on_free function returned. *)
LEMMA FreeRefReturnsInv ==
  ASSUME IInv, FreeRefReturns
  PROVE  IInv'
<1>1. stack # <<>> /\ Top.fn = "free"
  BY DEF FreeRefReturns
<1>2. PICK s, q : s = Top.i /\ q = Top.o
  OBVIOUS
<1>3. /\ Len(stack) \in Nat \ {0} /\ DOMAIN stack = 1 .. Len(stack)
      /\ \A k \in 1 .. Len(stack) - 1 :
           /\ FrameOK(k) /\ stack[k].fn # "loop" /\ Apart(k, Len(stack))
  BY <1>1, TopFacts
<1>4. /\ s \in Slot /\ q \in Obj /\ hook[q] \in {"running", "again"} /\ holds[q] = NULL
      /\ \A p \in Obj : holds[p] # s
      /\ \A j \in Slot : object[j] = q => j = s
      /\ s \in Nat /\ TypeOK
  <2>1. /\ s \in Slot /\ q \in Obj /\ hook[q] \in {"running", "again"} /\ holds[q] = NULL
        /\ \A p \in Obj : holds[p] # s
        /\ \A j \in Slot : object[j] = q => j = s
    BY <1>1, <1>2, TopFacts DEF FrameOK
  <2>2. s \in Nat /\ TypeOK
    BY <2>1 DEF IInv, Slot
  <2>3. QED
    BY <2>1, <2>2
<1>5. \A k \in 1 .. Len(stack) - 1 : stack[k].fn = "free" => stack[k].i # s /\ stack[k].o # q
  BY <1>1, <1>2, TopFacts DEF Apart
<1>6. /\ Chained(s) /\ stack' = Pop /\ closed' = closed /\ holds' = holds
      /\ hook' = [hook EXCEPT ![q] = Abs!Return(@)]
  BY <1>2 DEF FreeRefReturns
<1>7. /\ size' = size /\ cap' = cap /\ Slot' = Slot
      /\ onFree' = [onFree EXCEPT ![s] = FALSE] /\ object' = [object EXCEPT ![s] = NoObj]
      /\ nextFree' = [nextFree EXCEPT ![s] = freeEntry] /\ freeEntry' = s
  BY <1>6 DEF Chained, Slot
<1>8. /\ DOMAIN stack' = 1 .. Len(stack) - 1 /\ stack' \in Seq(Call)
      /\ \A k \in 1 .. Len(stack) - 1 : stack'[k] = stack[k]
  BY <1>1, <1>4, <1>6, StackFacts
<1>9. TypeOK'
  <2>1. hook' \in [Obj -> Abs!HookState]
    BY <1>4, <1>6 DEF TypeOK, Abs!HookState, Abs!Return
  <2>2. QED
    BY <2>1, <1>4, <1>6, <1>7, <1>8 DEF TypeOK, Abs!HookState, Call
<1>10. /\ hook'[q] = (IF hook[q] = "running" THEN "fired" ELSE "again")
       /\ \A p \in Obj : p # q => hook'[p] = hook[p]
       /\ \A i \in Slot : i # s => object'[i] = object[i] /\ onFree'[i] = onFree[i]
       /\ object'[s] = NoObj /\ ~onFree'[s]
  BY <1>4, <1>6, <1>7 DEF TypeOK, Abs!Return
<1>11. /\ \A fn \in Fns, p \in Obj : p # q => (Runs(fn, p) => Runs(fn, p)')
       /\ \A fn \in Fns, p \in Obj : Runs(fn, p)' => Runs(fn, p)
       /\ \A i \in Nat, p \in Obj : p # q => (Leaves(i, p) => Leaves(i, p)')
  BY <1>1, <1>2, <1>4, <1>6, PopRuns
<1>12. FreeChainExact'
  <2>1. Leaving(s) /\ ~Leaving(s)'
    <3>1. Len(stack) \in DOMAIN stack
      BY <1>3
    <3>2. QED
      BY <3>1, <1>1, <1>2, <1>5, <1>8 DEF Leaving, Top
  <2>2. \A i \in Slot : i # s => (Leaving(i)' <=> Leaving(i))
    <3>1. \A i \in Nat : i # s => (Leaving(i)' <=> Leaving(i))
      BY <1>1, <1>2, <1>4, <1>6, PopRuns
    <3>2. QED
      BY <3>1 DEF Slot
  <2>3. \A i \in Slot : Taken(i)' <=> Taken(i) /\ i # s
    BY <2>1, <2>2, <1>4, <1>6 DEF Taken
  <2>4. Taken(s)
    BY <2>1 DEF Taken
  <2>5. QED
    BY <2>3, <2>4, <1>4, <1>6, ChainReleased DEF IInv
<1>13. IndexDenotesObject'
  BY <1>4, <1>6, <1>10 DEF IInv, TypeOK, IndexDenotesObject
<1>14. HookNotRunAgain'
  <2> SUFFICES ASSUME NEW p \in Obj
               PROVE  /\ hook'[p] # "late"
                      /\ hook'[p] = "again" => closed
                      /\ hook'[p] = "armed" => holds[p] # NULL /\ onFree'[holds[p]]
    BY <1>6 DEF HookNotRunAgain
  <2>1. CASE p = q
    BY <2>1, <1>4, <1>10 DEF IInv, HookNotRunAgain
  <2>2. CASE p # q
    <3>1. hook'[p] = hook[p] /\ (holds[p] # NULL => holds[p] \in Slot /\ holds[p] # s)
      BY <2>2, <1>4, <1>10 DEF TypeOK
    <3>2. holds[p] # NULL => onFree'[holds[p]] = onFree[holds[p]]
      BY <3>1, <1>10
    <3>3. QED
      BY <3>1, <3>2 DEF IInv, HookNotRunAgain
  <2>3. QED
    BY <2>1, <2>2
<1>15. FramesOK'
  <2>1. ASSUME NEW k \in 1 .. Len(stack) - 1 PROVE FrameOK(k)'
    <3>1. FrameOK(k) /\ stack'[k] = stack[k] /\ stack[k].fn # "loop"
      BY <1>3, <1>8
    <3>2. \A j \in Slot : object'[j] = stack[k].o => j = stack[k].i
      BY <3>1, <1>10, PoolAssumption DEF FrameOK
    <3>3. hook'[stack[k].o] \in {"running", "again"}
      <4>1. CASE stack[k].o = q
        <5>1. stack[k].fn = "close"
          <6>1. stack[k] \in Call
            BY <1>3, <1>4 DEF TypeOK
          <6>2. QED
            BY <4>1, <3>1, <1>5, <6>1 DEF Call
        <5>2. hook[q] = "again"
          BY <4>1, <5>1, <1>1, <1>2, <1>3, <1>4 DEF IInv, HooksOK, ObjectOK, Runs, Top
        <5>3. QED
          BY <4>1, <5>2, <1>10
      <4>2. CASE stack[k].o # q
        BY <4>2, <3>1, <1>10 DEF FrameOK
      <4>3. QED
        BY <4>1, <4>2
    <3>4. QED
      BY <3>1, <3>2, <3>3, <1>6, <1>7 DEF FrameOK
  <2>2. ASSUME NEW k \in 1 .. Len(stack) - 1, NEW l \in 1 .. Len(stack) - 1, k # l
        PROVE  Apart(k, l)'
    <3>1. k \in DOMAIN stack /\ l \in DOMAIN stack
      BY <1>3
    <3>2. Apart(k, l)
      BY <2>2, <3>1 DEF IInv, FramesOK
    <3>3. QED
      BY <3>2, <1>8 DEF Apart
  <2>3. QED
    BY <2>1, <2>2, <1>8 DEF FramesOK
<1>16. \A i \in Slot : ArmedOK(i)'
  <2> SUFFICES ASSUME NEW i \in Slot PROVE ArmedOK(i)'
    OBVIOUS
  <2>1. CASE i = s
    BY <2>1, <1>10 DEF ArmedOK
  <2>2. CASE i # s
    <3>1. ArmedOK(i) /\ object'[i] = object[i] /\ onFree'[i] = onFree[i] /\ object[i] # q
      BY <2>2, <1>4, <1>10 DEF IInv, HooksOK
    <3>2. i \in Nat
      BY DEF Slot
    <3>3. QED
      BY <3>1, <3>2, <1>6, <1>10, <1>11 DEF ArmedOK, Fns
  <2>3. QED
    BY <2>1, <2>2
<1>17. \A p \in Obj : ObjectOK(p)'
  <2> SUFFICES ASSUME NEW p \in Obj PROVE ObjectOK(p)'
    OBVIOUS
  <2>1. ObjectOK(p)
    BY DEF IInv, HooksOK
  <2>2. \A i \in Slot : object'[i] = p => object[i] = p
    BY <1>10, PoolAssumption
  <2>3. holds[p] # NULL => holds[p] \in Slot /\ onFree'[holds[p]] = onFree[holds[p]]
    BY <1>4, <1>10 DEF TypeOK
  <2>4. CASE p = q
    BY <2>1, <2>2, <2>4, <1>4, <1>6, <1>7, <1>10, <1>11 DEF ObjectOK, Fns
  <2>5. CASE p # q
    BY <2>1, <2>2, <2>3, <2>5, <1>6, <1>7, <1>10, <1>11 DEF ObjectOK, Fns
  <2>6. QED
    BY <2>4, <2>5
<1>18. \A k \in DOMAIN stack' : ClosingOK(k)'
  <2> SUFFICES ASSUME NEW k \in 1 .. Len(stack) - 1 PROVE ClosingOK(k)'
    BY <1>8
  <2>1. k \in DOMAIN stack
    BY <1>3
  <2>2. ClosingOK(k) /\ stack'[k] = stack[k]
    BY <2>1, <1>8 DEF IInv, HooksOK
  <2>3. \A p \in Obj : hook'[p] = "armed" => hook[p] = "armed"
    BY <1>4, <1>10
  <2>4. QED
    BY <2>2, <2>3, <1>6 DEF ClosingOK
<1>19. size' = cap'
  BY <1>7 DEF IInv
<1>20. QED
  BY <1>7, <1>9, <1>12, <1>13, <1>14, <1>15, <1>16, <1>17, <1>18, <1>19 DEF IInv, HooksOK

(* A close begins. *)
LEMMA CloseInv ==
  ASSUME IInv, Close
  PROVE  IInv'
<1> DEFINE f == Frame("loop", 0, NoObj)
<1>1. /\ ~closed /\ closed' = TRUE /\ stack' = Push(f)
      /\ size' = size /\ cap' = cap /\ nextFree' = nextFree /\ freeEntry' = freeEntry
      /\ object' = object /\ onFree' = onFree /\ holds' = holds /\ hook' = hook
      /\ Slot' = Slot
  BY DEF Close, slotVars, Slot
<1>2. f \in Call /\ f.fn = "loop" /\ f.i = 0 /\ f.o = NoObj
  BY PoolAssumption DEF Frame, Call
<1> HIDE DEF f
<1>3. TypeOK /\ NoObj \notin Obj
  BY PoolAssumption DEF IInv
<1>4. /\ Len(stack) \in Nat /\ DOMAIN stack = 1 .. Len(stack)
      /\ DOMAIN stack' = 1 .. Len(stack) + 1 /\ stack' \in Seq(Call)
      /\ \A k \in 1 .. Len(stack) : stack'[k] = stack[k]
      /\ stack'[Len(stack) + 1] = f /\ Len(stack') = Len(stack) + 1
  BY <1>1, <1>2, <1>3, PushFacts
<1>5. \A k \in DOMAIN stack' : k \in 1 .. Len(stack) \/ k = Len(stack) + 1
  BY <1>4
<1>6. TypeOK'
  BY <1>1, <1>3, <1>4 DEF TypeOK, Call, Abs!HookState
<1>7. /\ \A fn \in {"free", "close"}, p \in Obj : Runs(fn, p)' <=> Runs(fn, p)
      /\ \A i \in Nat, p \in Obj : Leaves(i, p) => Leaves(i, p)'
      /\ \A i \in Nat : Leaving(i)' <=> Leaving(i)
  BY <1>1, <1>2, <1>3, PushRuns DEF Fns
<1>8. FreeChainExact'
  <2>1. \A i \in Slot : Taken(i)' <=> Taken(i)
    BY <1>1, <1>7 DEF Taken, Slot
  <2>2. QED
    BY <2>1, <1>1, ChainKept DEF IInv
<1>9. IndexDenotesObject' /\ HookNotRunAgain'
  BY <1>1 DEF IInv, IndexDenotesObject, HookNotRunAgain
<1>10. \A k \in 1 .. Len(stack) : FrameOK(k) /\ stack[k].fn = "free"
  <2>1. \A k \in 1 .. Len(stack) : FrameOK(k)
    BY <1>4 DEF IInv, FramesOK
  <2>2. QED
    BY <2>1, <1>1 DEF FrameOK
<1>11. FramesOK'
  <2>1. ASSUME NEW k \in 1 .. Len(stack) PROVE FrameOK(k)'
    <3>1. stack'[k] = stack[k] /\ FrameOK(k) /\ stack[k].fn = "free"
      BY <1>4, <1>10
    <3>2. stack'[k].fn # "loop"
      BY <3>1
    <3>3. /\ Slot' = Slot /\ closed' = TRUE
          /\ object' = object /\ holds' = holds /\ hook' = hook
      BY <1>1
    <3>4. QED
      BY ONLY <3>1, <3>2, <3>3 DEF FrameOK, NULL
  <2>2. ASSUME NEW k, k = Len(stack) + 1 PROVE FrameOK(k)'
    BY <2>2, <1>1, <1>2, <1>4 DEF FrameOK
  <2>3. ASSUME NEW k \in 1 .. Len(stack), NEW l \in 1 .. Len(stack), k # l
        PROVE  Apart(k, l)'
    <3>1. Apart(k, l)
      BY <2>3, <1>4 DEF IInv, FramesOK
    <3>2. QED
      BY <3>1, <1>4 DEF Apart
  <2>4. ASSUME NEW k \in 1 .. Len(stack), NEW l, l = Len(stack) + 1
        PROVE  Apart(k, l)' /\ Apart(l, k)'
    BY <2>4, <1>2, <1>4, <1>10 DEF Apart
  <2>5. QED
    BY <2>1, <2>2, <2>3, <2>4, <1>5 DEF FramesOK
<1>12. \A i \in Slot : ArmedOK(i)'
  <2> SUFFICES ASSUME NEW i \in Slot PROVE ArmedOK(i)'
    OBVIOUS
  <2>1. ArmedOK(i) /\ i \in Nat
    BY DEF IInv, HooksOK, Slot
  <2>2. QED
    BY <2>1, <1>1, <1>7 DEF ArmedOK
<1>13. \A p \in Obj : ObjectOK(p)'
  BY <1>1, <1>7 DEF IInv, HooksOK, ObjectOK
<1>14. \A k \in DOMAIN stack' : ClosingOK(k)'
  <2>1. ASSUME NEW k \in 1 .. Len(stack) PROVE ClosingOK(k)'
    BY <1>4, <1>10 DEF ClosingOK
  <2>2. ASSUME NEW k, k = Len(stack) + 1 PROVE ClosingOK(k)'
    <3>1. \A p \in Obj : hook[p] = "armed" => holds[p] >= 0
      BY <1>3 DEF IInv, HookNotRunAgain, TypeOK, Slot
    <3>2. QED
      BY <2>2, <3>1, <1>1, <1>2, <1>4 DEF ClosingOK
  <2>3. QED
    BY <2>1, <2>2, <1>5
<1>15. QED
  BY <1>1, <1>6, <1>8, <1>9, <1>11, <1>12, <1>13, <1>14 DEF IInv, HooksOK

(* The loop is through. *)
LEMMA CloseLoopEndInv ==
  ASSUME IInv, CloseLoop, Top.i >= size
  PROVE  IInv'
<1>1. /\ stack # <<>> /\ Top.fn = "loop" /\ stack' = Pop
      /\ size' = size /\ cap' = cap /\ nextFree' = nextFree /\ freeEntry' = freeEntry
      /\ object' = object /\ onFree' = onFree /\ holds' = holds /\ hook' = hook
      /\ closed' = closed /\ Slot' = Slot /\ TypeOK
  BY DEF CloseLoop, Slot, IInv
<1>2. /\ DOMAIN stack = 1 .. Len(stack)
      /\ \A k \in 1 .. Len(stack) - 1 : FrameOK(k) /\ stack[k].fn = "free"
  BY <1>1, TopFacts
<1>3. /\ DOMAIN stack' = 1 .. Len(stack) - 1 /\ stack' \in Seq(Call)
      /\ \A k \in 1 .. Len(stack) - 1 : stack'[k] = stack[k]
      /\ Len(stack) \in Nat
  BY <1>1, StackFacts
<1>4. TypeOK'
  BY <1>1, <1>3 DEF TypeOK, Call, Abs!HookState
<1>5. /\ \A fn \in {"free", "close"}, p \in Obj : Runs(fn, p)' <=> Runs(fn, p)
      /\ \A i \in Nat, p \in Obj : Leaves(i, p) => Leaves(i, p)'
      /\ \A i \in Nat : Leaving(i)' <=> Leaving(i)
  BY <1>1, PopRuns DEF Fns
<1>6. FreeChainExact'
  <2>1. \A i \in Slot : Taken(i)' <=> Taken(i)
    BY <1>1, <1>5 DEF Taken, Slot
  <2>2. QED
    BY <2>1, <1>1, ChainKept DEF IInv
<1>7. IndexDenotesObject' /\ HookNotRunAgain'
  BY <1>1 DEF IInv, IndexDenotesObject, HookNotRunAgain
<1>8. FramesOK'
  <2>1. ASSUME NEW k \in 1 .. Len(stack) - 1 PROVE FrameOK(k)'
    BY <1>1, <1>2, <1>3, ZenonT(30) DEF FrameOK
  <2>2. ASSUME NEW k \in 1 .. Len(stack) - 1, NEW l \in 1 .. Len(stack) - 1, k # l
        PROVE  Apart(k, l)'
    <3>1. k \in DOMAIN stack /\ l \in DOMAIN stack
      BY <1>2, <1>3
    <3>2. Apart(k, l)
      BY <2>2, <3>1 DEF IInv, FramesOK
    <3>3. QED
      BY <3>2, <1>3 DEF Apart
  <2>3. QED
    BY <2>1, <2>2, <1>3 DEF FramesOK
<1>9. \A i \in Slot : ArmedOK(i)'
  <2> SUFFICES ASSUME NEW i \in Slot PROVE ArmedOK(i)'
    OBVIOUS
  <2>1. ArmedOK(i) /\ i \in Nat
    BY DEF IInv, HooksOK, Slot
  <2>2. QED
    BY <2>1, <1>1, <1>5 DEF ArmedOK
<1>10. \A p \in Obj : ObjectOK(p)'
  BY <1>1, <1>5 DEF IInv, HooksOK, ObjectOK
<1>11. \A k \in DOMAIN stack' : ClosingOK(k)'
  BY <1>2, <1>3 DEF ClosingOK
<1>12. QED
  BY <1>1, <1>4, <1>6, <1>7, <1>8, <1>9, <1>10, <1>11 DEF IInv, HooksOK

(* The loop passes a slot without an on_free function. *)
LEMMA CloseLoopPassInv ==
  ASSUME IInv, CloseLoop, Top.i < size, ~onFree[Top.i]
  PROVE  IInv'
<1>0. PICK s : s = Top.i
  OBVIOUS
<1> DEFINE f == Frame("loop", s + 1, NoObj)
<1>1. /\ stack # <<>> /\ Top.fn = "loop" /\ TypeOK /\ NoObj \notin Obj /\ closed
      /\ DOMAIN stack = 1 .. Len(stack) /\ Len(stack) \in Nat \ {0}
      /\ \A k \in 1 .. Len(stack) - 1 : FrameOK(k) /\ stack[k].fn = "free"
      /\ \A p \in Obj : hook[p] = "armed" => holds[p] >= s
      /\ s \in 0 .. MaxPool
  BY <1>0, TopFacts, PoolAssumption DEF CloseLoop, IInv, Call, ClosingOK
<1>2. s \in Slot /\ s + 1 \in 0 .. MaxPool /\ ~onFree[s]
  BY <1>0, <1>1, PoolAssumption DEF IInv, TypeOK, Slot
<1>3. ~(Top.i >= size)
  BY <1>0, <1>1 DEF IInv, TypeOK
<1>4. /\ stack' = TopBecomes(f)
      /\ size' = size /\ cap' = cap /\ nextFree' = nextFree /\ freeEntry' = freeEntry
      /\ object' = [object EXCEPT ![s] = NoObj] /\ onFree' = onFree
      /\ holds' = holds /\ hook' = hook /\ closed' = closed /\ Slot' = Slot
  BY <1>0, <1>3 DEF CloseLoop, Slot
<1>5. f \in Call /\ f.fn = "loop" /\ f.i = s + 1 /\ f.o = NoObj
  BY <1>2 DEF Frame, Call
<1> HIDE DEF f
<1>6. /\ DOMAIN stack' = 1 .. Len(stack) /\ stack' \in Seq(Call)
      /\ \A k \in 1 .. Len(stack) : k # Len(stack) => stack'[k] = stack[k]
      /\ stack'[Len(stack)] = f /\ Len(stack') = Len(stack)
  BY <1>1, <1>4, <1>5, TopBecomesFacts
<1>7. /\ \A i \in Slot : i # s => object'[i] = object[i]
      /\ object'[s] = NoObj
  BY <1>1, <1>2, <1>4 DEF TypeOK
<1>8. TypeOK'
  BY <1>1, <1>4, <1>6 DEF TypeOK, Call, Abs!HookState
<1>9. /\ \A fn \in {"free", "close"}, p \in Obj : Runs(fn, p)' <=> Runs(fn, p)
      /\ \A i \in Nat, p \in Obj : Leaves(i, p) => Leaves(i, p)'
      /\ \A i \in Nat : Leaving(i)' <=> Leaving(i)
  BY <1>1, <1>4, <1>5, TopBecomesRuns DEF Fns
<1>10. FreeChainExact'
  <2>1. \A i \in Slot : Taken(i)' <=> Taken(i)
    BY <1>4, <1>9 DEF Taken, Slot
  <2>2. QED
    BY <2>1, <1>4, ChainKept DEF IInv
<1>11. IndexDenotesObject' /\ HookNotRunAgain'
  BY <1>1, <1>4, <1>7 DEF IInv, TypeOK, IndexDenotesObject, HookNotRunAgain
<1>12. /\ \A k \in 1 .. Len(stack) : k = Len(stack) \/ k \in 1 .. Len(stack) - 1
       /\ \A k \in 1 .. Len(stack) - 1 : k \in 1 .. Len(stack) /\ k # Len(stack)
  <2>1. Len(stack) \in Nat \ {0}
    BY <1>1
  <2>2. QED
    BY <2>1
<1>13. FramesOK'
  <2>1. ASSUME NEW k \in 1 .. Len(stack) - 1 PROVE FrameOK(k)'
    <3>1. stack'[k] = stack[k] /\ FrameOK(k) /\ stack[k].fn = "free"
      BY <1>1, <1>6, <1>12
    <3>2. \A j \in Slot : object'[j] = stack[k].o => j = stack[k].i
      BY <3>1, <1>1, <1>7 DEF FrameOK
    <3>3. QED
      BY <3>1, <3>2, <1>4 DEF FrameOK
  <2>2. FrameOK(Len(stack))'
    BY <1>1, <1>4, <1>5, <1>6 DEF FrameOK
  <2>3. ASSUME NEW k \in 1 .. Len(stack) - 1, NEW l \in 1 .. Len(stack) - 1, k # l
        PROVE  Apart(k, l)'
    <3>1. Apart(k, l) /\ stack'[k] = stack[k] /\ stack'[l] = stack[l]
      BY <2>3, <1>1, <1>6, <1>12 DEF IInv, FramesOK
    <3>2. QED
      BY <3>1 DEF Apart
  <2>4. ASSUME NEW k \in 1 .. Len(stack) - 1
        PROVE  Apart(k, Len(stack))' /\ Apart(Len(stack), k)'
    BY <1>1, <1>5, <1>6, <1>12 DEF Apart
  <2>5. QED
    BY <2>1, <2>2, <2>3, <2>4, <1>6, <1>12 DEF FramesOK
<1>14. \A i \in Slot : ArmedOK(i)'
  <2> SUFFICES ASSUME NEW i \in Slot PROVE ArmedOK(i)'
    OBVIOUS
  <2>1. ArmedOK(i) /\ i \in Nat
    BY DEF IInv, HooksOK, Slot
  <2>2. CASE i = s
    BY <2>2, <1>2, <1>4 DEF ArmedOK
  <2>3. CASE i # s
    BY <2>1, <2>3, <1>4, <1>7, <1>9 DEF ArmedOK
  <2>4. QED
    BY <2>2, <2>3
<1>15. \A p \in Obj : ObjectOK(p)'
  <2> SUFFICES ASSUME NEW p \in Obj PROVE ObjectOK(p)'
    OBVIOUS
  <2>1. ObjectOK(p) /\ \A i \in Slot : object'[i] = p => object[i] = p
    BY <1>1, <1>7 DEF IInv, HooksOK
  <2>2. QED
    BY <2>1, <1>4, <1>9 DEF ObjectOK
<1>16. \A k \in DOMAIN stack' : ClosingOK(k)'
  <2>1. ASSUME NEW k \in 1 .. Len(stack) - 1 PROVE ClosingOK(k)'
    BY <1>1, <1>6, <1>12 DEF ClosingOK
  <2>2. ASSUME NEW p \in Obj, hook[p] = "armed" PROVE holds[p] >= s + 1
    <3>1. holds[p] # NULL /\ onFree[holds[p]]
      BY <2>2 DEF IInv, HookNotRunAgain
    <3>2. holds[p] \in Slot /\ holds[p] # s
      BY <3>1, <1>1, <1>2 DEF TypeOK
    <3>3. QED
      BY <3>2, <2>2, <1>1 DEF Slot
  <2>3. ClosingOK(Len(stack))'
    BY <2>2, <1>4, <1>5, <1>6 DEF ClosingOK
  <2>4. QED
    BY <2>1, <2>3, <1>6, <1>12
<1>17. QED
  BY <1>4, <1>8, <1>10, <1>11, <1>13, <1>14, <1>15, <1>16 DEF IInv, HooksOK

(* The loop calls the on_free function it finds. *)
LEMMA CloseLoopFireInv ==
  ASSUME IInv, CloseLoop, Top.i < size, onFree[Top.i]
  PROVE  IInv'
<1>0. PICK s, q : s = Top.i /\ q = object[s]
  OBVIOUS
<1> DEFINE f == Frame("close", s, q)
<1>1. /\ stack # <<>> /\ Top.fn = "loop" /\ TypeOK /\ NoObj \notin Obj /\ closed
      /\ DOMAIN stack = 1 .. Len(stack) /\ Len(stack) \in Nat \ {0}
      /\ \A k \in 1 .. Len(stack) - 1 : FrameOK(k) /\ stack[k].fn = "free"
      /\ \A p \in Obj : hook[p] = "armed" => holds[p] >= s
      /\ \A p \in Obj : ~Runs("close", p)
      /\ s \in 0 .. MaxPool
  BY <1>0, TopFacts, PoolAssumption DEF CloseLoop, IInv, Call, ClosingOK
<1>2. s \in Slot /\ onFree[s] /\ ~(Top.i >= size)
  BY <1>0, <1>1, PoolAssumption DEF IInv, TypeOK, Slot
<1>3. /\ q \in Obj /\ ArmedOK(s) /\ ObjectOK(q)
      /\ hook[q] \in {"armed", "stray", "running"}
      /\ (hook[q] = "running" => Runs("free", q))
      /\ \A j \in Slot : object[j] = q => j = s
  <2>1. ArmedOK(s) /\ q \in Obj
    BY <1>0, <1>2 DEF IInv, HooksOK, ArmedOK
  <2>2. ObjectOK(q)
    BY <2>1 DEF IInv, HooksOK
  <2>3. QED
    BY <2>1, <2>2, <1>0, <1>1, <1>2 DEF ArmedOK, ObjectOK
<1>4. Runs("free", q) => hook[q] = "running"
  BY <1>3 DEF IInv, FramesOK, FrameOK, Runs
<1>5. /\ stack' = TopBecomes(f)
      /\ size' = size /\ cap' = cap /\ nextFree' = nextFree /\ freeEntry' = freeEntry
      /\ object' = object /\ onFree' = onFree
      /\ holds' = holds /\ hook' = [hook EXCEPT ![q] = Abs!Fire(@)]
      /\ closed' = closed /\ Slot' = Slot
  BY <1>0, <1>2 DEF CloseLoop, Fires, Slot
<1>6. f \in Call /\ f.fn = "close" /\ f.i = s /\ f.o = q
  BY <1>1, <1>3 DEF Frame, Call
<1> HIDE DEF f
<1>7. /\ DOMAIN stack' = 1 .. Len(stack) /\ stack' \in Seq(Call)
      /\ \A k \in 1 .. Len(stack) : k # Len(stack) => stack'[k] = stack[k]
      /\ stack'[Len(stack)] = f /\ Len(stack') = Len(stack)
  BY <1>1, <1>5, <1>6, TopBecomesFacts
<1>8. /\ hook'[q] = (IF hook[q] = "running" THEN "again" ELSE "running")
      /\ \A p \in Obj : p # q => hook'[p] = hook[p]
  BY <1>1, <1>3, <1>5 DEF TypeOK, Abs!Fire
<1>9. TypeOK'
  <2>1. hook' \in [Obj -> Abs!HookState]
    BY <1>1, <1>3, <1>5 DEF TypeOK, Abs!HookState, Abs!Fire
  <2>2. QED
    BY <2>1, <1>1, <1>5, <1>7 DEF TypeOK, Call, Abs!HookState
<1>10. /\ \A fn \in {"free", "close"}, p \in Obj : Runs(fn, p) => Runs(fn, p)'
       /\ \A p \in Obj : Runs("free", p)' => Runs("free", p)
       /\ \A p \in Obj : p # q => ~Runs("close", p)'
       /\ Runs("close", q)'
       /\ \A i \in Nat, p \in Obj : Leaves(i, p) => Leaves(i, p)'
       /\ \A i \in Nat : Leaving(i)' <=> Leaving(i)
  BY <1>1, <1>3, <1>5, <1>6, TopBecomesRuns DEF Fns
<1>11. FreeChainExact'
  <2>1. \A i \in Slot : Taken(i)' <=> Taken(i)
    BY <1>5, <1>10 DEF Taken, Slot
  <2>2. QED
    BY <2>1, <1>5, ChainKept DEF IInv
<1>12. /\ \A k \in 1 .. Len(stack) : k = Len(stack) \/ k \in 1 .. Len(stack) - 1
       /\ \A k \in 1 .. Len(stack) - 1 : k \in 1 .. Len(stack) /\ k # Len(stack)
  <2>1. Len(stack) \in Nat \ {0}
    BY <1>1
  <2>2. QED
    BY <2>1
<1>13. IndexDenotesObject'
  BY <1>5 DEF IInv, IndexDenotesObject
<1>14. HookNotRunAgain'
  <2> SUFFICES ASSUME NEW p \in Obj
               PROVE  /\ hook'[p] # "late"
                      /\ hook'[p] = "again" => closed
                      /\ hook'[p] = "armed" => holds[p] # NULL /\ onFree[holds[p]]
    BY <1>5 DEF HookNotRunAgain
  <2>1. CASE p = q
    BY <2>1, <1>1, <1>8
  <2>2. CASE p # q
    BY <2>2, <1>8 DEF IInv, HookNotRunAgain
  <2>3. QED
    BY <2>1, <2>2
<1>15. holds[q] \in {NULL, s}
  <2>1. Leaves(s, q) => holds[q] = NULL
    BY DEF Leaves, IInv, FramesOK, FrameOK
  <2>2. QED
    BY <2>1, <1>0, <1>2, <1>3 DEF ArmedOK
<1>16. FramesOK'
  <2>1. ASSUME NEW k \in 1 .. Len(stack) - 1 PROVE FrameOK(k)'
    <3>1. stack'[k] = stack[k] /\ FrameOK(k) /\ stack[k].fn = "free"
      BY <1>1, <1>7, <1>12
    <3>2. hook'[stack[k].o] \in {"running", "again"}
      BY <3>1, <1>8 DEF FrameOK
    <3>3. QED
      BY <3>1, <3>2, <1>5 DEF FrameOK
  <2>2. FrameOK(Len(stack))'
    <3>1. stack'[Len(stack)].fn = "close" /\ stack'[Len(stack)].i = s
          /\ stack'[Len(stack)].o = q /\ Len(stack') = Len(stack)
      BY <1>6, <1>7
    <3>2. hook'[q] \in {"running", "again"} /\ holds'[q] \in {NULL, s} /\ closed'
      BY <1>1, <1>5, <1>8, <1>15
    <3>3. s \in Slot' /\ \A j \in Slot' : object'[j] = q => j = s
      BY <1>2, <1>3, <1>5
    <3>4. QED
      BY <3>1, <3>2, <3>3, <1>3 DEF FrameOK
  <2>3. ASSUME NEW k \in 1 .. Len(stack) - 1, NEW l \in 1 .. Len(stack) - 1, k # l
        PROVE  Apart(k, l)'
    <3>1. Apart(k, l) /\ stack'[k] = stack[k] /\ stack'[l] = stack[l]
      BY <2>3, <1>1, <1>7, <1>12 DEF IInv, FramesOK
    <3>2. QED
      BY <3>1 DEF Apart
  <2>4. ASSUME NEW k \in 1 .. Len(stack) - 1
        PROVE  Apart(k, Len(stack))' /\ Apart(Len(stack), k)'
    BY <1>1, <1>6, <1>7, <1>12 DEF Apart
  <2>5. QED
    BY <2>1, <2>2, <2>3, <2>4, <1>7, <1>12 DEF FramesOK
<1>17. \A i \in Slot : ArmedOK(i)'
  <2> SUFFICES ASSUME NEW i \in Slot, onFree[i] PROVE ArmedOK(i)'
    BY <1>5 DEF ArmedOK
  <2>1. ArmedOK(i) /\ i \in Nat
    BY DEF IInv, HooksOK, Slot
  <2>2. CASE object[i] = q
    <3>1. hook'[q] \in {"running", "again"} /\ (hook'[q] = "again" => Runs("free", q)')
      BY <1>3, <1>8, <1>10
    <3>2. QED
      BY <2>1, <2>2, <3>1, <1>5, <1>10 DEF ArmedOK
  <2>3. CASE object[i] # q
    BY <2>1, <2>3, <1>1, <1>5, <1>8, <1>10 DEF ArmedOK
  <2>4. QED
    BY <2>2, <2>3
<1>18. \A p \in Obj : ObjectOK(p)'
  <2> SUFFICES ASSUME NEW p \in Obj PROVE ObjectOK(p)'
    OBVIOUS
  <2>1. ObjectOK(p)
    BY DEF IInv, HooksOK
  <2>2. CASE p = q
    <3>1. hook'[p] \in {"running", "again"} /\ (Runs("free", p)' => hook'[p] = "again")
      BY <2>2, <1>4, <1>8, <1>10
    <3>2. holds[p] # NULL => onFree[holds[p]]
      BY <2>2, <1>2, <1>15
    <3>3. QED
      BY <2>1, <2>2, <3>1, <3>2, <1>5, <1>10 DEF ObjectOK
  <2>3. CASE p # q
    BY <2>1, <2>3, <1>1, <1>5, <1>8, <1>10 DEF ObjectOK
  <2>4. QED
    BY <2>2, <2>3
<1>19. \A k \in DOMAIN stack' : ClosingOK(k)'
  <2>1. ASSUME NEW k \in 1 .. Len(stack) - 1 PROVE ClosingOK(k)'
    BY <1>1, <1>7, <1>12 DEF ClosingOK
  <2>2. ASSUME NEW p \in Obj, hook'[p] = "armed" PROVE holds[p] > s
    <3>1. p # q /\ hook[p] = "armed"
      BY <2>2, <1>8
    <3>2. holds[p] # NULL /\ (object[holds[p]] = p \/ object[holds[p]] = NoObj)
      BY <3>1 DEF IInv, HookNotRunAgain, IndexDenotesObject
    <3>3. holds[p] \in Slot /\ holds[p] # s
      BY <3>1, <3>2, <1>0, <1>1, <1>3 DEF TypeOK
    <3>4. QED
      BY <3>1, <3>3, <1>1 DEF Slot
  <2>3. ClosingOK(Len(stack))'
    BY <2>2, <1>5, <1>6, <1>7 DEF ClosingOK
  <2>4. QED
    BY <2>1, <2>3, <1>7, <1>12
<1>20. QED
  BY <1>5, <1>9, <1>11, <1>13, <1>14, <1>16, <1>17, <1>18, <1>19 DEF IInv, HooksOK

LEMMA CloseLoopInv ==
  ASSUME IInv, CloseLoop
  PROVE  IInv'
<1>1. Top.i \in Nat /\ size \in Nat
  BY PoolAssumption, TopFacts DEF CloseLoop, IInv, TypeOK, Call
<1>2. QED
  BY <1>1, CloseLoopEndInv, CloseLoopPassInv, CloseLoopFireInv

(* The on_free function the loop called returns. *)
LEMMA CloseReturnsInv ==
  ASSUME IInv, CloseReturns
  PROVE  IInv'
<1>0. PICK s, q : s = Top.i /\ q = Top.o
  OBVIOUS
<1> DEFINE f == Frame("loop", s + 1, NoObj)
<1>1. /\ stack # <<>> /\ Top.fn = "close" /\ TypeOK /\ NoObj \notin Obj /\ closed
      /\ DOMAIN stack = 1 .. Len(stack) /\ Len(stack) \in Nat \ {0}
      /\ \A k \in 1 .. Len(stack) - 1 : FrameOK(k) /\ stack[k].fn = "free"
      /\ \A p \in Obj : hook[p] = "armed" => holds[p] > s
      /\ \A p \in Obj : Runs("close", p) => p = q
      /\ s \in Slot /\ q \in Obj /\ hook[q] \in {"running", "again"}
      /\ \A j \in Slot : object[j] = q => j = s
  BY <1>0, TopFacts, PoolAssumption DEF CloseReturns, IInv, ClosingOK, FrameOK
<1>2. s + 1 \in 0 .. MaxPool
  BY <1>1, PoolAssumption DEF IInv, TypeOK, Slot
<1>3. Runs("free", q) => hook[q] = "again"
  <2>1. Runs("close", q)
    BY <1>0, <1>1, TopFacts DEF Runs
  <2>2. QED
    BY <2>1, <1>1 DEF IInv, HooksOK, ObjectOK
<1>4. /\ stack' = TopBecomes(f)
      /\ size' = size /\ cap' = cap /\ nextFree' = nextFree /\ freeEntry' = freeEntry
      /\ object' = [object EXCEPT ![s] = NoObj] /\ onFree' = [onFree EXCEPT ![s] = FALSE]
      /\ holds' = holds /\ hook' = [hook EXCEPT ![q] = Abs!Return(@)]
      /\ closed' = closed /\ Slot' = Slot
  BY <1>0 DEF CloseReturns, Slot
<1>5. f \in Call /\ f.fn = "loop" /\ f.i = s + 1 /\ f.o = NoObj
  BY <1>2 DEF Frame, Call
<1> HIDE DEF f
<1>6. /\ DOMAIN stack' = 1 .. Len(stack) /\ stack' \in Seq(Call)
      /\ \A k \in 1 .. Len(stack) : k # Len(stack) => stack'[k] = stack[k]
      /\ stack'[Len(stack)] = f /\ Len(stack') = Len(stack)
  BY <1>1, <1>4, <1>5, TopBecomesFacts
<1>7. /\ \A i \in Slot : i # s => object'[i] = object[i] /\ onFree'[i] = onFree[i]
      /\ object'[s] = NoObj /\ ~onFree'[s]
      /\ hook'[q] = (IF hook[q] = "running" THEN "fired" ELSE "again")
      /\ \A p \in Obj : p # q => hook'[p] = hook[p]
  BY <1>1, <1>4 DEF TypeOK, Abs!Return
<1>8. TypeOK'
  <2>1. hook' \in [Obj -> Abs!HookState]
    BY <1>1, <1>4 DEF TypeOK, Abs!HookState, Abs!Return
  <2>2. QED
    BY <2>1, <1>1, <1>4, <1>6 DEF TypeOK, Call, Abs!HookState
<1>9. /\ \A p \in Obj : Runs("free", p) => Runs("free", p)'
      /\ \A fn \in {"free", "close"}, p \in Obj : Runs(fn, p)' => Runs(fn, p)
      /\ \A i \in Nat, p \in Obj : Leaves(i, p) => Leaves(i, p)'
      /\ \A i \in Nat : Leaving(i)' <=> Leaving(i)
  BY <1>1, <1>4, <1>5, TopBecomesRuns DEF Fns
<1>10. FreeChainExact'
  <2>1. \A i \in Slot : Taken(i)' <=> Taken(i)
    BY <1>4, <1>9 DEF Taken, Slot
  <2>2. QED
    BY <2>1, <1>4, ChainKept DEF IInv
<1>11. IndexDenotesObject'
  BY <1>1, <1>4, <1>7 DEF IInv, TypeOK, IndexDenotesObject
<1>12. /\ \A k \in 1 .. Len(stack) : k = Len(stack) \/ k \in 1 .. Len(stack) - 1
       /\ \A k \in 1 .. Len(stack) - 1 : k \in 1 .. Len(stack) /\ k # Len(stack)
  <2>1. Len(stack) \in Nat \ {0}
    BY <1>1
  <2>2. QED
    BY <2>1
<1>13. ASSUME NEW p \in Obj, hook'[p] = "armed"
       PROVE  p # q /\ holds[p] > s /\ holds[p] \in Slot /\ onFree[holds[p]]
  <2>1. p # q /\ hook[p] = "armed" /\ holds[p] > s
    BY <1>13, <1>1, <1>7
  <2>2. QED
    BY <2>1, <1>1 DEF IInv, HookNotRunAgain, TypeOK
<1>14. HookNotRunAgain'
  <2> SUFFICES ASSUME NEW p \in Obj
               PROVE  /\ hook'[p] # "late"
                      /\ hook'[p] = "armed" => holds[p] # NULL /\ onFree'[holds[p]]
    BY <1>1, <1>4 DEF HookNotRunAgain
  <2>1. hook'[p] # "late"
    BY <1>1, <1>7 DEF IInv, HookNotRunAgain
  <2>2. ASSUME hook'[p] = "armed" PROVE holds[p] # NULL /\ onFree'[holds[p]]
    <3>1. holds[p] > s /\ holds[p] \in Slot /\ onFree[holds[p]]
      BY <2>2, <1>13
    <3>2. holds[p] # s /\ holds[p] # NULL
      BY <3>1, <1>1 DEF Slot, NULL
    <3>3. QED
      BY <3>1, <3>2, <1>7
  <2>3. QED
    BY <2>1, <2>2
<1>15. FramesOK'
  <2>1. ASSUME NEW k \in 1 .. Len(stack) - 1 PROVE FrameOK(k)'
    <3>1. stack'[k] = stack[k] /\ FrameOK(k) /\ stack[k].fn = "free" /\ k \in DOMAIN stack
      BY <1>1, <1>6, <1>12
    <3>2. \A j \in Slot : object'[j] = stack[k].o => j = stack[k].i
      BY <3>1, <1>1, <1>7, ZenonT(30) DEF FrameOK
    <3>3. hook'[stack[k].o] \in {"running", "again"}
      <4>1. CASE stack[k].o = q
        <5>1. Runs("free", q)
          BY <4>1, <3>1 DEF Runs
        <5>2. QED
          BY <4>1, <5>1, <1>3, <1>7
      <4>2. CASE stack[k].o # q
        BY <4>2, <3>1, <1>7 DEF FrameOK
      <4>3. QED
        BY <4>1, <4>2
    <3>4. QED
      BY <3>1, <3>2, <3>3, <1>4 DEF FrameOK
  <2>2. FrameOK(Len(stack))'
    BY <1>1, <1>4, <1>5, <1>6 DEF FrameOK
  <2>3. ASSUME NEW k \in 1 .. Len(stack) - 1, NEW l \in 1 .. Len(stack) - 1, k # l
        PROVE  Apart(k, l)'
    <3>1. Apart(k, l) /\ stack'[k] = stack[k] /\ stack'[l] = stack[l]
      BY <2>3, <1>1, <1>6, <1>12 DEF IInv, FramesOK
    <3>2. QED
      BY <3>1 DEF Apart
  <2>4. ASSUME NEW k \in 1 .. Len(stack) - 1
        PROVE  Apart(k, Len(stack))' /\ Apart(Len(stack), k)'
    BY <1>1, <1>5, <1>6, <1>12 DEF Apart
  <2>5. QED
    BY <2>1, <2>2, <2>3, <2>4, <1>6, <1>12 DEF FramesOK
<1>16. \A i \in Slot : ArmedOK(i)'
  <2> SUFFICES ASSUME NEW i \in Slot, onFree'[i] PROVE ArmedOK(i)'
    BY <1>4 DEF ArmedOK
  <2>1. ArmedOK(i) /\ i \in Nat /\ i # s /\ onFree[i] /\ object'[i] = object[i]
    BY <1>7 DEF IInv, HooksOK, Slot
  <2>2. object[i] \in Obj /\ object[i] # q
    BY <2>1, <1>1 DEF ArmedOK
  <2>3. hook'[object[i]] = hook[object[i]] /\ ~Runs("close", object[i])
    BY <2>2, <1>1, <1>7
  <2>4. QED
    BY <2>1, <2>2, <2>3, <1>4, <1>9 DEF ArmedOK
<1>17. \A p \in Obj : ObjectOK(p)'
  <2> SUFFICES ASSUME NEW p \in Obj PROVE ObjectOK(p)'
    OBVIOUS
  <2>1. ObjectOK(p) /\ \A i \in Slot : object'[i] = p => object[i] = p
    BY <1>1, <1>7 DEF IInv, HooksOK
  <2>2. CASE p = q
    BY <2>1, <2>2, <1>1, <1>3, <1>4, <1>7, <1>9 DEF ObjectOK
  <2>3. CASE p # q
    <3>1. hook'[p] = hook[p] /\ ~Runs("close", p)
      BY <2>3, <1>1, <1>7
    <3>2. Runs("free", p) => holds[p] = NULL
      BY DEF IInv, FramesOK, FrameOK, Runs
    <3>3. QED
      BY <2>1, <3>1, <3>2, <1>4, <1>9 DEF ObjectOK
  <2>4. QED
    BY <2>2, <2>3
<1>18. \A k \in DOMAIN stack' : ClosingOK(k)'
  <2>1. ASSUME NEW k \in 1 .. Len(stack) - 1 PROVE ClosingOK(k)'
    BY <1>1, <1>6, <1>12 DEF ClosingOK
  <2>2. ASSUME NEW p \in Obj, hook'[p] = "armed" PROVE holds[p] >= s + 1
    BY <2>2, <1>1, <1>13 DEF Slot
  <2>3. ClosingOK(Len(stack))'
    BY <2>2, <1>4, <1>5, <1>6 DEF ClosingOK
  <2>4. QED
    BY <2>1, <2>3, <1>6, <1>12
<1>19. QED
  BY <1>4, <1>8, <1>10, <1>11, <1>14, <1>15, <1>16, <1>17, <1>18 DEF IInv, HooksOK

(* Every step preserves the invariant. *)
LEMMA StepInv ==
  ASSUME MaxPool < SizeMod, IInv, [Next]_vars
  PROVE  IInv'
<1>1. ASSUME NEW o \in Obj, NEW armed \in BOOLEAN, AllocRef(o, armed) PROVE IInv'
  BY <1>1, AllocRefInv
<1>2. ASSUME NEW o \in Obj, NEW armed \in BOOLEAN, AllocRefExpand(o, armed) PROVE IInv'
  BY <1>2, AllocRefExpandInv
<1>3. ASSUME NEW o \in Obj, FreeRef(o) PROVE IInv'
  BY <1>3, FreeRefCallsInv, FreeRefPlainInv
<1>4. CASE Close
  BY <1>4, CloseInv
<1>5. CASE CloseLoop
  BY <1>5, CloseLoopInv
<1>6. CASE CloseReturns
  BY <1>6, CloseReturnsInv
<1>7. CASE FreeRefReturns
  BY <1>7, FreeRefReturnsInv
<1>8. CASE UNCHANGED vars
  <2>1. /\ size' = size /\ cap' = cap /\ nextFree' = nextFree /\ freeEntry' = freeEntry
        /\ object' = object /\ onFree' = onFree /\ holds' = holds /\ hook' = hook
        /\ closed' = closed /\ stack' = stack /\ Slot' = Slot
    BY <1>8 DEF vars, slotVars, Slot
  <2>2. FreeChainExact'
    BY <2>1, ChainKept DEF IInv, Taken, Leaving
  <2>3. TypeOK' /\ IndexDenotesObject' /\ HookNotRunAgain'
    BY <2>1 DEF IInv, TypeOK, IndexDenotesObject, HookNotRunAgain, Call, Abs!HookState
  <2>4. FramesOK'
    BY <2>1 DEF IInv, FramesOK, FrameOK, Apart
  <2>5. HooksOK'
    BY <2>1 DEF IInv, HooksOK, ArmedOK, ObjectOK, ClosingOK, Runs, Leaves
  <2>6. QED
    BY <2>1, <2>2, <2>3, <2>4, <2>5 DEF IInv
<1>9. QED
  BY <1>1, <1>2, <1>3, <1>4, <1>5, <1>6, <1>7, <1>8 DEF Next

-----------------------------------------------------------------------------
(* While the 16 bits of ref_pool_size suffice, the pool is well formed.    *)
THEOREM PoolInvariant ==
  ASSUME MaxPool < SizeMod
  PROVE  Spec => []IInv
<1>1. Init => IInv
  BY InitInv
<1>2. IInv /\ [Next]_vars => IInv'
  BY StepInv
<1>3. QED
  BY <1>1, <1>2, PTL DEF Spec

(* Every variable keeps its type: no index leaves the block of slots.      *)
THEOREM PoolTypeOK ==
  ASSUME MaxPool < SizeMod
  PROVE  Spec => []TypeOK
<1>1. IInv => TypeOK
  BY DEF IInv
<1>2. QED
  BY <1>1, PoolInvariant, PTL

(* The index a holder was told denotes its object, and only its.           *)
THEOREM PoolIndexDenotesObject ==
  ASSUME MaxPool < SizeMod
  PROVE  Spec => []IndexDenotesObject
<1>1. IInv => IndexDenotesObject
  BY DEF IInv
<1>2. QED
  BY <1>1, PoolInvariant, PTL

(* The chain of free slots is exact: no slot is lost, none handed out      *)
(* twice.                                                                  *)
THEOREM PoolFreeChainExact ==
  ASSUME MaxPool < SizeMod
  PROVE  Spec => []FreeChainExact
<1>1. IInv => FreeChainExact
  BY DEF IInv
<1>2. QED
  BY <1>1, PoolInvariant, PTL

(* However releases and a close nest inside the on_free functions they     *)
(* call, none runs again once it returned, none a third time, and none     *)
(* twice on a context nobody closed.                                       *)
THEOREM PoolHookNotRunAgain ==
  ASSUME MaxPool < SizeMod
  PROVE  Spec => []HookNotRunAgain
<1>1. IInv => HookNotRunAgain
  BY DEF IInv
<1>2. QED
  BY <1>1, PoolInvariant, PTL

-----------------------------------------------------------------------------
(* The phase of the context, as the calls on the stack tell it.            *)
LEMMA PhaseFacts ==
  ASSUME IInv
  PROVE  /\ ~closed => phase = "open"
         /\ closed /\ (\E k \in DOMAIN stack : stack[k].fn # "free") => phase = "closing"
         /\ closed /\ (\A k \in DOMAIN stack : stack[k].fn = "free") => phase = "closed"
<1>1. \A k \in DOMAIN stack : stack[k].fn \in {"free", "loop", "close"}
  <2>1. stack \in Seq(Call) /\ DOMAIN stack = 1 .. Len(stack)
    BY LenProperties DEF IInv, TypeOK
  <2>2. \A k \in DOMAIN stack : stack[k] \in Call
    BY <2>1
  <2>3. QED
    BY <2>2 DEF Call
<1>2. QED
  BY <1>1 DEF phase

(* An allocation takes an index nobody holds.                              *)
LEMMA AllocRefines ==
  ASSUME IInv, IInv', NEW o \in Obj, NEW armed \in BOOLEAN,
         AllocRef(o, armed) \/ AllocRefExpand(o, armed)
  PROVE  Abs!Alloc(o)
<1> DEFINE i == holds'[o]
<1>1. /\ hook[o] = "unset" /\ phase' = phase
      /\ hook' = [hook EXCEPT ![o] = IF armed THEN Abs!Armed ELSE "plain"]
  BY DEF AllocRef, AllocRefExpand, Occupy, phase
<1>2. holds' = [holds EXCEPT ![o] = i] /\ i # NULL
  <2>1. CASE AllocRef(o, armed)
    BY <2>1 DEF AllocRef, Occupy, IInv, TypeOK
  <2>2. CASE AllocRefExpand(o, armed)
    BY <2>2 DEF AllocRefExpand, Occupy, IInv, TypeOK, Slot, NULL
  <2>3. QED
    BY <2>1, <2>2
<1>3. i \in 0 .. MaxPool - 1
  BY <1>2, PoolAssumption DEF IInv, TypeOK, Slot
<1>4. i \notin Abs!Held
  <2>1. holds[o] = NULL
    BY <1>1 DEF IInv, HooksOK, ObjectOK
  <2>2. \A p \in Obj \ {o} : holds'[p] # i
    BY <1>2 DEF IInv, IndexDenotesObject
  <2>3. \A p \in Obj \ {o} : holds[p] # i
    BY <2>2, <1>2 DEF IInv, TypeOK
  <2>4. QED
    BY <2>1, <2>3, <1>2 DEF Abs!Held
<1>5. QED
  BY <1>1, <1>2, <1>3, <1>4 DEF Abs!Alloc

(* A release takes the index back and runs what was armed with it.         *)
LEMMA FreeRefRefines ==
  ASSUME IInv, NEW o \in Obj, FreeRef(o)
  PROVE  Abs!Free(o)
<1>1. /\ holds[o] # NULL /\ holds' = [holds EXCEPT ![o] = NULL]
      /\ closed' = closed /\ TypeOK
  BY DEF FreeRef, IInv
<1>2. CASE onFree[holds[o]]
  <2>1. /\ hook[o] \in {"armed", "stray", "running"}
        /\ hook' = [hook EXCEPT ![o] = Abs!Fire(@)]
    BY <1>1, <1>2, HolderArmed DEF FreeRef, Fires
  <2>2. phase' = phase
    <3> DEFINE f == Frame("free", holds[o], o)
    <3>1. f \in Call /\ f.fn = "free" /\ stack' = Push(f)
      BY <1>1, <1>2, HolderArmed, PoolAssumption DEF FreeRef, Frame, Call, TypeOK, Slot
    <3> HIDE DEF f
    <3>2. /\ Len(stack) \in Nat /\ DOMAIN stack = 1 .. Len(stack)
          /\ DOMAIN stack' = 1 .. Len(stack) + 1
          /\ \A k \in 1 .. Len(stack) : stack'[k] = stack[k]
          /\ stack'[Len(stack) + 1] = f
      BY <1>1, <3>1, PushFacts
    <3>3. /\ \A k \in 1 .. Len(stack) + 1 : k = Len(stack) + 1 \/ k \in 1 .. Len(stack)
          /\ 1 .. Len(stack) \subseteq 1 .. Len(stack) + 1
      BY <3>2
    <3>4. QED
      BY <3>1, <3>2, <3>3, <1>1 DEF phase
  <2>3. QED
    BY <2>1, <2>2, <1>1 DEF Abs!Free, NULL, Abs!NULL
<1>3. CASE ~onFree[holds[o]]
  <2>1. hook' = hook /\ stack' = stack
    BY <1>3 DEF FreeRef
  <2>2. hook[o] \notin {"armed", "running"}
    BY <1>1, <1>3 DEF IInv, HookNotRunAgain, HooksOK, ObjectOK
  <2>3. QED
    BY <2>1, <2>2, <1>1 DEF Abs!Free, NULL, Abs!NULL, phase
<1>4. QED
  BY <1>2, <1>3

(* A return is the finaliser's, unless another call of it still runs.      *)
LEMMA ReturnsRefines ==
  ASSUME IInv, FreeRefReturns \/ CloseReturns
  PROVE  \/ Top.o \in Obj /\ Abs!Returns(Top.o)
         \/ UNCHANGED Abs!absVars
<1>1. PICK q : q = Top.o
  OBVIOUS
<1>2. /\ stack # <<>> /\ Top.fn \in {"free", "close"} /\ TypeOK
      /\ closed' = closed /\ holds' = holds
      /\ hook' = [hook EXCEPT ![q] = Abs!Return(@)]
  BY <1>1 DEF FreeRefReturns, CloseReturns, IInv
<1>3. q \in Obj /\ hook[q] \in {"running", "again"}
  BY <1>1, <1>2, TopFacts DEF FrameOK
<1>4. phase' = phase
  <2>1. /\ Len(stack) \in Nat \ {0} /\ DOMAIN stack = 1 .. Len(stack)
        /\ Top = stack[Len(stack)]
    BY <1>2, TopFacts
  <2>2. CASE FreeRefReturns
    <3>1. /\ DOMAIN stack' = 1 .. Len(stack) - 1 /\ Top.fn = "free"
          /\ \A k \in 1 .. Len(stack) - 1 : stack'[k] = stack[k]
      BY <2>2, <1>2, StackFacts DEF FreeRefReturns
    <3>2. Len(stack) \in Nat \ {0}
      BY <2>1
    <3>3. /\ \A k \in 1 .. Len(stack) : k = Len(stack) \/ k \in 1 .. Len(stack) - 1
          /\ 1 .. Len(stack) - 1 \subseteq 1 .. Len(stack)
      BY <3>2
    <3>4. QED
      BY <2>1, <3>1, <3>3, <1>2 DEF phase
  <2>3. CASE CloseReturns
    <3>1. stack' = TopBecomes(Frame("loop", Top.i + 1, NoObj)) /\ Top.fn = "close" /\ closed
      BY <2>3, <1>2, TopFacts DEF CloseReturns
    <3>2. Top.i + 1 \in 0 .. MaxPool
      <4>1. Top.i \in Slot
        BY <3>1, <1>2, TopFacts DEF FrameOK
      <4>2. QED
        BY <4>1, <1>2, PoolAssumption DEF TypeOK, Slot
    <3>3. Frame("loop", Top.i + 1, NoObj) \in Call
      BY <3>2 DEF Frame, Call
    <3>4. /\ DOMAIN stack' = DOMAIN stack
          /\ stack'[Len(stack)] = Frame("loop", Top.i + 1, NoObj)
      BY <3>1, <3>3, <1>2, TopBecomesFacts
    <3>5. Len(stack) \in DOMAIN stack /\ stack'[Len(stack)].fn = "loop"
      BY <2>1, <3>4 DEF Frame
    <3>6. QED
      BY <2>1, <3>1, <3>4, <3>5, <1>2 DEF phase
  <2>4. QED
    BY <2>2, <2>3
<1>5. CASE hook[q] = "running"
  BY <1>1, <1>2, <1>3, <1>4, <1>5 DEF Abs!Returns, Abs!Return
<1>6. CASE hook[q] = "again"
  <2>1. hook' = hook
    BY <1>2, <1>3, <1>6 DEF Abs!Return, TypeOK
  <2>2. QED
    BY <2>1, <1>2, <1>4 DEF Abs!absVars
<1>7. QED
  BY <1>3, <1>5, <1>6

LEMMA CloseRefines ==
  ASSUME IInv, Close
  PROVE  Abs!Close
<1> DEFINE f == Frame("loop", 0, NoObj)
<1>1. f \in Call /\ f.fn = "loop" /\ stack' = Push(f) /\ TypeOK
  BY PoolAssumption DEF Close, Frame, Call, IInv
<1> HIDE DEF f
<1>2. Len(stack) + 1 \in DOMAIN stack' /\ stack'[Len(stack) + 1] = f
  BY <1>1, PushFacts
<1>3. phase = "open" /\ phase' = "closing"
  BY <1>1, <1>2 DEF phase, Close
<1>4. QED
  BY <1>3 DEF Close, Abs!Close

(* The loop of close finalises, passes on, or ends with nothing armed.     *)
LEMMA CloseLoopRefines ==
  ASSUME IInv, IInv', CloseLoop
  PROVE  \/ Abs!Closed
         \/ \E q \in Obj : Abs!Finalise(q)
         \/ UNCHANGED Abs!absVars
<1>1. /\ stack # <<>> /\ Top.fn = "loop" /\ TypeOK /\ closed /\ closed' = closed
      /\ holds' = holds /\ Len(stack) \in Nat \ {0} /\ DOMAIN stack = 1 .. Len(stack)
      /\ \A k \in 1 .. Len(stack) - 1 : stack[k].fn = "free"
      /\ \A p \in Obj : hook[p] = "armed" => holds[p] >= Top.i
      /\ \A p \in Obj : ~Runs("close", p)
      /\ Top.i \in 0 .. MaxPool /\ Top = stack[Len(stack)]
  BY TopFacts DEF CloseLoop, IInv, Call, ClosingOK
<1>2. Len(stack) \in DOMAIN stack
  BY <1>1
<1>3. phase = "closing"
  BY <1>1, <1>2, PhaseFacts
<1>4. CASE Top.i >= size
  <2>1. hook' = hook /\ stack' = Pop
    BY <1>4 DEF CloseLoop
  <2>2. /\ DOMAIN stack' = 1 .. Len(stack) - 1
        /\ \A k \in 1 .. Len(stack) - 1 : stack'[k] = stack[k]
    BY <2>1, <1>1, StackFacts
  <2>3. phase' = "closed"
    BY <2>2, <1>1 DEF phase
  <2>4. \A p \in Obj : hook[p] # "armed"
    <3>1. \A p \in Obj : hook[p] = "armed" => holds[p] # NULL
      BY DEF IInv, HookNotRunAgain
    <3>2. QED
      BY <3>1, <1>1, <1>4 DEF TypeOK, IInv, Slot
  <2>5. QED
    BY <2>1, <2>3, <2>4, <1>1, <1>3 DEF Abs!Closed
<1>5. ASSUME NEW f \in Call, f.fn # "free", stack' = TopBecomes(f)
      PROVE  phase' = "closing"
  <2>1. DOMAIN stack' = DOMAIN stack /\ stack'[Len(stack)] = f
    BY <1>1, <1>5, TopBecomesFacts
  <2>2. QED
    BY <2>1, <1>1, <1>2, <1>5 DEF phase, Call
<1>6. CASE ~(Top.i >= size)
  <2>1. PICK s, q : s = Top.i /\ q = object[s]
    OBVIOUS
  <2>2. s \in Slot /\ s + 1 \in 0 .. MaxPool
    BY <2>1, <1>1, <1>6, PoolAssumption DEF IInv, TypeOK, Slot
  <2>3. CASE onFree[s]
    <3>1. /\ hook' = [hook EXCEPT ![q] = Abs!Fire(@)]
          /\ stack' = TopBecomes(Frame("close", s, q))
      BY <2>1, <2>3, <1>6 DEF CloseLoop, Fires
    <3>2. q \in Obj /\ hook[q] \in {"armed", "stray", "running"}
      BY <2>1, <2>2, <2>3, <1>1 DEF IInv, HooksOK, ArmedOK
    <3>3. Frame("close", s, q) \in Call /\ Frame("close", s, q).fn # "free"
      BY <3>2, <1>1, <2>1 DEF Frame, Call
    <3>4. phase' = "closing"
      BY <3>1, <3>3, <1>5
    <3>5. QED
      BY <3>1, <3>2, <3>4, <1>1, <1>3 DEF Abs!Finalise
  <2>4. CASE ~onFree[s]
    <3>1. hook' = hook /\ stack' = TopBecomes(Frame("loop", s + 1, NoObj))
      BY <2>1, <2>4, <1>6 DEF CloseLoop
    <3>2. Frame("loop", s + 1, NoObj) \in Call /\ Frame("loop", s + 1, NoObj).fn # "free"
      BY <2>2 DEF Frame, Call
    <3>3. phase' = "closing"
      BY <3>1, <3>2, <1>5
    <3>4. QED
      BY <3>1, <3>3, <1>1, <1>3 DEF Abs!absVars
  <2>5. QED
    BY <2>3, <2>4
<1>7. QED
  BY <1>4, <1>6

(* The pool with its chain of free slots implements the abstract one, that *)
(* hands out any index nobody holds: what ref users may rely on.           *)
THEOREM PoolRefinement ==
  ASSUME MaxPool < SizeMod
  PROVE  Spec => ImplementsRefSet
<1>1. Init => Abs!Init
  BY DEF Init, Abs!Init, phase, NULL, Abs!NULL
<1>2. IInv /\ IInv' /\ [Next]_vars => [Abs!Next]_Abs!absVars
  <2> SUFFICES ASSUME IInv, IInv', [Next]_vars
               PROVE  [Abs!Next]_Abs!absVars
    OBVIOUS
  <2>1. ASSUME NEW o \in Obj, NEW armed \in BOOLEAN,
               AllocRef(o, armed) \/ AllocRefExpand(o, armed)
        PROVE  Abs!Next
    BY <2>1, AllocRefines DEF Abs!Next
  <2>2. ASSUME NEW o \in Obj, FreeRef(o) PROVE Abs!Next
    BY <2>2, FreeRefRefines DEF Abs!Next
  <2>3. CASE Close
    BY <2>3, CloseRefines DEF Abs!Next
  <2>4. CASE CloseLoop
    BY <2>4, CloseLoopRefines DEF Abs!Next
  <2>5. CASE FreeRefReturns \/ CloseReturns
    BY <2>5, ReturnsRefines DEF Abs!Next
  <2>6. CASE UNCHANGED vars
    BY <2>6 DEF vars, Abs!absVars, phase
  <2>7. QED
    BY <2>1, <2>2, <2>3, <2>4, <2>5, <2>6 DEF Next
<1>3. QED
  BY <1>1, <1>2, PoolInvariant, PTL DEF Spec, ImplementsRefSet, Abs!Spec
=============================================================================
