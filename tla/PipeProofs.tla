----------------------------- MODULE PipeProofs ------------------------------
(***************************************************************************)
(* Proofs about a pipe connection (Pipe).  What runs on the thread's stack *)
(* is named by its height, the outermost call being at height 0: a step    *)
(* changes the calls from the topmost one on and no call below it.         *)
(***************************************************************************)
EXTENDS Pipe, SequenceTheorems, TLAPS

Height == 0 .. Len(stack) - 1
Call(h) == stack[Len(stack) - h]

Runs(fn) == \E h \in Height : Call(h).fn = fn
RunsOn(fn, s) == \E h \in Height : Call(h).fn = fn /\ Call(h).side = s

Msg == 1 .. MaxMsg

Pumping == {"pump1", "pump2"}
ClosingFn == {"closingRecv", "drain", "drained", "closingEnd"}

(* The types of the variables. *)
TypeOK ==
  /\ sideClosed \in [Side -> BOOLEAN] /\ recv \in [Side -> BOOLEAN]
  /\ freed \in BOOLEAN
  /\ sendq \in [Side -> Seq(1 .. MaxMsg)] /\ sent \in [Side -> 0 .. MaxMsg]
  /\ got \in [Side -> Seq(1 .. MaxMsg)] /\ done \in [Side -> [Msg -> Nat]]
  /\ stack \in Seq(Frame)

(* How the calls are nested: a close begins above every pump, and one that *)
(* reads the next field of a send is called by the loop over its list.     *)
Nested ==
  /\ \A g, h \in Height : Call(g).fn \in Pumping /\ Call(h).fn \in ClosingFn => g < h
  /\ \A h \in Height : Call(h).fn = "drained" =>
       h - 1 \in Height /\ Call(h - 1).fn = "drain" /\ Call(h - 1).side = Call(h).side
  /\ ~AnyClosed => \A h \in Height : Call(h).fn \notin ClosingFn

(* The lists hold the newest of the packets sent, and until a side closes  *)
(* these are the ones the other side has not received.                     *)
Queues ==
  /\ \A s \in Side :
       /\ Len(sendq[s]) <= sent[s]
       /\ \A k \in 1 .. Len(sendq[s]) : sendq[s][k] = sent[s] - Len(sendq[s]) + k
       /\ Len(got[Peer(s)]) <= sent[s] - Len(sendq[s])
  /\ ~AnyClosed => \A s \in Side : Len(got[Peer(s)]) = sent[s] - Len(sendq[s])

(* What a call that is still to come will do. *)
Pumped ==
  ~AnyClosed =>
    /\ recv["client"] /\ sendq["server"] # <<>> => Runs("pump1")
    /\ recv["server"] /\ sendq["client"] # <<>> => Runs("pump1") \/ Runs("pump2")

Closed ==
  AnyClosed =>
    \A s \in Side : /\ recv[s] => RunsOn("closingRecv", s)
                    /\ sendq[s] # <<>> => RunsOn("drain", s)

(* A packet that was taken is completed once, by the one call that is to  *)
(* come or that returned; another is completed by a close alone.           *)
Awaits(s, m) == \E h \in Height : Call(h) = Of("completed", s, m)

Counted ==
  /\ \A g, h \in Height : Call(g).fn = "completed" /\ Call(g) = Call(h) => g = h
  /\ \A s \in Side, m \in Msg :
       /\ Awaits(s, m) => m <= Len(got[Peer(s)])
       /\ m <= Len(got[Peer(s)]) => done[s][m] = IF Awaits(s, m) THEN 0 ELSE 1
       /\ m > Len(got[Peer(s)]) /\ (~AnyClosed \/ m > sent[s]) => done[s][m] = 0

OrderInv == Nested /\ Queues /\ Pumped /\ Closed /\ InOrder /\ Counted

(* The memory goes with the last side. *)
Released == /\ freed => AllClosed
            /\ AllClosed /\ ~freed => Runs("closingEnd")

(* A close never runs inside another: its loops are there once. *)
OneClosing ==
  \A g, h \in Height : /\ Call(g).fn = "drain" /\ Call(h).fn = "drain"
                       /\ Call(g).side = Call(h).side
                       => g = h

(* The sends a close completes are those that left the list, and the one   *)
(* that is about to.                                                       *)
Left(s) == sent[s] - Len(sendq[s]) + (IF RunsOn("drained", s) THEN 1 ELSE 0)
Reported ==
  \A s \in Side :
    /\ \A m \in Msg : m > Len(got[Peer(s)]) =>
                         done[s][m] = IF m <= Left(s) THEN 1 ELSE 0
    /\ \A h \in Height : Call(h).fn = "drained" /\ Call(h).side = s =>
         sendq[s] # <<>> /\ Call(h).msg = Head(sendq[s])

CloseInv == ~AllClosed \/ CallbackClose # "always" => OneClosing /\ Reported

IInv == TypeOK /\ OrderInv /\ Released /\ CloseInv


-----------------------------------------------------------------------------
(* What a step does to the stack. *)

(* The lowest b calls stay, and those of xs come on top of them. *)
Grown(b, xs) ==
  /\ stack' \in Seq(Frame)
  /\ Height' = 0 .. b + Len(xs) - 1
  /\ \A h \in 0 .. b - 1 : Call(h)' = Call(h)
  /\ \A h \in b .. b + Len(xs) - 1 : Call(h)' = xs[b + Len(xs) - h]

LEMMA FrameType == \A fn \in Fn, s \in Side : F(fn, s) \in Frame
  BY PipeAssumption DEF F, Of, Frame, PipeAssumption

LEMMA StackFacts ==
  ASSUME TypeOK
  PROVE  /\ stack \in Seq(Frame) /\ Len(stack) \in Nat
         /\ \A h \in Height : Call(h) \in Frame
         /\ stack # <<>> => /\ Len(stack) # 0 /\ Len(stack) - 1 \in Height
                            /\ Call(Len(stack) - 1) = Top /\ Top \in Frame
         /\ stack = <<>> => Len(stack) = 0
<1>1. stack \in Seq(Frame) /\ Len(stack) \in Nat /\ (Len(stack) = 0 <=> stack = <<>>)
  BY LenProperties, EmptySeq DEF TypeOK
<1>2. \A k \in 1 .. Len(stack) : stack[k] \in Frame
  BY <1>1, LenProperties
<1>3. \A h \in Height : Len(stack) - h \in 1 .. Len(stack)
  BY <1>1 DEF Height
<1>4. \A h \in Height : Call(h) \in Frame
  BY <1>2, <1>3 DEF Call
<1>5. stack # <<>> => /\ Len(stack) # 0 /\ Len(stack) - 1 \in Height
                      /\ Len(stack) - (Len(stack) - 1) = 1
  BY <1>1 DEF Height
<1>6. QED
  BY <1>1, <1>4, <1>5 DEF Call, Top

LEMMA OnTop ==
  ASSUME NEW q \in Seq(Frame), NEW xs \in Seq(Frame), stack' = xs \o q
  PROVE  /\ stack' \in Seq(Frame)
         /\ Height' = 0 .. Len(q) + Len(xs) - 1
         /\ \A h \in 0 .. Len(q) - 1 : Call(h)' = q[Len(q) - h]
         /\ \A h \in Len(q) .. Len(q) + Len(xs) - 1 : Call(h)' = xs[Len(q) + Len(xs) - h]
<1>1. /\ xs \o q \in Seq(Frame) /\ Len(xs \o q) = Len(xs) + Len(q)
      /\ \A i \in 1 .. Len(xs) + Len(q) :
           (xs \o q)[i] = IF i <= Len(xs) THEN xs[i] ELSE q[i - Len(xs)]
      /\ Len(xs) \in Nat /\ Len(q) \in Nat
  BY ConcatProperties, LenProperties
<1>2. \A h \in 0 .. Len(q) - 1 : Call(h)' = q[Len(q) - h]
  <2>1. ASSUME NEW h \in 0 .. Len(q) - 1
        PROVE  Call(h)' = q[Len(q) - h]
    <3>1. /\ Len(xs) + Len(q) - h \in 1 .. Len(xs) + Len(q)
          /\ ~(Len(xs) + Len(q) - h <= Len(xs))
          /\ Len(xs) + Len(q) - h - Len(xs) = Len(q) - h
      BY <1>1
    <3>2. QED
      BY <1>1, <3>1 DEF Call
  <2>2. QED
    BY <2>1
<1>3. \A h \in Len(q) .. Len(q) + Len(xs) - 1 : Call(h)' = xs[Len(q) + Len(xs) - h]
  <2>1. ASSUME NEW h \in Len(q) .. Len(q) + Len(xs) - 1
        PROVE  Call(h)' = xs[Len(q) + Len(xs) - h]
    <3>1. /\ Len(xs) + Len(q) - h \in 1 .. Len(xs) + Len(q)
          /\ Len(xs) + Len(q) - h <= Len(xs)
          /\ Len(xs) + Len(q) - h = Len(q) + Len(xs) - h
      BY <1>1
    <3>2. QED
      BY <1>1, <3>1 DEF Call
  <2>2. QED
    BY <2>1
<1>4. QED
  BY <1>1, <1>2, <1>3 DEF Height

LEMMA Pushed ==
  ASSUME TypeOK, NEW xs \in Seq(Frame), stack' = xs \o stack
  PROVE  Grown(Len(stack), xs)
<1>1. stack \in Seq(Frame)
  BY DEF TypeOK
<1>2. QED
  BY <1>1, OnTop DEF Grown, Call

LEMMA Replaced ==
  ASSUME TypeOK, stack # <<>>, NEW xs \in Seq(Frame), stack' = xs \o Pop
  PROVE  Grown(Len(stack) - 1, xs)
<1>1. /\ stack \in Seq(Frame) /\ Pop \in Seq(Frame) /\ Len(stack) \in Nat
      /\ Len(Pop) = Len(stack) - 1
      /\ \A i \in 1 .. Len(Pop) : Pop[i] = stack[i + 1]
  BY HeadTailProperties, LenProperties DEF TypeOK, Pop
<1>2. \A h \in 0 .. Len(Pop) - 1 : Pop[Len(Pop) - h] = Call(h)
  <2>1. ASSUME NEW h \in 0 .. Len(Pop) - 1
        PROVE  Pop[Len(Pop) - h] = Call(h)
    <3>1. Len(Pop) - h \in 1 .. Len(Pop) /\ Len(Pop) - h + 1 = Len(stack) - h
      BY <1>1
    <3>2. QED
      BY <1>1, <3>1 DEF Call
  <2>2. QED
    BY <2>1
<1>3. /\ stack' \in Seq(Frame)
      /\ Height' = 0 .. Len(Pop) + Len(xs) - 1
      /\ \A h \in 0 .. Len(Pop) - 1 : Call(h)' = Pop[Len(Pop) - h]
      /\ \A h \in Len(Pop) .. Len(Pop) + Len(xs) - 1 :
           Call(h)' = xs[Len(Pop) + Len(xs) - h]
  BY <1>1, OnTop
<1>4. QED
  BY <1>1, <1>2, <1>3 DEF Grown

LEMMA Returned ==
  ASSUME TypeOK, stack # <<>>, stack' = Pop
  PROVE  Grown(Len(stack) - 1, <<>>)
<1>1. Pop \in Seq(Frame)
  BY HeadTailProperties DEF TypeOK, Pop
<1>2. stack' = <<>> \o Pop /\ <<>> \in Seq(Frame)
  BY <1>1, ConcatEmptySeq
<1>3. QED
  BY <1>2, Replaced


-----------------------------------------------------------------------------
(* Steps that return to the user, or call a user back. *)

(* The calls below height b stay, and users' calls come on top of them. *)
OnlyUsers(b) ==
  /\ stack' \in Seq(Frame)
  /\ \A h \in Height : h < b => h \in Height' /\ Call(h)' = Call(h)
  /\ \A h \in Height' : \/ h < b /\ h \in Height /\ Call(h)' = Call(h)
                        \/ Call(h)'.fn = "user"

LEMMA UsersOnTop ==
  ASSUME TypeOK, NEW b \in Nat, b <= Len(stack), NEW xs \in Seq(Frame), Grown(b, xs),
         \A i \in 1 .. Len(xs) : xs[i].fn = "user"
  PROVE  OnlyUsers(b)
<1>1. Len(stack) \in Nat /\ Len(xs) \in Nat
  BY StackFacts, LenProperties
<1>2. Height = 0 .. Len(stack) - 1 /\ Height' = 0 .. b + Len(xs) - 1
  BY DEF Height, Grown
<1>3. \A h \in Height : h < b => h \in Height' /\ Call(h)' = Call(h)
  BY <1>1, <1>2 DEF Grown
<1>4. ASSUME NEW h \in Height'
      PROVE  \/ h < b /\ h \in Height /\ Call(h)' = Call(h)
             \/ Call(h)'.fn = "user"
  <2>1. CASE h < b
    BY <1>1, <1>2, <1>3, <2>1
  <2>2. CASE ~(h < b)
    <3>1. h \in b .. b + Len(xs) - 1 /\ b + Len(xs) - h \in 1 .. Len(xs)
      BY <1>1, <1>2, <2>2
    <3>2. QED
      BY <3>1 DEF Grown
  <2>3. QED
    BY <2>1, <2>2
<1>5. QED
  BY <1>3, <1>4 DEF OnlyUsers, Grown

LEMMA UsersNested ==
  ASSUME TypeOK, Nested, NEW b \in Nat, OnlyUsers(b), AnyClosed' <=> AnyClosed
  PROVE  Nested'
<1>1. \A h \in Height' : Call(h)'.fn \in Pumping \cup ClosingFn =>
        h < b /\ h \in Height /\ Call(h)' = Call(h)
  BY DEF OnlyUsers, Pumping, ClosingFn
<1>2. \A g, h \in Height' : Call(g)'.fn \in Pumping /\ Call(h)'.fn \in ClosingFn => g < h
  BY <1>1 DEF Nested
<1>3. ASSUME NEW h \in Height', Call(h)'.fn = "drained"
      PROVE  /\ h - 1 \in Height' /\ Call(h - 1)'.fn = "drain"
             /\ Call(h - 1)'.side = Call(h)'.side
  <2>1. h < b /\ h \in Height /\ Call(h)' = Call(h)
    BY <1>1, <1>3 DEF ClosingFn
  <2>2. /\ h - 1 \in Height /\ Call(h - 1).fn = "drain" /\ Call(h - 1).side = Call(h).side
    BY <1>3, <2>1 DEF Nested
  <2>3. h - 1 < b
    BY <2>1 DEF Height
  <2>4. h - 1 \in Height' /\ Call(h - 1)' = Call(h - 1)
    BY <2>2, <2>3 DEF OnlyUsers
  <2>5. QED
    BY <2>1, <2>2, <2>4
<1>4. ~AnyClosed' => \A h \in Height' : Call(h)'.fn \notin ClosingFn
  BY <1>1 DEF Nested
<1>5. QED
  BY <1>2, <1>3, <1>4 DEF Nested

LEMMA UsersOne ==
  ASSUME OneClosing, NEW b \in Nat, OnlyUsers(b)
  PROVE  OneClosing'
<1>1. \A h \in Height' : Call(h)'.fn = "drain" => h \in Height /\ Call(h)' = Call(h)
  BY DEF OnlyUsers
<1>2. QED
  BY <1>1 DEF OneClosing

(* The other calls are those there were, less the topmost if it is done. *)
LEMMA UsersRuns ==
  ASSUME TypeOK, NEW b \in Nat, OnlyUsers(b), b = Len(stack) \/ b = Len(stack) - 1,
         NEW fn \in Fn, fn # "user"
  PROVE  /\ Runs(fn)' => Runs(fn)
         /\ \A s \in Side : RunsOn(fn, s)' => RunsOn(fn, s)
         /\ Runs(fn) /\ (b = Len(stack) \/ Top.fn # fn) => Runs(fn)'
         /\ \A s \in Side :
              RunsOn(fn, s) /\ (b = Len(stack) \/ Top.fn # fn \/ Top.side # s) => RunsOn(fn, s)'
<1>1. \A h \in Height' : Call(h)'.fn = fn => h \in Height /\ Call(h)' = Call(h)
  BY DEF OnlyUsers
<1>2. /\ Runs(fn)' => Runs(fn)
      /\ \A s \in Side : RunsOn(fn, s)' => RunsOn(fn, s)
  BY <1>1 DEF Runs, RunsOn
<1>3. \A h \in Height : h < b \/ (b = Len(stack) - 1 /\ Call(h) = Top)
  <2>1. ASSUME NEW h \in Height
        PROVE  h < b \/ (b = Len(stack) - 1 /\ Call(h) = Top)
    <3>1. stack # <<>> /\ Len(stack) \in Nat
      BY StackFacts DEF Height
    <3>2. h < b \/ (b = Len(stack) - 1 /\ h = Len(stack) - 1)
      BY <3>1 DEF Height
    <3>3. QED
      BY <3>1, <3>2, StackFacts
  <2>2. QED
    BY <2>1
<1>4. Len(stack) # Len(stack) - 1
  BY StackFacts
<1>5. \A h \in Height : h < b => h \in Height' /\ Call(h)' = Call(h)
  BY DEF OnlyUsers
<1>6. Runs(fn) /\ (b = Len(stack) \/ Top.fn # fn) => Runs(fn)'
  BY <1>3, <1>4, <1>5 DEF Runs
<1>7. \A s \in Side :
        RunsOn(fn, s) /\ (b = Len(stack) \/ Top.fn # fn \/ Top.side # s) => RunsOn(fn, s)'
  BY <1>3, <1>4, <1>5 DEF RunsOn
<1>8. QED
  BY <1>2, <1>6, <1>7


-----------------------------------------------------------------------------
(* The lists of packets. *)

(* The list q holds the newest of n packets; the list q holds the first. *)
Newest(q, n) == /\ Len(q) <= n
                /\ \A k \in 1 .. Len(q) : q[k] = n - Len(q) + k
First(q) == \A k \in 1 .. Len(q) : q[k] = k

LEMMA NewestTail ==
  ASSUME NEW q \in Seq(Msg), NEW n \in Nat, Newest(q, n), q # <<>>
  PROVE  /\ Head(q) = n - Len(q) + 1 /\ Head(q) \in Msg
         /\ Tail(q) \in Seq(Msg) /\ Len(Tail(q)) = Len(q) - 1 /\ Newest(Tail(q), n)
<1>1. /\ Len(q) \in Nat /\ Len(q) # 0 /\ Head(q) = q[1]
      /\ Head(q) \in Msg /\ Tail(q) \in Seq(Msg) /\ Len(Tail(q)) = Len(q) - 1
      /\ \A k \in 1 .. Len(Tail(q)) : Tail(q)[k] = q[k + 1]
  BY HeadTailProperties, LenProperties, EmptySeq
<1>2. Head(q) = n - Len(q) + 1
  BY <1>1 DEF Newest
<1>3. ASSUME NEW k \in 1 .. Len(Tail(q))
      PROVE  Tail(q)[k] = n - Len(Tail(q)) + k
  <2>1. k + 1 \in 1 .. Len(q)
    BY <1>1
  <2>2. Tail(q)[k] = n - Len(q) + (k + 1)
    BY <1>1, <2>1 DEF Newest
  <2>3. QED
    BY <1>1, <2>2
<1>4. Newest(Tail(q), n)
  BY <1>1, <1>3 DEF Newest
<1>5. QED
  BY <1>1, <1>2, <1>4

LEMMA NewestSuffix ==
  ASSUME NEW q \in Seq(Msg), NEW n \in Nat, Newest(q, n), NEW i \in 1 .. Len(q)
  PROVE  /\ SubSeq(q, i + 1, Len(q)) \in Seq(Msg)
         /\ Newest(SubSeq(q, i + 1, Len(q)), n)
         /\ i = 1 => Len(SubSeq(q, i + 1, Len(q))) = Len(q) - 1
<1> DEFINE t == SubSeq(q, i + 1, Len(q))
<1>1. Len(q) \in Nat /\ \A k \in 1 .. Len(q) : q[k] \in Msg
  BY LenProperties
<1>2. /\ t \in Seq(Msg) /\ Len(t) = Len(q) - i
      /\ \A k \in 1 .. Len(q) - i : t[k] = q[i + k]
  <2>1. \A k \in i + 1 .. Len(q) : q[k] \in Msg
    BY <1>1
  <2>2. /\ t \in Seq(Msg) /\ Len(t) = IF i + 1 <= Len(q) THEN Len(q) - (i + 1) + 1 ELSE 0
        /\ \A k \in 1 .. Len(q) - (i + 1) + 1 : t[k] = q[i + 1 + k - 1]
    BY <1>1, <2>1, SubSeqProperties
  <2>3. QED
    BY <1>1, <2>2
<1>3. ASSUME NEW k \in 1 .. Len(q) - i
      PROVE  t[k] = n - (Len(q) - i) + k
  <2>1. i + k \in 1 .. Len(q)
    BY <1>1
  <2>2. t[k] = n - Len(q) + (i + k)
    BY <1>2, <2>1 DEF Newest
  <2>3. QED
    BY <1>1, <2>2
<1> HIDE DEF t
<1>4. Newest(t, n)
  BY <1>1, <1>2, <1>3 DEF Newest
<1>5. QED
  BY <1>1, <1>2, <1>4 DEF t

LEMMA SuffixShorter ==
  ASSUME NEW q \in Seq(Msg), NEW i \in 1 .. Len(q)
  PROVE  /\ Len(SubSeq(q, i + 1, Len(q))) \in Nat
         /\ Len(SubSeq(q, i + 1, Len(q))) <= Len(q)
<1>1. Len(q) \in Nat /\ \A k \in 1 .. Len(q) : q[k] \in Msg
  BY LenProperties
<1>2. \A k \in i + 1 .. Len(q) : q[k] \in Msg
  BY <1>1
<1>3. Len(SubSeq(q, i + 1, Len(q))) = IF i + 1 <= Len(q) THEN Len(q) - (i + 1) + 1 ELSE 0
  BY <1>1, <1>2, SubSeqProperties
<1>4. QED
  BY <1>1, <1>3

LEMMA NewestAppend ==
  ASSUME NEW q \in Seq(Msg), NEW n \in Nat, Newest(q, n), n + 1 \in Msg
  PROVE  /\ Append(q, n + 1) \in Seq(Msg) /\ Len(Append(q, n + 1)) = Len(q) + 1
         /\ Newest(Append(q, n + 1), n + 1)
<1>1. /\ Append(q, n + 1) \in Seq(Msg) /\ Len(Append(q, n + 1)) = Len(q) + 1
      /\ Len(q) \in Nat
      /\ \A k \in 1 .. Len(q) : Append(q, n + 1)[k] = q[k]
      /\ Append(q, n + 1)[Len(q) + 1] = n + 1
  BY AppendProperties, LenProperties
<1>2. ASSUME NEW k \in 1 .. Len(q) + 1
      PROVE  Append(q, n + 1)[k] = n + 1 - (Len(q) + 1) + k
  <2>1. CASE k \in 1 .. Len(q)
    <3>1. Append(q, n + 1)[k] = n - Len(q) + k
      BY <1>1, <2>1 DEF Newest
    <3>2. QED
      BY <1>1, <3>1
  <2>2. CASE k = Len(q) + 1
    BY <1>1, <2>2
  <2>3. QED
    BY <1>1, <2>1, <2>2
<1>3. Len(q) + 1 <= n + 1
  BY <1>1 DEF Newest
<1>4. QED
  BY <1>1, <1>2, <1>3 DEF Newest

LEMMA FirstAppend ==
  ASSUME NEW q \in Seq(Msg), First(q), NEW m \in Msg, m = Len(q) + 1
  PROVE  /\ Append(q, m) \in Seq(Msg) /\ Len(Append(q, m)) = Len(q) + 1
         /\ First(Append(q, m))
<1>1. /\ Append(q, m) \in Seq(Msg) /\ Len(Append(q, m)) = Len(q) + 1
      /\ Len(q) \in Nat
      /\ \A k \in 1 .. Len(q) : Append(q, m)[k] = q[k]
      /\ Append(q, m)[Len(q) + 1] = m
  BY AppendProperties, LenProperties
<1>2. \A k \in 1 .. Len(q) + 1 : k \in 1 .. Len(q) \/ k = Len(q) + 1
  BY <1>1
<1>3. QED
  BY <1>1, <1>2 DEF First

LEMMA Peers ==
  ASSUME NEW s \in Side
  PROVE  /\ Peer(s) \in Side /\ Peer(s) # s /\ Peer(Peer(s)) = s
         /\ \A x \in Side : x = s \/ x = Peer(s)
  BY DEF Side, Peer

(* A packet goes from the other side's list to side s. *)
Moved(s) ==
  LET m == Head(sendq[Peer(s)]) IN
  /\ sendq' = [sendq EXCEPT ![Peer(s)] = Tail(@)]
  /\ recv' = [recv EXCEPT ![s] = FALSE]
  /\ got' = [got EXCEPT ![s] = Append(@, m)]
  /\ UNCHANGED <<sideClosed, freed, sent, done>>

LEMMA MovedData ==
  ASSUME TypeOK, Queues, InOrder, ~AnyClosed, NEW s \in Side, Moved(s),
         sendq[Peer(s)] # <<>>, stack' \in Seq(Frame)
  PROVE  /\ TypeOK' /\ Queues' /\ InOrder'
         /\ ~recv'[s] /\ recv'[Peer(s)] = recv[Peer(s)] /\ sendq'[s] = sendq[s]
<1> DEFINE p == Peer(s)
           q == sendq[p]
           m == Head(q)
<1>1. p \in Side /\ p # s /\ Peer(p) = s /\ \A x \in Side : x = s \/ x = p
  BY Peers
<1>2. /\ q \in Seq(Msg) /\ sent[p] \in Nat /\ Newest(q, sent[p]) /\ sent[p] <= MaxMsg
      /\ got[s] \in Seq(Msg) /\ First(got[s]) /\ Len(got[s]) = sent[p] - Len(q)
  BY <1>1 DEF TypeOK, Queues, InOrder, Newest, First, Msg
<1>3. /\ m = sent[p] - Len(q) + 1 /\ m \in Msg
      /\ Tail(q) \in Seq(Msg) /\ Len(Tail(q)) = Len(q) - 1 /\ Newest(Tail(q), sent[p])
  BY <1>2, NewestTail
<1>4. /\ sendq'[p] = Tail(q) /\ sendq'[s] = sendq[s]
      /\ ~recv'[s] /\ recv'[p] = recv[p]
      /\ got'[s] = Append(got[s], m) /\ got'[p] = got[p]
      /\ sent' = sent /\ sideClosed' = sideClosed
  BY <1>1 DEF Moved, TypeOK
<1>5. Len(q) \in Nat /\ Len(got[s]) \in Nat
  BY <1>2, LenProperties
<1>6. /\ Append(got[s], m) \in Seq(Msg) /\ Len(Append(got[s], m)) = Len(got[s]) + 1
      /\ First(Append(got[s], m))
  <2>1. m = Len(got[s]) + 1
    BY <1>2, <1>3, <1>5
  <2>2. QED
    BY <1>2, <1>3, <2>1, FirstAppend
<1>8. TypeOK'
  <2>1. /\ sendq' \in [Side -> Seq(Msg)] /\ recv' \in [Side -> BOOLEAN]
        /\ got' \in [Side -> Seq(Msg)]
    BY <1>1, <1>3, <1>6 DEF Moved, TypeOK, Msg
  <2>2. QED
    BY <2>1 DEF Moved, TypeOK, Msg
<1>9. Queues'
  <2>1. \A x \in Side : Newest(sendq'[x], sent'[x])
    <3>1. Newest(sendq[s], sent[s])
      BY DEF Queues, Newest
    <3>2. QED
      BY <1>1, <1>3, <1>4, <3>1
  <2>2. Len(got'[s]) = sent'[p] - Len(sendq'[p])
    BY <1>2, <1>3, <1>4, <1>5, <1>6
  <2>3. Len(got'[p]) = sent'[s] - Len(sendq'[s])
    BY <1>1, <1>4 DEF Queues
  <2>4. \A x \in Side : Len(got'[Peer(x)]) = sent'[x] - Len(sendq'[x])
    BY <1>1, <2>2, <2>3
  <2>5. \A x \in Side : Len(got'[Peer(x)]) <= sent'[x] - Len(sendq'[x])
    <3>1. ASSUME NEW x \in Side
          PROVE  Len(got'[Peer(x)]) <= sent'[x] - Len(sendq'[x])
      <4>1. sent'[x] \in Nat /\ Len(sendq'[x]) \in Nat
        BY <1>8, LenProperties DEF TypeOK
      <4>2. QED
        BY <2>4, <4>1
    <3>2. QED
      BY <3>1
  <2>6. QED
    BY <2>1, <2>4, <2>5 DEF Queues, Newest
<1>10. InOrder'
  <2>1. First(got'[s]) /\ First(got'[p])
    BY <1>1, <1>4, <1>6 DEF InOrder, First
  <2>2. Len(got'[s]) <= sent'[p]
    <3>1. Len(got[s]) + 1 <= sent[p]
      <4>1. Len(q) # 0
        BY <1>2, EmptySeq
      <4>2. QED
        BY <1>2, <1>5, <4>1
    <3>2. QED
      BY <1>4, <1>6, <3>1
  <2>3. Len(got'[p]) <= sent'[s]
    BY <1>1, <1>4 DEF InOrder
  <2>4. QED
    BY <1>1, <2>1, <2>2, <2>3 DEF InOrder, First
<1>11. QED
  BY <1>4, <1>8, <1>9, <1>10


-----------------------------------------------------------------------------
(* The sends that were taken are completed once.                           *)

(* No packet is taken, and no taken one's completion begins or ends. *)
LEMMA SameCounted ==
  ASSUME TypeOK, TypeOK', Counted, got' = got, ~AnyClosed' => ~AnyClosed,
         \A h \in Height : Call(h).fn = "completed" => h \in Height' /\ Call(h)' = Call(h),
         \A h \in Height' : Call(h)'.fn = "completed" => h \in Height /\ Call(h)' = Call(h),
         \A s \in Side : sent[s] <= sent'[s],
         \A s \in Side, m \in Msg :
           \/ done'[s][m] = done[s][m]
           \/ AnyClosed' /\ m > Len(got[Peer(s)]) /\ m <= sent'[s]
  PROVE  Counted'
<1>1. \A g, h \in Height' : Call(g)'.fn = "completed" /\ Call(g)' = Call(h)' => g = h
  BY DEF Counted
<1>2. \A s \in Side, m \in Msg : Awaits(s, m)' <=> Awaits(s, m)
  BY DEF Awaits, Of
<1>3. ASSUME NEW s \in Side, NEW m \in Msg
      PROVE  /\ Awaits(s, m)' => m <= Len(got'[Peer(s)])
             /\ m <= Len(got'[Peer(s)]) => done'[s][m] = IF Awaits(s, m)' THEN 0 ELSE 1
             /\ m > Len(got'[Peer(s)]) /\ (~AnyClosed' \/ m > sent'[s]) => done'[s][m] = 0
  <2>1. m \in Nat /\ Len(got[Peer(s)]) \in Nat /\ sent[s] \in Nat /\ sent'[s] \in Nat
    BY Peers, LenProperties DEF TypeOK, Msg
  <2>2. /\ Awaits(s, m) => m <= Len(got[Peer(s)])
        /\ m <= Len(got[Peer(s)]) => done[s][m] = IF Awaits(s, m) THEN 0 ELSE 1
        /\ m > Len(got[Peer(s)]) /\ (~AnyClosed \/ m > sent[s]) => done[s][m] = 0
    BY DEF Counted
  <2>3. m > sent'[s] => m > sent[s]
    BY <2>1
  <2>4. CASE done'[s][m] = done[s][m]
    BY <1>2, <2>2, <2>3, <2>4
  <2>5. CASE AnyClosed' /\ m > Len(got[Peer(s)]) /\ m <= sent'[s]
    BY <1>2, <2>1, <2>2, <2>5
  <2>6. QED
    BY <2>4, <2>5
<1>4. QED
  BY <1>1, <1>3 DEF Counted

(* Users are called back, or a function other than a completion returns. *)
LEMMA UsersCounted ==
  ASSUME TypeOK, TypeOK', Counted, UNCHANGED <<got, sent, done>>, ~AnyClosed' => ~AnyClosed,
         NEW b \in Nat, OnlyUsers(b),
         b = Len(stack) \/ (b = Len(stack) - 1 /\ stack # <<>> /\ Top.fn # "completed")
  PROVE  Counted'
<1>1. \A h \in Height' : Call(h)'.fn = "completed" => h \in Height /\ Call(h)' = Call(h)
  BY DEF OnlyUsers
<1>2. ASSUME NEW h \in Height, Call(h).fn = "completed"
      PROVE  h \in Height' /\ Call(h)' = Call(h)
  <2>1. Len(stack) \in Nat /\ h \in 0 .. Len(stack) - 1
    BY StackFacts DEF Height
  <2>2. h < b
    <3>1. CASE b = Len(stack)
      BY <2>1, <3>1
    <3>2. CASE b = Len(stack) - 1 /\ stack # <<>> /\ Top.fn # "completed"
      <4>1. Call(Len(stack) - 1) = Top
        BY <3>2, StackFacts
      <4>2. h # Len(stack) - 1
        BY <1>2, <3>2, <4>1
      <4>3. QED
        BY <2>1, <3>2, <4>2
    <3>3. QED
      BY <3>1, <3>2
  <2>3. QED
    BY <2>2 DEF OnlyUsers
<1>3. \A s \in Side : sent[s] <= sent'[s]
  BY DEF TypeOK
<1>4. QED
  BY <1>1, <1>2, <1>3, SameCounted

(* A packet is taken: the completion of its send is a call to come. *)
LEMMA MovedCounted ==
  ASSUME TypeOK, Queues, Counted, ~AnyClosed, ~AnyClosed', NEW s \in Side, Moved(s),
         sendq[Peer(s)] # <<>>,
         NEW g \in Height', Call(g)' = Of("completed", Peer(s), Head(sendq[Peer(s)])),
         \A h \in Height : Call(h).fn = "completed" => h \in Height' /\ Call(h)' = Call(h),
         \A h \in Height' : Call(h)'.fn = "completed" =>
           h = g \/ (h \in Height /\ Call(h)' = Call(h))
  PROVE  Counted'
<1> DEFINE p == Peer(s)
           q == sendq[p]
<1>1. p \in Side /\ p # s /\ Peer(p) = s /\ \A x \in Side : x = s \/ x = p
  BY Peers
<1>2. /\ q \in Seq(Msg) /\ sent[p] \in Nat /\ Newest(q, sent[p])
      /\ got[s] \in Seq(Msg) /\ Len(got[s]) = sent[p] - Len(q)
      /\ Len(q) \in Nat /\ Len(got[s]) \in Nat
  BY <1>1, LenProperties DEF TypeOK, Queues, Newest, Msg
<1>3. PICK m \in Msg : m = Head(q) /\ m = Len(got[s]) + 1
  <2>1. Head(q) = sent[p] - Len(q) + 1 /\ Head(q) \in Msg
    BY <1>2, NewestTail
  <2>2. QED
    BY <1>2, <2>1
<1>4. /\ got'[s] = Append(got[s], m) /\ got'[p] = got[p] /\ Len(got'[s]) = m
      /\ done' = done /\ sent' = sent
  <2>1. /\ got'[s] = Append(got[s], m) /\ got'[p] = got[p] /\ done' = done /\ sent' = sent
    BY <1>1, <1>3 DEF Moved, TypeOK
  <2>2. Len(Append(got[s], m)) = Len(got[s]) + 1
    BY <1>2, AppendProperties
  <2>3. QED
    BY <1>3, <2>1, <2>2
<1>5. ~Awaits(p, m)
  <2>1. ~(m <= Len(got[Peer(p)]))
    BY <1>1, <1>2, <1>3
  <2>2. QED
    BY <1>1, <2>1 DEF Counted
<1>6. Call(g)' = Of("completed", p, m)
  BY <1>3
<1>7. ASSUME NEW h \in Height', Call(h)'.fn = "completed"
      PROVE  \/ h = g
             \/ h \in Height /\ Call(h)' = Call(h) /\ Call(h) # Of("completed", p, m)
  BY <1>5, <1>7 DEF Awaits
<1>8. \A x, h \in Height' : Call(x)'.fn = "completed" /\ Call(x)' = Call(h)' => x = h
  <2>1. ASSUME NEW x \in Height', NEW h \in Height', Call(x)'.fn = "completed", Call(x)' = Call(h)'
        PROVE  x = h
    <3>1. Call(h)'.fn = "completed"
      BY <2>1
    <3>2. CASE x = g \/ h = g
      BY <1>6, <1>7, <2>1, <3>1, <3>2
    <3>3. CASE ~(x = g \/ h = g)
      <4>1. x \in Height /\ Call(x)' = Call(x) /\ h \in Height /\ Call(h)' = Call(h)
        BY <1>7, <2>1, <3>1, <3>3
      <4>2. QED
        BY <2>1, <4>1 DEF Counted
    <3>4. QED
      BY <3>2, <3>3
  <2>2. QED
    BY <2>1
<1>9. /\ Awaits(p, m)'
      /\ \A x \in Side, n \in Msg : x # p \/ n # m => (Awaits(x, n)' <=> Awaits(x, n))
  <2>1. Awaits(p, m)'
    BY <1>6 DEF Awaits
  <2>2. ASSUME NEW x \in Side, NEW n \in Msg, x # p \/ n # m
        PROVE  Awaits(x, n)' <=> Awaits(x, n)
    <3>1. Of("completed", x, n) # Of("completed", p, m) /\ Of("completed", x, n).fn = "completed"
      BY <2>2 DEF Of
    <3>2. Awaits(x, n) => Awaits(x, n)'
      BY <3>1 DEF Awaits
    <3>3. ASSUME NEW h \in Height', Call(h)' = Of("completed", x, n)
          PROVE  Awaits(x, n)
      BY <1>6, <1>7, <3>1, <3>3 DEF Awaits
    <3>4. QED
      BY <3>2, <3>3 DEF Awaits
  <2>3. QED
    BY <2>1, <2>2
<1>10. ASSUME NEW x \in Side, NEW n \in Msg
       PROVE  /\ Awaits(x, n)' => n <= Len(got'[Peer(x)])
              /\ n <= Len(got'[Peer(x)]) => done'[x][n] = IF Awaits(x, n)' THEN 0 ELSE 1
              /\ n > Len(got'[Peer(x)]) /\ (~AnyClosed' \/ n > sent'[x]) => done'[x][n] = 0
  <2>0. /\ Awaits(x, n) => n <= Len(got[Peer(x)])
        /\ n <= Len(got[Peer(x)]) => done[x][n] = IF Awaits(x, n) THEN 0 ELSE 1
        /\ n > Len(got[Peer(x)]) => done[x][n] = 0
    BY DEF Counted
  <2>1. CASE x = s
    BY <1>1, <1>4, <1>9, <2>0, <2>1
  <2>2. CASE x = p /\ n # m
    <3>1. n \in Nat /\ (n <= Len(got'[s]) => n <= Len(got[s])) /\ (n <= Len(got[s]) => n <= Len(got'[s]))
      BY <1>2, <1>3, <1>4, <2>2 DEF Msg
    <3>2. Awaits(x, n)' <=> Awaits(x, n)
      BY <1>9, <2>2
    <3>3. Peer(x) = s /\ done' = done /\ (n > Len(got'[s]) => n > Len(got[s]))
      BY <1>1, <1>2, <1>3, <1>4, <2>2
    <3>4. QED
      BY <2>0, <3>1, <3>2, <3>3
  <2>3. CASE x = p /\ n = m
    <3>1. done[x][n] = 0 /\ Awaits(x, n)' /\ Peer(x) = s
      <4>1. m > Len(got[s])
        BY <1>2, <1>3
      <4>2. QED
        BY <1>1, <1>9, <2>0, <2>3, <4>1
    <3>2. n \in Nat
      BY <1>2, <1>3, <2>3
    <3>3. QED
      BY <1>4, <2>3, <3>1, <3>2
  <2>4. QED
    BY <1>1, <2>1, <2>2, <2>3
<1>11. QED
  BY <1>8, <1>10 DEF Counted


-----------------------------------------------------------------------------
(* Steps of the user and of the event loop that leave the connection alone. *)

(* No send is completed by a close and none leaves its list. *)
LEMMA SameReported ==
  ASSUME Reported, NEW b \in Nat, OnlyUsers(b), UNCHANGED <<sendq, sent, got, done>>,
         \A s \in Side : RunsOn("drained", s)' <=> RunsOn("drained", s)
  PROVE  Reported'
<1>1. \A h \in Height' : Call(h)'.fn = "drained" => h \in Height /\ Call(h)' = Call(h)
  BY DEF OnlyUsers
<1>2. \A s \in Side : Left(s)' = Left(s)
  BY DEF Left
<1>3. QED
  BY <1>1, <1>2 DEF Reported

LEMMA QuietStep ==
  ASSUME IInv, NEW b \in Nat, OnlyUsers(b), UNCHANGED <<connVars, history>>,
         b = Len(stack) \/ (b = Len(stack) - 1 /\ stack # <<>> /\ Top.fn = "user")
  PROVE  IInv'
<1>1. /\ UNCHANGED <<sideClosed, recv, sendq, freed, sent, got, done>>
      /\ AnyClosed' = AnyClosed /\ AllClosed' = AllClosed
  BY DEF connVars, history, AnyClosed, AllClosed
<1>2. ASSUME NEW fn \in Fn, fn # "user"
      PROVE  /\ Runs(fn)' <=> Runs(fn)
             /\ \A s \in Side : RunsOn(fn, s)' <=> RunsOn(fn, s)
  BY <1>2, UsersRuns DEF IInv
<1>3. TypeOK'
  BY <1>1 DEF IInv, TypeOK, OnlyUsers
<1>4. Nested'
  BY <1>1, UsersNested DEF IInv, OrderInv
<1>5. Queues' /\ InOrder'
  BY <1>1 DEF IInv, OrderInv, Queues, InOrder
<1>6. Pumped'
  <2>1. "pump1" \in Fn /\ "pump2" \in Fn
    BY DEF Fn
  <2>2. (Runs("pump1")' <=> Runs("pump1")) /\ (Runs("pump2")' <=> Runs("pump2"))
    BY <1>2, <2>1
  <2>3. QED
    BY <1>1, <2>2 DEF IInv, OrderInv, Pumped
<1>7. Closed'
  <2>1. "closingRecv" \in Fn /\ "drain" \in Fn
    BY DEF Fn
  <2>2. \A s \in Side : /\ RunsOn("closingRecv", s)' <=> RunsOn("closingRecv", s)
                        /\ RunsOn("drain", s)' <=> RunsOn("drain", s)
    BY <1>2, <2>1
  <2>3. QED
    BY <1>1, <2>2 DEF IInv, OrderInv, Closed
<1>8. Released'
  <2>1. Runs("closingEnd")' <=> Runs("closingEnd")
    BY <1>2 DEF Fn
  <2>2. QED
    BY <1>1, <2>1 DEF IInv, Released
<1>9. CloseInv'
  <2>1. ASSUME OneClosing PROVE OneClosing'
    BY <1>1, <2>1, UsersOne
  <2>2. ASSUME Reported PROVE Reported'
    <3>1. \A s \in Side : RunsOn("drained", s)' <=> RunsOn("drained", s)
      BY <1>2 DEF Fn
    <3>2. QED
      BY <1>1, <2>2, <3>1, SameReported
  <2>3. QED
    BY <1>1, <2>1, <2>2 DEF IInv, CloseInv
<1>11. Counted'
  BY <1>1, <1>3, UsersCounted DEF IInv, OrderInv
<1>10. QED
  BY <1>3, <1>4, <1>5, <1>6, <1>7, <1>8, <1>9, <1>11 DEF IInv, OrderInv

LEMMA UserFrames ==
  ASSUME NEW s \in Side
  PROVE  /\ F("user", s) \in Frame /\ <<F("user", s)>> \in Seq(Frame)
         /\ Len(<<F("user", s)>>) = 1
         /\ \A i \in 1 .. 1 : <<F("user", s)>>[i].fn = "user"
<1>1. F("user", s) \in Frame
  BY FrameType DEF Fn
<1>2. QED
  BY <1>1 DEF F, Of

(* A call that is refused: the callback runs at once. *)
LEMMA RefusedStep ==
  ASSUME IInv, NEW s \in Side, stack' = <<F("user", s)>> \o stack,
         UNCHANGED <<connVars, history>>
  PROVE  IInv'
<1>1. TypeOK /\ Len(stack) \in Nat
  BY StackFacts DEF IInv
<1>2. Grown(Len(stack), <<F("user", s)>>)
  BY <1>1, UserFrames, Pushed
<1>3. OnlyUsers(Len(stack))
  <2>1. Len(stack) <= Len(stack)
    BY <1>1
  <2>2. QED
    BY <1>1, <1>2, <2>1, UserFrames, UsersOnTop
<1>4. QED
  BY <1>1, <1>3, QuietStep

(* A function that returns. *)
LEMMA ReturnFacts ==
  ASSUME TypeOK, stack # <<>>, stack' = Pop
  PROVE  Len(stack) - 1 \in Nat /\ OnlyUsers(Len(stack) - 1)
<1>1. Len(stack) \in Nat /\ Len(stack) - 1 \in Nat /\ Len(stack) - 1 <= Len(stack)
  BY StackFacts
<1>2. <<>> \in Seq(Frame) /\ \A i \in 1 .. Len(<<>>) : <<>>[i].fn = "user"
  OBVIOUS
<1>3. QED
  BY <1>1, <1>2, Returned, UsersOnTop

LEMMA UserReturnsStep ==
  ASSUME IInv, NEW s \in Side, UserReturns(s)
  PROVE  IInv'
<1>1. /\ TypeOK /\ stack # <<>> /\ stack' = Pop /\ Top.fn = "user"
      /\ UNCHANGED <<connVars, history>>
  BY DEF IInv, UserReturns, Running
<1>2. QED
  BY <1>1, ReturnFacts, QuietStep

LEMMA EventLoopStep ==
  ASSUME IInv, NEW s \in Side, EventLoop(s)
  PROVE  IInv'
<1>1. stack = <<>> /\ stack' = <<F("user", s)>> /\ UNCHANGED <<connVars, history>>
  BY DEF EventLoop
<1>2. stack' = <<F("user", s)>> \o stack
  BY <1>1, UserFrames, ConcatEmptySeq
<1>3. QED
  BY <1>1, <1>2, RefusedStep



-----------------------------------------------------------------------------
(* Steps of the pump, and the calls that start it: no close is under way,  *)
(* and none begins.                                                        *)

Calm == \A h \in Height : Call(h).fn \notin ClosingFn

LEMMA GrownRuns ==
  ASSUME TypeOK, NEW b \in Nat, b <= Len(stack), NEW xs \in Seq(Frame), Grown(b, xs)
  PROVE  /\ \A h \in Height : h < b => h \in Height' /\ Call(h)' = Call(h)
         /\ \A h \in Height' : \/ h < b /\ h \in Height /\ Call(h)' = Call(h)
                               \/ \E i \in 1 .. Len(xs) :
                                    /\ h = b + Len(xs) - i /\ h >= b /\ Call(h)' = xs[i]
         /\ \A i \in 1 .. Len(xs) :
              b + Len(xs) - i \in Height' /\ \E h \in Height' : h = b + Len(xs) - i /\ Call(h)' = xs[i]
<1>1. Len(stack) \in Nat /\ Len(xs) \in Nat
  BY StackFacts, LenProperties
<1>2. Height = 0 .. Len(stack) - 1 /\ Height' = 0 .. b + Len(xs) - 1
  BY DEF Height, Grown
<1>3. \A h \in Height : h < b => h \in Height' /\ Call(h)' = Call(h)
  BY <1>1, <1>2 DEF Grown
<1>4. ASSUME NEW h \in Height'
      PROVE  \/ h < b /\ h \in Height /\ Call(h)' = Call(h)
             \/ \E i \in 1 .. Len(xs) :
                  /\ h = b + Len(xs) - i /\ h >= b /\ Call(h)' = xs[i]
  <2>1. CASE h < b
    BY <1>1, <1>2, <1>3, <2>1
  <2>2. CASE ~(h < b)
    <3>1. /\ h \in b .. b + Len(xs) - 1 /\ b + Len(xs) - h \in 1 .. Len(xs) /\ h >= b
          /\ h = b + Len(xs) - (b + Len(xs) - h)
      BY <1>1, <1>2, <2>2
    <3>2. Call(h)' = xs[b + Len(xs) - h]
      BY <3>1 DEF Grown
    <3>3. QED
      BY <3>1, <3>2
  <2>3. QED
    BY <2>1, <2>2
<1>5. ASSUME NEW i \in 1 .. Len(xs)
      PROVE  b + Len(xs) - i \in Height' /\ \E h \in Height' : h = b + Len(xs) - i /\ Call(h)' = xs[i]
  <2>0. /\ b + Len(xs) - i \in b .. b + Len(xs) - 1
        /\ i = b + Len(xs) - (b + Len(xs) - i)
    BY <1>1
  <2>1. PICK h \in b .. b + Len(xs) - 1 : h = b + Len(xs) - i /\ i = b + Len(xs) - h
    BY <2>0
  <2>2. h \in Height' /\ Call(h)' = xs[i]
    BY <1>1, <1>2, <2>1 DEF Grown
  <2>3. QED
    BY <2>1, <2>2
<1>6. QED
  BY <1>3, <1>4, <1>5

LEMMA CalmGrown ==
  ASSUME TypeOK, Calm, NEW b \in Nat, b <= Len(stack), NEW xs \in Seq(Frame), Grown(b, xs),
         \A i \in 1 .. Len(xs) : xs[i].fn \notin ClosingFn
  PROVE  /\ Calm'
         /\ \A i \in 1 .. Len(xs) : Runs(xs[i].fn)'
         /\ \A fn \in Fn : /\ Runs(fn)
                           /\ b = Len(stack) \/ (b = Len(stack) - 1 /\ Top.fn # fn)
                           => Runs(fn)'
<1>1. /\ \A h \in Height : h < b => h \in Height' /\ Call(h)' = Call(h)
      /\ \A h \in Height' : \/ h < b /\ h \in Height /\ Call(h)' = Call(h)
                            \/ \E i \in 1 .. Len(xs) :
                                 /\ h = b + Len(xs) - i /\ h >= b /\ Call(h)' = xs[i]
      /\ \A i \in 1 .. Len(xs) :
           b + Len(xs) - i \in Height' /\ \E h \in Height' : h = b + Len(xs) - i /\ Call(h)' = xs[i]
  BY GrownRuns
<1>2. Calm'
  BY <1>1 DEF Calm
<1>3. ASSUME NEW i \in 1 .. Len(xs)
      PROVE  Runs(xs[i].fn)'
  <2>1. PICK h \in Height' : Call(h)' = xs[i]
    BY <1>1
  <2>2. QED
    BY <2>1 DEF Runs
<1>4. ASSUME NEW fn \in Fn, Runs(fn),
             b = Len(stack) \/ (b = Len(stack) - 1 /\ Top.fn # fn)
      PROVE  Runs(fn)'
  <2>1. PICK h \in Height : Call(h).fn = fn
    BY <1>4 DEF Runs
  <2>2. h < b
    <3>1. stack # <<>> /\ Len(stack) \in Nat /\ h \in 0 .. Len(stack) - 1
      BY StackFacts DEF Height
    <3>2. Call(Len(stack) - 1) = Top
      BY <3>1, StackFacts
    <3>3. CASE b = Len(stack)
      BY <3>1, <3>3
    <3>4. CASE b = Len(stack) - 1 /\ Top.fn # fn
      <4>1. h # Len(stack) - 1
        BY <2>1, <3>2, <3>4
      <4>2. QED
        BY <3>1, <3>4, <4>1
    <3>5. QED
      BY <1>4, <3>3, <3>4
  <2>3. h \in Height' /\ Call(h)' = Call(h)
    BY <1>1, <2>2
  <2>4. QED
    BY <2>1, <2>3 DEF Runs
<1>5. QED
  BY <1>2, <1>3, <1>4

LEMMA CalmStep ==
  ASSUME IInv, Calm, Calm', ~freed, UNCHANGED <<sideClosed, freed>>,
         TypeOK', Queues', InOrder', Pumped', Counted',
         AnyClosed => UNCHANGED <<recv, sendq, sent, got, done>>
  PROVE  IInv'
<1>1. AnyClosed' = AnyClosed /\ AllClosed' = AllClosed
  BY DEF AnyClosed, AllClosed
<1>2. \A s \in Side : ~RunsOn("closingRecv", s) /\ ~RunsOn("drain", s) /\ ~RunsOn("drained", s)
  BY DEF Calm, RunsOn, ClosingFn
<1>3. ~Runs("closingEnd") /\ ~AllClosed
  BY DEF Calm, Runs, ClosingFn, IInv, Released
<1>4. \A s \in Side : ~RunsOn("drained", s)'
  BY DEF Calm, RunsOn, ClosingFn
<1>5. Nested'
  BY DEF Calm, Nested, ClosingFn
<1>6. Closed'
  BY <1>1, <1>2 DEF IInv, OrderInv, Closed
<1>7. Released'
  BY <1>1, <1>3 DEF Released
<1>8. OneClosing'
  BY DEF Calm, OneClosing, ClosingFn
<1>9. Reported'
  <2>1. \A h \in Height' : Call(h)'.fn # "drained"
    BY DEF Calm, ClosingFn
  <2>2. ASSUME NEW s \in Side, NEW m \in Msg, m > Len(got'[Peer(s)])
        PROVE  done'[s][m] = IF m <= Left(s)' THEN 1 ELSE 0
    <3>1. /\ m \in Nat /\ Len(got'[Peer(s)]) \in Nat
          /\ Len(sendq'[s]) \in Nat /\ sent'[s] \in Nat
      BY Peers, LenProperties DEF TypeOK, Msg
    <3>2. CASE AnyClosed
      <4>1. Left(s)' = Left(s)
        BY <1>2, <1>4, <3>2 DEF Left
      <4>2. QED
        BY <1>3, <2>2, <3>2, <4>1 DEF IInv, CloseInv, Reported
    <3>3. CASE ~AnyClosed
      <4>1. Left(s)' = sent'[s] - Len(sendq'[s]) + 0
        BY <1>4 DEF Left
      <4>2. Len(got'[Peer(s)]) = sent'[s] - Len(sendq'[s])
        BY <1>1, <3>3 DEF Queues
      <4>3. ~(m <= Left(s)')
        BY <2>2, <3>1, <4>1, <4>2
      <4>4. QED
        BY <1>1, <2>2, <3>3, <4>3 DEF Counted
    <3>4. QED
      BY <3>2, <3>3
  <2>3. QED
    BY <2>1, <2>2 DEF Reported
<1>10. QED
  BY <1>5, <1>6, <1>7, <1>8, <1>9 DEF IInv, OrderInv, CloseInv


(* The topmost call pumps: no close is under way below it. *)
LEMMA PumpOnTop ==
  ASSUME IInv, stack # <<>>, Top.fn \in Pumping
  PROVE  /\ Calm
         /\ AnyClosed => \A s \in Side : ~recv[s] /\ sendq[s] = <<>>
<1>1. /\ Len(stack) \in Nat /\ Len(stack) - 1 \in Height /\ Call(Len(stack) - 1) = Top
  BY StackFacts DEF IInv
<1>2. Calm
  <2>1. ASSUME NEW h \in Height, Call(h).fn \in ClosingFn
        PROVE  FALSE
    <3>1. Len(stack) - 1 < h
      BY <1>1, <2>1 DEF IInv, OrderInv, Nested
    <3>2. QED
      BY <1>1, <3>1 DEF Height
  <2>2. QED
    BY <2>1 DEF Calm
<1>3. \A s \in Side : ~RunsOn("closingRecv", s) /\ ~RunsOn("drain", s)
  BY <1>2 DEF Calm, RunsOn, ClosingFn
<1>4. QED
  BY <1>2, <1>3 DEF IInv, OrderInv, Closed

(* The pump calls the receiver; the completion of the send is to come. *)
LEMMA Transferred ==
  ASSUME TypeOK, stack # <<>>, Top.fn \in Pumping, NEW xs \in Seq(Frame), stack' = xs \o Pop,
         2 \in 1 .. Len(xs), xs[2].fn = "completed",
         \A i \in 1 .. Len(xs) : i # 2 => xs[i].fn # "completed"
  PROVE  /\ \A h \in Height : Call(h).fn = "completed" => h \in Height' /\ Call(h)' = Call(h)
         /\ \E g \in Height' :
              /\ Call(g)' = xs[2]
              /\ \A h \in Height' : Call(h)'.fn = "completed" =>
                   h = g \/ (h \in Height /\ Call(h)' = Call(h))
<1>1. /\ Len(stack) \in Nat /\ Len(stack) - 1 \in Nat /\ Len(stack) - 1 <= Len(stack)
      /\ Call(Len(stack) - 1) = Top
  BY StackFacts DEF Height
<1>2. PICK b \in Nat : b = Len(stack) - 1
  BY <1>1
<1>3. /\ \A h \in Height : h < b => h \in Height' /\ Call(h)' = Call(h)
      /\ \A h \in Height' : \/ h < b /\ h \in Height /\ Call(h)' = Call(h)
                            \/ \E i \in 1 .. Len(xs) :
                                 /\ h = b + Len(xs) - i /\ h >= b /\ Call(h)' = xs[i]
      /\ \A i \in 1 .. Len(xs) :
           b + Len(xs) - i \in Height' /\ \E h \in Height' : h = b + Len(xs) - i /\ Call(h)' = xs[i]
  BY <1>1, <1>2, Replaced, GrownRuns
<1>4. ASSUME NEW h \in Height, Call(h).fn = "completed"
      PROVE  h \in Height' /\ Call(h)' = Call(h)
  <2>1. h \in 0 .. Len(stack) - 1 /\ h # Len(stack) - 1
    BY <1>1, <1>4 DEF Height, Pumping
  <2>2. h < b
    BY <1>1, <1>2, <2>1
  <2>3. QED
    BY <1>3, <2>2
<1>5. PICK g \in Height' : g = b + Len(xs) - 2 /\ Call(g)' = xs[2]
  BY <1>3
<1>6. \A h \in Height' : Call(h)'.fn = "completed" =>
        h = g \/ (h \in Height /\ Call(h)' = Call(h))
  BY <1>3, <1>5, ZenonT(30)
<1>7. QED
  BY <1>4, <1>5, <1>6

(* The pump finds nothing to move. *)
LEMMA PumpReturns ==
  ASSUME TypeOK, TypeOK', Counted, stack # <<>>, Top.fn \in Pumping,
         NEW xs \in Seq(Frame), stack' = xs \o Pop,
         \A i \in 1 .. Len(xs) : xs[i].fn # "completed",
         UNCHANGED <<got, sent, done>>, AnyClosed' = AnyClosed
  PROVE  Counted'
<1>1. /\ Len(stack) \in Nat /\ Len(stack) - 1 \in Nat /\ Len(stack) - 1 <= Len(stack)
      /\ Call(Len(stack) - 1) = Top
  BY StackFacts DEF Height
<1>2. PICK b \in Nat : b = Len(stack) - 1
  BY <1>1
<1>3. /\ \A h \in Height : h < b => h \in Height' /\ Call(h)' = Call(h)
      /\ \A h \in Height' : \/ h < b /\ h \in Height /\ Call(h)' = Call(h)
                            \/ \E i \in 1 .. Len(xs) :
                                 /\ h = b + Len(xs) - i /\ h >= b /\ Call(h)' = xs[i]
  BY <1>1, <1>2, Replaced, GrownRuns
<1>4. ASSUME NEW h \in Height, Call(h).fn = "completed"
      PROVE  h \in Height' /\ Call(h)' = Call(h)
  <2>1. h \in 0 .. Len(stack) - 1 /\ h # Len(stack) - 1
    BY <1>1, <1>4 DEF Height, Pumping
  <2>2. h < b
    BY <1>1, <1>2, <2>1
  <2>3. QED
    BY <1>3, <2>2
<1>5. \A h \in Height' : Call(h)'.fn = "completed" => h \in Height /\ Call(h)' = Call(h)
  BY <1>3
<1>6. \A s \in Side : sent[s] <= sent'[s]
  BY DEF TypeOK
<1>7. QED
  BY <1>4, <1>5, <1>6, SameCounted

LEMMA HeadIsMsg ==
  ASSUME TypeOK, NEW s \in Side, sendq[s] # <<>>
  PROVE  Head(sendq[s]) \in 0 .. MaxMsg
<1>1. sendq[s] \in Seq(Msg)
  BY DEF TypeOK, Msg
<1>2. Head(sendq[s]) \in Msg
  BY <1>1, HeadTailProperties
<1>3. QED
  BY <1>2, PipeAssumption DEF Msg, PipeAssumption

LEMMA FrameOf == \A fn \in Fn, s \in Side, m \in 0 .. MaxMsg : Of(fn, s, m) \in Frame
  BY DEF Of, Frame

LEMMA Pump1Step ==
  ASSUME IInv, Pump1
  PROVE  IInv'
<1>1. /\ TypeOK /\ OrderInv /\ stack # <<>> /\ Top.fn = "pump1" /\ ~freed
      /\ UNCHANGED <<sideClosed, freed, sent, done>>
  BY DEF IInv, Pump1, At
<1>2. /\ Calm /\ AnyClosed' = AnyClosed
      /\ AnyClosed => \A s \in Side : ~recv[s] /\ sendq[s] = <<>>
  BY <1>1, PumpOnTop DEF Pumping, AnyClosed
<1>3. /\ Len(stack) \in Nat /\ Len(stack) - 1 \in Nat /\ Len(stack) - 1 <= Len(stack)
      /\ Pop \in Seq(Frame)
  BY <1>1, StackFacts, HeadTailProperties DEF Pop, TypeOK
<1>4. /\ "client" \in Side /\ "server" \in Side
      /\ Peer("client") = "server" /\ Peer("server") = "client"
      /\ Side = {"client", "server"}
  BY DEF Side, Peer
<1>5. /\ F("user", "client") \in Frame /\ F("pump2", "server") \in Frame
      /\ F("user", "client").fn = "user"
      /\ F("pump2", "server").fn = "pump2"
  BY <1>4, FrameType DEF F, Of, Fn
<1>6. CASE recv["client"] /\ sendq["server"] # <<>>
  <2>1. ~AnyClosed
    BY <1>2, <1>4, <1>6
  <2>0. PICK f \in Frame : /\ f = Of("completed", "server", Head(sendq["server"]))
                           /\ f.fn = "completed"
    BY <1>1, <1>4, <1>6, HeadIsMsg, FrameOf DEF Fn, Of
  <2>2. /\ Moved("client")
        /\ stack' = <<F("user", "client"), f>> \o (<<F("pump2", "server")>> \o Pop)
    BY <1>1, <1>4, <1>6, <2>0 DEF Pump1, Transfer, Moved
  <2>3a. <<F("user", "client"), f, F("pump2", "server")>> \in Seq(Frame)
    BY <1>5
  <2>3. PICK xs \in Seq(Frame) : xs = <<F("user", "client"), f, F("pump2", "server")>>
    BY <2>3a
  <2>4. stack' = xs \o Pop
    <3>1. <<F("user", "client"), f>> \in Seq(Frame)
          /\ <<F("pump2", "server")>> \in Seq(Frame)
      BY <1>5
    <3>2. xs = <<F("user", "client"), f>> \o <<F("pump2", "server")>>
      BY <1>5, <2>3
    <3>3. QED
      BY <1>3, <2>2, <3>1, <3>2, ConcatAssociative
  <2>5. Grown(Len(stack) - 1, xs)
    BY <1>1, <2>4, Replaced
  <2>6. \A i \in 1 .. Len(xs) : xs[i].fn \notin ClosingFn
    BY <1>5, <2>0, <2>3 DEF ClosingFn
  <2>7. Calm' /\ Runs("pump2")'
    <3>1. Calm' /\ Runs(xs[3].fn)'
      <4>1. 3 \in 1 .. Len(xs)
        BY <2>3
      <4>2. QED
        BY <1>1, <1>2, <1>3, <2>5, <2>6, <4>1, CalmGrown
    <3>2. xs[3].fn = "pump2"
      BY <1>5, <2>3
    <3>3. QED
      BY <3>1, <3>2 DEF Runs
  <2>8. /\ TypeOK' /\ Queues' /\ InOrder'
        /\ ~recv'["client"]
    <3>1. stack' \in Seq(Frame)
      BY <2>5 DEF Grown
    <3>2. QED
      BY <1>1, <1>4, <1>6, <2>1, <2>2, <3>1, MovedData DEF OrderInv
  <2>9. Pumped'
    BY <2>7, <2>8 DEF Pumped
  <2>10. Counted'
    <3>1. /\ 2 \in 1 .. Len(xs) /\ xs[2] = f /\ xs[2].fn = "completed"
          /\ \A i \in 1 .. Len(xs) : i # 2 => xs[i].fn # "completed"
      BY <1>5, <2>0, <2>3
    <3>2. /\ \A h \in Height : Call(h).fn = "completed" => h \in Height' /\ Call(h)' = Call(h)
          /\ \E g \in Height' :
               /\ Call(g)' = xs[2]
               /\ \A h \in Height' : Call(h)'.fn = "completed" =>
                    h = g \/ (h \in Height /\ Call(h)' = Call(h))
      BY <1>1, <2>4, <3>1, Transferred DEF Pumping
    <3>3. PICK g \in Height' :
            /\ Call(g)' = Of("completed", Peer("client"), Head(sendq[Peer("client")]))
            /\ \A h \in Height' : Call(h)'.fn = "completed" =>
                 h = g \/ (h \in Height /\ Call(h)' = Call(h))
      BY <1>4, <2>0, <3>1, <3>2
    <3>4. QED
      BY <1>1, <1>2, <1>4, <1>6, <2>1, <2>2, <3>2, <3>3, MovedCounted DEF OrderInv
  <2>11. QED
    BY <1>1, <1>2, <2>1, <2>7, <2>8, <2>9, <2>10, CalmStep
<1>7. CASE ~(recv["client"] /\ sendq["server"] # <<>>)
  <2>1. /\ UNCHANGED <<sendq, recv, got>>
        /\ stack' = <<F("pump2", "server")>> \o Pop
    BY <1>4, <1>7 DEF Pump1, Transfer
  <2>2a. <<F("pump2", "server")>> \in Seq(Frame)
    BY <1>5
  <2>2. PICK xs \in Seq(Frame) : xs = <<F("pump2", "server")>>
    BY <2>2a
  <2>3. Grown(Len(stack) - 1, xs)
    BY <1>1, <2>1, <2>2, Replaced
  <2>4. \A i \in 1 .. Len(xs) : xs[i].fn \notin ClosingFn
    BY <1>5, <2>2 DEF ClosingFn
  <2>5. Calm' /\ Runs("pump2")'
    <3>1. Calm' /\ Runs(xs[1].fn)'
      <4>1. 1 \in 1 .. Len(xs)
        BY <2>2
      <4>2. QED
        BY <1>1, <1>2, <1>3, <2>3, <2>4, <4>1, CalmGrown
    <3>2. xs[1].fn = "pump2"
      BY <1>5, <2>2
    <3>3. QED
      BY <3>1, <3>2 DEF Runs
  <2>6. TypeOK'
    BY <1>1, <2>1, <2>3 DEF TypeOK, Grown
  <2>7. Queues' /\ InOrder'
    BY <1>1, <1>2, <2>1 DEF OrderInv, Queues, InOrder
  <2>10. Counted'
    <3>1. \A i \in 1 .. Len(xs) : xs[i].fn # "completed"
      BY <1>5, <2>2
    <3>2. stack' = xs \o Pop /\ Top.fn \in Pumping /\ Counted
      BY <1>1, <2>1, <2>2 DEF OrderInv, Pumping
    <3>3. QED
      BY <1>1, <1>2, <2>1, <2>6, <3>1, <3>2, PumpReturns
  <2>8. Pumped'
    BY <1>7, <2>1, <2>5 DEF Pumped
  <2>9. QED
    BY <1>1, <1>2, <2>1, <2>5, <2>6, <2>7, <2>8, <2>10, CalmStep
<1>8. QED
  BY <1>6, <1>7

LEMMA Pump2Step ==
  ASSUME IInv, Pump2
  PROVE  IInv'
<1>1. /\ TypeOK /\ OrderInv /\ stack # <<>> /\ Top.fn = "pump2" /\ ~freed
      /\ UNCHANGED <<sideClosed, freed, sent, done>>
  BY DEF IInv, Pump2, At
<1>2. /\ Calm /\ AnyClosed' = AnyClosed
      /\ AnyClosed => \A s \in Side : ~recv[s] /\ sendq[s] = <<>>
  BY <1>1, PumpOnTop DEF Pumping, AnyClosed
<1>3. /\ Len(stack) \in Nat /\ Len(stack) - 1 \in Nat /\ Len(stack) - 1 <= Len(stack)
      /\ Pop \in Seq(Frame)
  BY <1>1, StackFacts, HeadTailProperties DEF Pop, TypeOK
<1>4. /\ "client" \in Side /\ "server" \in Side
      /\ Peer("client") = "server" /\ Peer("server") = "client"
      /\ Side = {"client", "server"}
  BY DEF Side, Peer
<1>5. F("user", "server") \in Frame /\ F("user", "server").fn = "user"
  BY <1>4, FrameType DEF F, Of, Fn
<1>6. ASSUME NEW xs \in Seq(Frame), stack' = xs \o Pop,
             \A i \in 1 .. Len(xs) : xs[i].fn \notin ClosingFn
      PROVE  Calm' /\ (Runs("pump1") => Runs("pump1")') /\ stack' \in Seq(Frame)
  <2>1. Grown(Len(stack) - 1, xs)
    BY <1>1, <1>6, Replaced
  <2>2. Calm' /\ (Runs("pump1") => Runs("pump1")')
    <3>1. "pump1" \in Fn /\ Top.fn # "pump1"
      BY <1>1 DEF Fn
    <3>2. QED
      BY <1>1, <1>2, <1>3, <1>6, <2>1, <3>1, CalmGrown
  <2>3. QED
    BY <2>1, <2>2 DEF Grown
<1>7. CASE recv["server"] /\ sendq["client"] # <<>>
  <2>1. ~AnyClosed
    BY <1>2, <1>4, <1>7
  <2>0. PICK f \in Frame : /\ f = Of("completed", "client", Head(sendq["client"]))
                           /\ f.fn = "completed"
    BY <1>1, <1>4, <1>7, HeadIsMsg, FrameOf DEF Fn, Of
  <2>2. /\ Moved("server")
        /\ stack' = <<F("user", "server"), f>> \o Pop
    BY <1>1, <1>4, <1>7, <2>0 DEF Pump2, Transfer, Moved
  <2>3a. <<F("user", "server"), f>> \in Seq(Frame)
    BY <1>5
  <2>3b. PICK xs \in Seq(Frame) : xs = <<F("user", "server"), f>>
    BY <2>3a
  <2>3. Calm' /\ (Runs("pump1") => Runs("pump1")') /\ stack' \in Seq(Frame)
    <3>2. \A i \in 1 .. Len(xs) : xs[i].fn \notin ClosingFn
      BY <1>5, <2>0, <2>3b DEF ClosingFn
    <3>3. QED
      BY <1>6, <2>2, <2>3b, <3>2
  <2>4. /\ TypeOK' /\ Queues' /\ InOrder'
        /\ ~recv'["server"] /\ recv'["client"] = recv["client"] /\ sendq'["server"] = sendq["server"]
    BY <1>1, <1>4, <1>7, <2>1, <2>2, <2>3, MovedData DEF OrderInv
  <2>5. Pumped'
    BY <1>1, <2>1, <2>3, <2>4 DEF Pumped, OrderInv
  <2>6. Counted'
    <3>1. /\ 2 \in 1 .. Len(xs) /\ xs[2] = f /\ xs[2].fn = "completed" /\ stack' = xs \o Pop
          /\ \A i \in 1 .. Len(xs) : i # 2 => xs[i].fn # "completed"
      BY <1>5, <2>0, <2>2, <2>3b
    <3>2. /\ \A h \in Height : Call(h).fn = "completed" => h \in Height' /\ Call(h)' = Call(h)
          /\ \E g \in Height' :
               /\ Call(g)' = xs[2]
               /\ \A h \in Height' : Call(h)'.fn = "completed" =>
                    h = g \/ (h \in Height /\ Call(h)' = Call(h))
      BY <1>1, <3>1, Transferred DEF Pumping
    <3>3. PICK g \in Height' :
            /\ Call(g)' = Of("completed", Peer("server"), Head(sendq[Peer("server")]))
            /\ \A h \in Height' : Call(h)'.fn = "completed" =>
                 h = g \/ (h \in Height /\ Call(h)' = Call(h))
      BY <1>4, <2>0, <3>1, <3>2
    <3>4. QED
      BY <1>1, <1>2, <1>4, <1>7, <2>1, <2>2, <3>2, <3>3, MovedCounted DEF OrderInv
  <2>7. QED
    BY <1>1, <1>2, <2>1, <2>3, <2>4, <2>5, <2>6, CalmStep
<1>8. CASE ~(recv["server"] /\ sendq["client"] # <<>>)
  <2>1. /\ UNCHANGED <<sendq, recv, got>> /\ stack' = Pop
    BY <1>4, <1>8 DEF Pump2, Transfer
  <2>2. Calm' /\ (Runs("pump1") => Runs("pump1")') /\ stack' \in Seq(Frame)
    <3>1. <<>> \in Seq(Frame)
      OBVIOUS
    <3>2. PICK xs \in Seq(Frame) : xs = <<>>
      BY <3>1
    <3>3. stack' = xs \o Pop
      BY <1>3, <2>1, <3>2, ConcatEmptySeq
    <3>4. \A i \in 1 .. Len(xs) : xs[i].fn \notin ClosingFn
      BY <3>2
    <3>5. QED
      BY <1>6, <3>3, <3>4
  <2>3. TypeOK'
    BY <1>1, <2>1, <2>2 DEF TypeOK
  <2>4. Queues' /\ InOrder'
    BY <1>1, <1>2, <2>1 DEF OrderInv, Queues, InOrder
  <2>7. Counted'
    <3>1. <<>> \in Seq(Frame) /\ stack' = <<>> \o Pop /\ Len(<<>>) = 0
      BY <1>3, <2>1, ConcatEmptySeq
    <3>2. \A i \in 1 .. Len(<<>>) : <<>>[i].fn # "completed"
      BY <3>1
    <3>3. QED
      BY <1>1, <1>2, <2>1, <2>3, <3>1, <3>2, PumpReturns DEF OrderInv, Pumping
  <2>5. Pumped'
    BY <1>1, <1>2, <1>8, <2>1, <2>2 DEF Pumped, OrderInv
  <2>6. QED
    BY <1>1, <1>2, <2>1, <2>2, <2>3, <2>4, <2>5, <2>7, CalmStep
<1>9. QED
  BY <1>7, <1>8


(* A send or a receive that is accepted starts the pump. *)
LEMMA StartsPump ==
  ASSUME IInv, ~AnyClosed, NEW s \in Side, stack' = <<F("pump1", s)>> \o stack
  PROVE  /\ Calm /\ Calm' /\ Runs("pump1")' /\ stack' \in Seq(Frame) /\ ~freed
         /\ Runs("pump2") => Runs("pump2")'
         /\ \A h \in Height : h \in Height' /\ Call(h)' = Call(h)
         /\ \A h \in Height' : Call(h)'.fn = "completed" => h \in Height /\ Call(h)' = Call(h)
<1>1. TypeOK /\ Len(stack) \in Nat /\ Len(stack) <= Len(stack)
  BY StackFacts DEF IInv
<1>2. Calm /\ ~freed
  BY DEF IInv, OrderInv, Nested, Calm, Released, AllClosed, AnyClosed, Side
<1>3. F("pump1", s) \in Frame /\ F("pump1", s).fn = "pump1"
  BY FrameType DEF F, Of, Fn
<1>4. <<F("pump1", s)>> \in Seq(Frame)
  BY <1>3
<1>5. PICK xs \in Seq(Frame) : xs = <<F("pump1", s)>>
  BY <1>4
<1>6. Grown(Len(stack), xs)
  BY <1>1, <1>5, Pushed
<1>7. \A i \in 1 .. Len(xs) : xs[i].fn \notin ClosingFn
  BY <1>3, <1>5 DEF ClosingFn
<1>8. 1 \in 1 .. Len(xs) /\ xs[1].fn = "pump1" /\ "pump2" \in Fn
  BY <1>3, <1>5 DEF Fn
<1>9. Calm' /\ Runs(xs[1].fn)' /\ (Runs("pump2") => Runs("pump2")')
  BY <1>1, <1>2, <1>6, <1>7, <1>8, CalmGrown
<1>10. Runs("pump1")'
  BY <1>8, <1>9 DEF Runs
<1>11. \A h \in Height : h < Len(stack)
  BY <1>1 DEF Height
<1>12. \A i \in 1 .. Len(xs) : xs[i].fn # "completed"
  BY <1>3, <1>5
<1>13. /\ \A h \in Height : h \in Height' /\ Call(h)' = Call(h)
       /\ \A h \in Height' : Call(h)'.fn = "completed" => h \in Height /\ Call(h)' = Call(h)
  <2>1. PICK b \in Nat : b = Len(stack)
    BY <1>1
  <2>2. /\ \A h \in Height : h < b => h \in Height' /\ Call(h)' = Call(h)
        /\ \A h \in Height' : \/ h < b /\ h \in Height /\ Call(h)' = Call(h)
                              \/ \E i \in 1 .. Len(xs) :
                                   /\ h = b + Len(xs) - i /\ h >= b /\ Call(h)' = xs[i]
    BY <1>1, <1>6, <2>1, GrownRuns
  <2>3. QED
    BY <1>11, <1>12, <2>1, <2>2
<1>14. QED
  BY <1>2, <1>6, <1>9, <1>10, <1>13 DEF Grown

LEMMA SendStep ==
  ASSUME IInv, NEW s \in Side, Send(s)
  PROVE  IInv'
<1>1. CASE AnyClosed
  <2>1. stack' = <<F("user", s)>> \o stack /\ UNCHANGED <<connVars, history>>
    BY <1>1 DEF Send, connVars, history
  <2>2. QED
    BY <2>1, RefusedStep
<1>2. CASE ~AnyClosed
  <2>1. /\ stack' = <<F("pump1", s)>> \o stack /\ sent[s] < MaxMsg
        /\ sendq' = [sendq EXCEPT ![s] = Append(@, sent[s] + 1)]
        /\ sent' = [sent EXCEPT ![s] = @ + 1]
        /\ UNCHANGED <<sideClosed, recv, freed, got, done>>
    BY <1>2 DEF Send
  <2>2. /\ Calm /\ Calm' /\ Runs("pump1")' /\ stack' \in Seq(Frame) /\ ~freed
    BY <1>2, <2>1, StartsPump
  <2>3. TypeOK /\ OrderInv
    BY DEF IInv
  <2>4. /\ sendq[s] \in Seq(Msg) /\ sent[s] \in Nat /\ Newest(sendq[s], sent[s])
        /\ sent[s] + 1 \in Msg /\ sent[s] + 1 \in 0 .. MaxMsg
    BY <2>1, <2>3, PipeAssumption DEF TypeOK, OrderInv, Queues, Newest, Msg, PipeAssumption
  <2>5. /\ Append(sendq[s], sent[s] + 1) \in Seq(Msg)
        /\ Len(Append(sendq[s], sent[s] + 1)) = Len(sendq[s]) + 1
        /\ Newest(Append(sendq[s], sent[s] + 1), sent[s] + 1)
        /\ Len(sendq[s]) \in Nat
    BY <2>4, NewestAppend, LenProperties
  <2>6. /\ sendq'[s] = Append(sendq[s], sent[s] + 1) /\ sent'[s] = sent[s] + 1
        /\ \A x \in Side : x # s => sendq'[x] = sendq[x] /\ sent'[x] = sent[x]
    BY <2>1, <2>3 DEF TypeOK
  <2>7. TypeOK'
    <3>1. sendq' \in [Side -> Seq(Msg)] /\ sent' \in [Side -> 0 .. MaxMsg]
      BY <2>1, <2>3, <2>4, <2>5 DEF TypeOK, Msg
    <3>2. QED
      BY <2>1, <2>2, <2>3, <3>1 DEF TypeOK, Msg
  <2>8. Len(sendq'[s]) = Len(sendq[s]) + 1
    BY <2>5, <2>6
  <2>9. \A x \in Side : sent'[x] - Len(sendq'[x]) = sent[x] - Len(sendq[x])
    <3>1. sent'[s] - Len(sendq'[s]) = sent[s] - Len(sendq[s])
      BY <2>4, <2>5, <2>6, <2>8
    <3>2. QED
      BY <2>6, <3>1
  <2>10. Queues'
    <3>1. \A x \in Side : Newest(sendq[x], sent[x])
      BY <2>3 DEF OrderInv, Queues, Newest
    <3>2. \A x \in Side : Newest(sendq'[x], sent'[x])
      BY <2>5, <2>6, <3>1
    <3>3. \A x \in Side : /\ Len(got'[Peer(x)]) = sent'[x] - Len(sendq'[x])
                          /\ Len(got'[Peer(x)]) <= sent'[x] - Len(sendq'[x])
      BY <1>2, <2>1, <2>3, <2>9 DEF OrderInv, Queues
    <3>4. QED
      BY <3>2, <3>3 DEF Queues, Newest
  <2>11. InOrder'
    <3>1. \A x \in Side : sent[x] <= sent'[x] /\ sent[x] \in Nat /\ sent'[x] \in Nat
      <4>1. sent'[s] \in Nat /\ sent[s] <= sent'[s]
        BY <2>4, <2>6
      <4>2. \A x \in Side : sent[x] \in Nat
        BY <2>3 DEF TypeOK
      <4>3. QED
        BY <2>6, <4>1, <4>2
    <3>2. \A x \in Side : got[x] \in Seq(Msg) /\ Len(got[x]) \in Nat
      BY <2>3, LenProperties DEF TypeOK, Msg
    <3>3. ASSUME NEW x \in Side
          PROVE  Len(got'[x]) <= sent'[Peer(x)]
      <4>1. Len(got[x]) <= sent[Peer(x)] /\ Peer(x) \in Side
        BY <2>3, Peers DEF OrderInv, InOrder
      <4>2. QED
        BY <2>1, <3>1, <3>2, <4>1
    <3>4. QED
      BY <2>1, <2>3, <3>3 DEF OrderInv, InOrder
  <2>12. Counted'
    <3>1. /\ \A h \in Height : h \in Height' /\ Call(h)' = Call(h)
          /\ \A h \in Height' : Call(h)'.fn = "completed" => h \in Height /\ Call(h)' = Call(h)
      BY <1>2, <2>1, StartsPump
    <3>2. \A x \in Side : sent[x] <= sent'[x]
      <4>1. sent[s] <= sent'[s]
        BY <2>4, <2>6
      <4>2. \A x \in Side : sent[x] \in Nat
        BY <2>3 DEF TypeOK
      <4>3. \A x \in Side : x # s => sent[x] <= sent'[x]
        BY <2>6, <4>2
      <4>4. QED
        BY <4>1, <4>3
    <3>3. QED
      BY <1>2, <2>1, <2>3, <2>7, <3>1, <3>2, SameCounted DEF OrderInv
  <2>13. Pumped'
    BY <2>2 DEF Pumped
  <2>14. QED
    BY <1>2, <2>1, <2>2, <2>7, <2>10, <2>11, <2>12, <2>13, CalmStep
<1>3. QED
  BY <1>1, <1>2

LEMMA ReceiveStep ==
  ASSUME IInv, NEW s \in Side, Receive(s)
  PROVE  IInv'
<1>1. CASE recv[s] \/ AnyClosed
  <2>1. stack' = <<F("user", s)>> \o stack /\ UNCHANGED <<connVars, history>>
    BY <1>1 DEF Receive, connVars, history
  <2>2. QED
    BY <2>1, RefusedStep
<1>2. CASE ~(recv[s] \/ AnyClosed)
  <2>1. /\ stack' = <<F("pump1", s)>> \o stack
        /\ recv' = [recv EXCEPT ![s] = TRUE]
        /\ UNCHANGED <<sideClosed, sendq, freed, sent, got, done>>
    BY <1>2 DEF Receive, history
  <2>2. /\ Calm /\ Calm' /\ Runs("pump1")' /\ stack' \in Seq(Frame) /\ ~freed
    BY <1>2, <2>1, StartsPump
  <2>3. TypeOK'
    BY <2>1, <2>2 DEF IInv, TypeOK
  <2>4. Queues' /\ InOrder'
    BY <1>2, <2>1 DEF IInv, OrderInv, Queues, InOrder
  <2>6. Counted'
    <3>1. /\ \A h \in Height : h \in Height' /\ Call(h)' = Call(h)
          /\ \A h \in Height' : Call(h)'.fn = "completed" => h \in Height /\ Call(h)' = Call(h)
      BY <1>2, <2>1, StartsPump
    <3>2. \A x \in Side : sent[x] <= sent'[x]
      BY <2>1 DEF IInv, TypeOK
    <3>3. QED
      BY <2>1, <2>3, <3>1, <3>2, SameCounted DEF IInv, OrderInv, AnyClosed
  <2>5. Pumped'
    BY <2>2 DEF Pumped
  <2>7. QED
    BY <1>2, <2>1, <2>2, <2>3, <2>4, <2>5, <2>6, CalmStep
<1>3. QED
  BY <1>1, <1>2



-----------------------------------------------------------------------------
(* Steps of a close.                                                       *)

LEMMA ClosingOnTop ==
  ASSUME IInv, stack # <<>>, Top.fn \in ClosingFn
  PROVE  /\ AnyClosed /\ TypeOK /\ OrderInv /\ Top \in Frame /\ Top.side \in Side
         /\ Len(stack) \in Nat /\ Len(stack) - 1 \in Height /\ Len(stack) - 1 \in Nat
         /\ Call(Len(stack) - 1) = Top /\ RunsOn(Top.fn, Top.side) /\ Runs(Top.fn)
<1>1. /\ TypeOK /\ OrderInv /\ Len(stack) \in Nat /\ Len(stack) - 1 \in Height
      /\ Call(Len(stack) - 1) = Top /\ Top \in Frame
  BY StackFacts DEF IInv
<1>2. Top.side \in Side
  BY <1>1 DEF Frame
<1>3. Len(stack) - 1 \in Nat
  BY <1>1 DEF Height
<1>4. AnyClosed
  BY <1>1 DEF OrderInv, Nested
<1>5. RunsOn(Top.fn, Top.side) /\ Runs(Top.fn)
  BY <1>1 DEF RunsOn, Runs
<1>6. QED
  BY <1>1, <1>2, <1>3, <1>4, <1>5

(* The topmost call of a close returns, and may call users back. *)
LEMMA ClosingShape ==
  ASSUME IInv, stack # <<>>, Top.fn \in ClosingFn, OnlyUsers(Len(stack) - 1),
         UNCHANGED sideClosed
  PROVE  /\ Nested' /\ (OneClosing => OneClosing') /\ Pumped'
         /\ AnyClosed /\ AnyClosed' /\ AllClosed' = AllClosed
         /\ \A fn \in Fn : fn # "user" =>
              /\ Runs(fn) /\ Top.fn # fn => Runs(fn)'
              /\ \A s \in Side : /\ RunsOn(fn, s)' => RunsOn(fn, s)
                                 /\ RunsOn(fn, s) /\ (Top.fn # fn \/ Top.side # s)
                                      => RunsOn(fn, s)'
<1>1. /\ AnyClosed /\ TypeOK /\ OrderInv /\ Len(stack) - 1 \in Nat
      /\ Len(stack) \in Nat
  BY ClosingOnTop
<1>2. AnyClosed' = AnyClosed /\ AllClosed' = AllClosed
  BY DEF AnyClosed, AllClosed
<1>3. Nested'
  BY <1>1, <1>2, UsersNested DEF OrderInv
<1>4. OneClosing => OneClosing'
  BY <1>1, UsersOne
<1>5. Pumped'
  BY <1>1, <1>2 DEF Pumped
<1>6. ASSUME NEW fn \in Fn, fn # "user"
      PROVE  /\ Runs(fn) /\ Top.fn # fn => Runs(fn)'
             /\ \A s \in Side : /\ RunsOn(fn, s)' => RunsOn(fn, s)
                                /\ RunsOn(fn, s) /\ (Top.fn # fn \/ Top.side # s)
                                     => RunsOn(fn, s)'
  BY <1>1, <1>6, UsersRuns
<1>7. QED
  BY <1>1, <1>2, <1>3, <1>4, <1>5, <1>6

LEMMA ClosingRecvStep ==
  ASSUME IInv, ClosingRecv
  PROVE  IInv'
<1>1. /\ stack # <<>> /\ Top.fn = "closingRecv" /\ ~freed
      /\ recv' = [recv EXCEPT ![Top.side] = FALSE]
      /\ stack' = (IF recv[Top.side] THEN <<F("user", Top.side)>> ELSE <<>>) \o Pop
      /\ UNCHANGED <<sideClosed, sendq, freed, sent, got, done>>
  BY DEF ClosingRecv, At, history
<1>2. /\ AnyClosed /\ TypeOK /\ OrderInv /\ Top.side \in Side
      /\ Len(stack) \in Nat /\ Len(stack) - 1 \in Nat
  BY <1>1, ClosingOnTop DEF ClosingFn
<1>3. PICK s \in Side : s = Top.side
  BY <1>2
<1>4. OnlyUsers(Len(stack) - 1)
  <2>1. PICK xs \in Seq(Frame) : /\ stack' = xs \o Pop
                                 /\ \A i \in 1 .. Len(xs) : xs[i].fn = "user"
    <3>1. CASE recv[s]
      BY <1>1, <1>3, <3>1, UserFrames
    <3>2. CASE ~recv[s]
      <4>1. <<>> \in Seq(Frame) /\ \A i \in 1 .. Len(<<>>) : <<>>[i].fn = "user"
        OBVIOUS
      <4>2. QED
        BY <1>1, <1>3, <3>2, <4>1
    <3>3. QED
      BY <3>1, <3>2
  <2>2. Grown(Len(stack) - 1, xs)
    BY <1>1, <1>2, <2>1, Replaced
  <2>3. Len(stack) - 1 <= Len(stack)
    BY <1>2
  <2>4. QED
    BY <1>2, <2>1, <2>2, <2>3, UsersOnTop
<1>5. /\ Nested' /\ (OneClosing => OneClosing') /\ Pumped'
      /\ AnyClosed' /\ AllClosed' = AllClosed
      /\ \A fn \in Fn : fn # "user" =>
           /\ Runs(fn) /\ Top.fn # fn => Runs(fn)'
           /\ \A x \in Side : /\ RunsOn(fn, x)' => RunsOn(fn, x)
                              /\ RunsOn(fn, x) /\ (Top.fn # fn \/ Top.side # x)
                                   => RunsOn(fn, x)'
  BY <1>1, <1>4, ClosingShape DEF ClosingFn
<1>6. TypeOK'
  BY <1>1, <1>2, <1>4 DEF TypeOK, OnlyUsers
<1>7. Queues' /\ InOrder'
  BY <1>1, <1>2, <1>5 DEF OrderInv, Queues, InOrder
<1>8. Closed'
  <2>1. \A x \in Side : /\ RunsOn("closingRecv", x) /\ x # s => RunsOn("closingRecv", x)'
                        /\ RunsOn("drain", x) => RunsOn("drain", x)'
    BY <1>1, <1>3, <1>5 DEF Fn
  <2>2. \A x \in Side : recv'[x] => recv[x] /\ x # s
    BY <1>1, <1>2, <1>3 DEF TypeOK
  <2>3. QED
    BY <1>1, <1>2, <2>1, <2>2 DEF OrderInv, Closed
<1>9. Released'
  <2>1. Runs("closingEnd") => Runs("closingEnd")'
    BY <1>1, <1>5 DEF Fn
  <2>2. QED
    BY <1>1, <1>5, <2>1 DEF IInv, Released
<1>10. Reported => Reported'
  <2>1. \A x \in Side : RunsOn("drained", x)' <=> RunsOn("drained", x)
    BY <1>1, <1>5 DEF Fn
  <2>2. QED
    BY <1>1, <1>2, <1>4, <2>1, SameReported
<1>11. Counted'
  BY <1>1, <1>2, <1>4, <1>5, <1>6, UsersCounted DEF OrderInv
<1>12. QED
  BY <1>5, <1>6, <1>7, <1>8, <1>9, <1>10, <1>11 DEF IInv, OrderInv, CloseInv

LEMMA ClosingEndStep ==
  ASSUME IInv, ClosingEnd
  PROVE  IInv'
<1>1. /\ stack # <<>> /\ Top.fn = "closingEnd" /\ ~freed
      /\ freed' = AllClosed /\ stack' = Pop
      /\ UNCHANGED <<sideClosed, recv, sendq, sent, got, done>>
  BY DEF ClosingEnd, At, history, AllClosed
<1>2. /\ AnyClosed /\ TypeOK /\ OrderInv
      /\ Len(stack) \in Nat /\ Len(stack) - 1 \in Nat
      /\ Len(stack) - 1 \in Height /\ Call(Len(stack) - 1) = Top
  BY <1>1, ClosingOnTop DEF ClosingFn
<1>3. OnlyUsers(Len(stack) - 1)
  BY <1>1, <1>2, ReturnFacts
<1>5. AnyClosed' = AnyClosed /\ AllClosed' = AllClosed
  BY <1>1 DEF AnyClosed, AllClosed
<1>6. Nested'
  BY <1>2, <1>3, <1>5, UsersNested DEF OrderInv
<1>7. OneClosing => OneClosing'
  BY <1>2, <1>3, UsersOne
<1>8. \A fn \in Fn : fn # "user" /\ fn # "closingEnd" =>
        \A x \in Side : RunsOn(fn, x)' <=> RunsOn(fn, x)
  BY <1>1, <1>2, <1>3, UsersRuns
<1>9. TypeOK'
  BY <1>1, <1>2, <1>3 DEF TypeOK, OnlyUsers, AllClosed
<1>10. Queues' /\ InOrder' /\ Pumped'
  BY <1>1, <1>2, <1>5 DEF OrderInv, Queues, InOrder, Pumped
<1>11. Closed'
  <2>1. \A x \in Side : /\ RunsOn("closingRecv", x) => RunsOn("closingRecv", x)'
                        /\ RunsOn("drain", x) => RunsOn("drain", x)'
    BY <1>8 DEF Fn
  <2>2. QED
    BY <1>1, <1>2, <2>1 DEF OrderInv, Closed
<1>12. Released'
  BY <1>1, <1>5 DEF Released
<1>13. Reported => Reported'
  <2>1. \A x \in Side : RunsOn("drained", x)' <=> RunsOn("drained", x)
    BY <1>8 DEF Fn
  <2>2. QED
    BY <1>1, <1>2, <1>3, <2>1, SameReported
<1>14. Counted'
  BY <1>1, <1>2, <1>3, <1>5, <1>9, UsersCounted DEF OrderInv
<1>15. QED
  BY <1>5, <1>6, <1>7, <1>9, <1>10, <1>11, <1>12, <1>13, <1>14 DEF IInv, OrderInv, CloseInv


(* The loop over a list stands alone: the send it is completing is the     *)
(* only one of the side.                                                   *)
LEMMA OneDrained ==
  ASSUME TypeOK, Nested, OneClosing, NEW s \in Side,
         NEW d \in Height, Call(d).fn = "drain", Call(d).side = s
  PROVE  \A h \in Height : Call(h).fn = "drained" /\ Call(h).side = s => h = d + 1
<1>1. ASSUME NEW h \in Height, Call(h).fn = "drained", Call(h).side = s
      PROVE  h = d + 1
  <2>1. h - 1 \in Height /\ Call(h - 1).fn = "drain" /\ Call(h - 1).side = s
    BY <1>1 DEF Nested
  <2>2. h - 1 = d
    BY <2>1 DEF OneClosing
  <2>3. h \in Int /\ d \in Int
    BY StackFacts DEF Height
  <2>4. QED
    BY <2>2, <2>3
<1>2. QED
  BY <1>1

LEMMA DrainEndStep ==
  ASSUME IInv, Drain, sendq[Top.side] = <<>>
  PROVE  IInv'
<1>1. /\ stack # <<>> /\ Top.fn = "drain" /\ ~freed /\ stack' = Pop
      /\ UNCHANGED <<sideClosed, recv, sendq, freed, sent, got, done>>
  BY DEF Drain, At, connVars
<1>2. /\ AnyClosed /\ TypeOK /\ OrderInv /\ Top.side \in Side
      /\ Len(stack) \in Nat /\ Len(stack) - 1 \in Nat
  BY <1>1, ClosingOnTop DEF ClosingFn
<1>3. PICK s \in Side : s = Top.side
  BY <1>2
<1>4. OnlyUsers(Len(stack) - 1)
  BY <1>1, <1>2, ReturnFacts
<1>5. /\ Nested' /\ (OneClosing => OneClosing') /\ Pumped'
      /\ AnyClosed' /\ AllClosed' = AllClosed
      /\ \A fn \in Fn : fn # "user" =>
           /\ Runs(fn) /\ Top.fn # fn => Runs(fn)'
           /\ \A x \in Side : /\ RunsOn(fn, x)' => RunsOn(fn, x)
                              /\ RunsOn(fn, x) /\ (Top.fn # fn \/ Top.side # x)
                                   => RunsOn(fn, x)'
  BY <1>1, <1>4, ClosingShape DEF ClosingFn
<1>6. TypeOK'
  BY <1>1, <1>2, <1>4 DEF TypeOK, OnlyUsers
<1>7. Queues' /\ InOrder'
  BY <1>1, <1>2, <1>5 DEF OrderInv, Queues, InOrder
<1>8. Closed'
  <2>1. \A x \in Side : /\ RunsOn("closingRecv", x) => RunsOn("closingRecv", x)'
                        /\ RunsOn("drain", x) /\ x # s => RunsOn("drain", x)'
    BY <1>1, <1>3, <1>5 DEF Fn
  <2>2. sendq[s] = <<>>
    BY <1>3
  <2>3. QED
    BY <1>1, <1>2, <2>1, <2>2 DEF OrderInv, Closed
<1>9. Released'
  <2>1. Runs("closingEnd") => Runs("closingEnd")'
    BY <1>1, <1>5 DEF Fn
  <2>2. QED
    BY <1>1, <1>5, <2>1 DEF IInv, Released
<1>10. Reported => Reported'
  <2>1. \A x \in Side : RunsOn("drained", x)' <=> RunsOn("drained", x)
    BY <1>1, <1>5 DEF Fn
  <2>2. QED
    BY <1>1, <1>2, <1>4, <2>1, SameReported
<1>11. Counted'
  BY <1>1, <1>2, <1>4, <1>5, <1>6, UsersCounted DEF OrderInv
<1>12. QED
  BY <1>5, <1>6, <1>7, <1>8, <1>9, <1>10, <1>11 DEF IInv, OrderInv, CloseInv

LEMMA DrainedStep ==
  ASSUME IInv, Drained
  PROVE  IInv'
<1>0. PICK s \in Side : s = Top.side
  BY ClosingOnTop DEF Drained, At, ClosingFn
<1>1. PICK k \in 1 .. Len(sendq[s]) :
        /\ s = Top.side /\ sendq[s][k] = Top.msg
        /\ sendq' = [sendq EXCEPT ![s] = SubSeq(@, k + 1, Len(@))]
  BY <1>0 DEF Drained
<1>2. /\ stack # <<>> /\ Top.fn = "drained" /\ ~freed /\ stack' = Pop
      /\ UNCHANGED <<sideClosed, recv, freed, sent, got, done>>
  BY DEF Drained, At, history
<1>3. /\ AnyClosed /\ TypeOK /\ OrderInv
      /\ Len(stack) \in Nat /\ Len(stack) - 1 \in Nat
      /\ Len(stack) - 1 \in Height /\ Call(Len(stack) - 1) = Top
  BY <1>2, ClosingOnTop DEF ClosingFn
<1>4. OnlyUsers(Len(stack) - 1)
  BY <1>2, <1>3, ReturnFacts
<1>5. /\ Nested' /\ (OneClosing => OneClosing') /\ Pumped'
      /\ AnyClosed' /\ AllClosed' = AllClosed
      /\ \A fn \in Fn : fn # "user" =>
           /\ Runs(fn) /\ Top.fn # fn => Runs(fn)'
           /\ \A x \in Side : /\ RunsOn(fn, x)' => RunsOn(fn, x)
                              /\ RunsOn(fn, x) /\ (Top.fn # fn \/ Top.side # x)
                                   => RunsOn(fn, x)'
  BY <1>2, <1>4, ClosingShape DEF ClosingFn
<1>6. PICK t : t = SubSeq(sendq[s], k + 1, Len(sendq[s]))
  OBVIOUS
<1>7. /\ sendq[s] \in Seq(Msg) /\ sent[s] \in Nat /\ Newest(sendq[s], sent[s])
      /\ Len(sendq[s]) \in Nat
  BY <1>3, LenProperties DEF TypeOK, OrderInv, Queues, Newest, Msg
<1>8. t \in Seq(Msg) /\ Newest(t, sent[s]) /\ (k = 1 => Len(t) = Len(sendq[s]) - 1)
  BY <1>1, <1>6, <1>7, NewestSuffix
<1>9. sendq'[s] = t /\ \A x \in Side : x # s => sendq'[x] = sendq[x]
  BY <1>1, <1>3, <1>6 DEF TypeOK
<1>10. TypeOK'
  <2>1. sendq' \in [Side -> Seq(Msg)]
    BY <1>1, <1>3, <1>6, <1>8 DEF TypeOK, Msg
  <2>2. QED
    BY <1>2, <1>3, <1>4, <2>1 DEF TypeOK, OnlyUsers, Msg
<1>11. Queues'
  <2>1. \A x \in Side : Newest(sendq[x], sent[x])
    BY <1>3 DEF OrderInv, Queues, Newest
  <2>2. \A x \in Side : Newest(sendq'[x], sent'[x])
    BY <1>2, <1>8, <1>9, <2>1
  <2>3. \A x \in Side : Len(got'[Peer(x)]) <= sent'[x] - Len(sendq'[x])
    <3>1. Len(t) \in Nat /\ Len(t) <= Len(sendq[s])
      BY <1>1, <1>6, <1>7, SuffixShorter
    <3>2. ASSUME NEW x \in Side
          PROVE  Len(got'[Peer(x)]) <= sent'[x] - Len(sendq'[x])
      <4>1. /\ Len(got[Peer(x)]) <= sent[x] - Len(sendq[x]) /\ Len(got[Peer(x)]) \in Nat
            /\ sent[x] \in Nat /\ Len(sendq[x]) \in Nat
        BY <1>3, Peers, LenProperties DEF OrderInv, Queues, TypeOK
      <4>2. Len(sendq'[x]) \in Nat /\ Len(sendq'[x]) <= Len(sendq[x])
        BY <1>9, <3>1, <4>1
      <4>3. QED
        BY <1>2, <4>1, <4>2
    <3>3. QED
      BY <3>2
  <2>4. QED
    BY <1>5, <2>2, <2>3 DEF Queues, Newest
<1>12. InOrder'
  BY <1>2, <1>3 DEF OrderInv, InOrder
<1>13. Closed'
  <2>1. \A x \in Side : /\ RunsOn("closingRecv", x) => RunsOn("closingRecv", x)'
                        /\ RunsOn("drain", x) => RunsOn("drain", x)'
    BY <1>2, <1>5 DEF Fn
  <2>2. RunsOn("drain", s)
    BY <1>1, <1>2, <1>3 DEF OrderInv, Nested, RunsOn
  <2>3. QED
    BY <1>2, <1>3, <1>9, <2>1, <2>2 DEF OrderInv, Closed
<1>14. Released'
  <2>1. Runs("closingEnd") => Runs("closingEnd")'
    BY <1>2, <1>5 DEF Fn
  <2>2. QED
    BY <1>2, <1>5, <2>1 DEF IInv, Released
<1>15. ASSUME OneClosing, Reported
       PROVE  Reported'
  <2>1. k = 1
    <3>1. sendq[s] # <<>> /\ Top.msg = Head(sendq[s])
      BY <1>1, <1>2, <1>3, <1>15 DEF Reported
    <3>2. Head(sendq[s]) = sent[s] - Len(sendq[s]) + 1
      BY <1>7, <3>1, NewestTail
    <3>3. sendq[s][k] = sent[s] - Len(sendq[s]) + k
      BY <1>7 DEF Newest
    <3>4. k \in Nat
      BY <1>7
    <3>5. QED
      BY <1>1, <1>7, <3>1, <3>2, <3>3, <3>4
  <2>2. Len(t) = Len(sendq[s]) - 1
    BY <1>8, <2>1
  <2>3. \A h \in Height' : ~(Call(h)'.fn = "drained" /\ Call(h)'.side = s)
    <3>1. ASSUME NEW h \in Height', Call(h)'.fn = "drained", Call(h)'.side = s
          PROVE  FALSE
      <4>1. h < Len(stack) - 1 /\ h \in Height /\ Call(h)' = Call(h)
        BY <1>4, <3>1 DEF OnlyUsers
      <4>2. PICK d \in Height : /\ d = Len(stack) - 2
                                /\ Call(d).fn = "drain" /\ Call(d).side = s
        <5>1. PICK e \in Height : e = Len(stack) - 1 /\ Call(e) = Top
          BY <1>3
        <5>2. e - 1 \in Height /\ Call(e - 1).fn = "drain" /\ Call(e - 1).side = s
          BY <1>1, <1>2, <1>3, <5>1 DEF OrderInv, Nested
        <5>3. e - 1 = Len(stack) - 2
          BY <1>3, <5>1
        <5>4. QED
          BY <5>2, <5>3
      <4>3. h = d + 1
        BY <1>3, <1>15, <3>1, <4>1, <4>2, OneDrained DEF OrderInv
      <4>4. QED
        BY <1>3, <4>1, <4>2, <4>3
    <3>2. QED
      BY <3>1
  <2>4. ~RunsOn("drained", s)' /\ RunsOn("drained", s)
    BY <1>1, <1>2, <1>3, <2>3 DEF RunsOn
  <2>5. \A x \in Side : x # s => (RunsOn("drained", x)' <=> RunsOn("drained", x))
    BY <1>1, <1>5 DEF Fn
  <2>6. Left(s) = sent[s] - Len(sendq[s]) + 1
    BY <2>4 DEF Left
  <2>7. \A x \in Side : Left(x)' = Left(x)
    <3>1. Left(s)' = sent[s] - Len(t) + 0
      BY <1>2, <1>9, <2>4 DEF Left
    <3>2. Left(s)' = Left(s)
      BY <1>7, <2>2, <2>6, <3>1
    <3>3. ASSUME NEW x \in Side, x # s
          PROVE  Left(x)' = Left(x)
      BY <1>2, <1>9, <2>5, <3>3 DEF Left
    <3>4. QED
      BY <3>2, <3>3
  <2>8. \A h \in Height' : Call(h)'.fn = "drained" =>
          h \in Height /\ Call(h)' = Call(h) /\ Call(h).side # s
    BY <1>4, <2>3 DEF OnlyUsers
  <2>9. ASSUME NEW x \in Side
        PROVE  /\ \A m \in Msg : m > Len(got'[Peer(x)]) =>
                                    done'[x][m] = IF m <= Left(x)' THEN 1 ELSE 0
               /\ \A h \in Height' : Call(h)'.fn = "drained" /\ Call(h)'.side = x =>
                    sendq'[x] # <<>> /\ Call(h)'.msg = Head(sendq'[x])
    <3>1. \A m \in Msg : m > Len(got'[Peer(x)]) =>
                           done'[x][m] = IF m <= Left(x)' THEN 1 ELSE 0
      BY <1>2, <1>15, <2>7 DEF Reported
    <3>2. CASE x = s
      BY <2>3, <3>1, <3>2
    <3>3. CASE x # s
      BY <1>9, <1>15, <2>8, <3>1, <3>3 DEF Reported
    <3>4. QED
      BY <3>2, <3>3
  <2>10. QED
    BY <2>9 DEF Reported
<1>17. Counted'
  BY <1>2, <1>3, <1>4, <1>5, <1>10, UsersCounted DEF OrderInv
<1>18. QED
  BY <1>5, <1>10, <1>11, <1>12, <1>13, <1>14, <1>15, <1>17 DEF IInv, OrderInv, CloseInv


LEMMA DrainSendStep ==
  ASSUME IInv, Drain, sendq[Top.side] # <<>>
  PROVE  IInv'
<1>1. /\ stack # <<>> /\ Top.fn = "drain" /\ ~freed
      /\ UNCHANGED <<sideClosed, recv, sendq, freed, sent, got>>
  BY DEF Drain, At, connVars
<1>2. /\ AnyClosed /\ TypeOK /\ OrderInv /\ Top.side \in Side
      /\ Len(stack) \in Nat /\ Len(stack) <= Len(stack)
      /\ Len(stack) - 1 \in Height /\ Call(Len(stack) - 1) = Top
  BY <1>1, ClosingOnTop DEF ClosingFn
<1>3. PICK s \in Side : s = Top.side
  BY <1>2
<1>4. PICK m : m = Head(sendq[s])
  OBVIOUS
<1>5. /\ sendq[s] \in Seq(Msg) /\ sent[s] \in Nat /\ Newest(sendq[s], sent[s])
      /\ sendq[s] # <<>> /\ Len(sendq[s]) \in Nat
  BY <1>2, <1>3, LenProperties DEF TypeOK, OrderInv, Queues, Newest, Msg
<1>6. m \in Msg /\ m = sent[s] - Len(sendq[s]) + 1
  BY <1>4, <1>5, NewestTail
<1>7. /\ done' = [done EXCEPT ![s][m] = @ + 1]
      /\ stack' = <<F("user", s), Of("drained", s, m)>> \o stack
  BY <1>1, <1>3, <1>4 DEF Drain, Reports
<1>8. PICK f \in Frame : /\ f = Of("drained", s, m) /\ f.fn = "drained" /\ f.side = s
                         /\ f.msg = m
  <2>1. Of("drained", s, m) \in Frame
    BY <1>2, <1>3, <1>4, <1>5, HeadIsMsg, FrameOf DEF Fn
  <2>2. QED
    BY <2>1 DEF Of
<1>9. PICK xs \in Seq(Frame) : xs = <<F("user", s), f>>
  <2>1. <<F("user", s), f>> \in Seq(Frame)
    BY <1>8, UserFrames
  <2>2. QED
    BY <2>1
<1>10. /\ Len(xs) = 2 /\ xs[1].fn = "user" /\ xs[2] = f
       /\ f.fn = "drained" /\ f.side = s /\ f.msg = m
  <2>1. F("user", s).fn = "user"
    BY DEF F, Of
  <2>2. QED
    BY <1>8, <1>9, <2>1
<1>11. Grown(Len(stack), xs)
  BY <1>2, <1>7, <1>8, <1>9, Pushed
<1>12. \A h \in Height : h < Len(stack) /\ h \in Height' /\ Call(h)' = Call(h)
  <2>1. \A h \in Height : h < Len(stack)
    BY <1>2 DEF Height
  <2>2. QED
    BY <1>2, <1>11, <2>1, GrownRuns
<1>13. \A h \in Height' : \/ h \in Height /\ Call(h)' = Call(h)
                          \/ h = Len(stack) /\ Call(h)' = f
                          \/ Call(h)'.fn = "user"
  <2>1. ASSUME NEW h \in Height', NEW i \in 1 .. Len(xs), h = Len(stack) + Len(xs) - i, Call(h)' = xs[i]
        PROVE  (h = Len(stack) /\ Call(h)' = f) \/ Call(h)'.fn = "user"
    <3>1. i = 1 \/ (i = 2 /\ h = Len(stack))
      BY <1>2, <1>10, <2>1
    <3>2. QED
      BY <1>10, <2>1, <3>1
  <2>2. QED
    BY <1>2, <1>11, <2>1, GrownRuns
<1>14. PICK d \in Height' : d = Len(stack) /\ Call(d)' = f
  <2>1. 2 \in 1 .. Len(xs) /\ Len(stack) + Len(xs) - 2 = Len(stack)
    BY <1>2, <1>10
  <2>2. \A i \in 1 .. Len(xs) :
          \E d \in Height' : d = Len(stack) + Len(xs) - i /\ Call(d)' = xs[i]
    BY <1>2, <1>11, GrownRuns
  <2>3. PICK d \in Height' : d = Len(stack) + Len(xs) - 2 /\ Call(d)' = xs[2]
    BY <2>1, <2>2
  <2>4. d = Len(stack) /\ Call(d)' = f
    BY <1>10, <2>1, <2>3
  <2>5. QED
    BY <2>4
<1>15. PICK e \in Height : e = Len(stack) - 1 /\ Call(e) = Top
  BY <1>2
<1>16. AnyClosed' = AnyClosed /\ AllClosed' = AllClosed
  BY <1>1 DEF AnyClosed, AllClosed
<1>17. TypeOK'
  <2>1. done' \in [Side -> [Msg -> Nat]]
    BY <1>2, <1>6, <1>7, SMTT(20) DEF TypeOK
  <2>2. QED
    BY <1>1, <1>2, <1>11, <2>1 DEF TypeOK, Grown
<1>18. Nested'
  <2>1. ASSUME NEW g \in Height', NEW h \in Height',
               Call(g)'.fn \in Pumping, Call(h)'.fn \in ClosingFn
        PROVE  g < h
    <3>1. g \in Height /\ Call(g)' = Call(g)
      BY <1>10, <1>13, <2>1 DEF Pumping
    <3>2. CASE h \in Height /\ Call(h)' = Call(h)
      BY <1>2, <2>1, <3>1, <3>2 DEF OrderInv, Nested
    <3>3. CASE h = Len(stack)
      BY <1>12, <3>1, <3>3
    <3>4. QED
      BY <1>13, <2>1, <3>2, <3>3 DEF ClosingFn
  <2>2. ASSUME NEW h \in Height', Call(h)'.fn = "drained"
        PROVE  /\ h - 1 \in Height' /\ Call(h - 1)'.fn = "drain"
               /\ Call(h - 1)'.side = Call(h)'.side
    <3>1. CASE h \in Height /\ Call(h)' = Call(h)
      <4>1. h - 1 \in Height /\ Call(h - 1).fn = "drain" /\ Call(h - 1).side = Call(h).side
        BY <1>2, <2>2, <3>1 DEF OrderInv, Nested
      <4>2. QED
        BY <1>12, <3>1, <4>1
    <3>2. CASE h = Len(stack) /\ Call(h)' = f
      <4>1. h - 1 = e
        BY <1>2, <1>15, <3>2
      <4>2. Call(e)' = Call(e) /\ e \in Height'
        BY <1>12
      <4>3. QED
        BY <1>1, <1>3, <1>10, <1>15, <3>2, <4>1, <4>2
    <3>3. QED
      BY <1>13, <2>2, <3>1, <3>2
  <2>3. QED
    BY <1>2, <1>16, <2>1, <2>2 DEF Nested
<1>19. Queues' /\ InOrder' /\ Pumped'
  BY <1>1, <1>2, <1>16 DEF OrderInv, Queues, InOrder, Pumped
<1>20. Closed'
  <2>1. \A x \in Side : /\ RunsOn("closingRecv", x) => RunsOn("closingRecv", x)'
                        /\ RunsOn("drain", x) => RunsOn("drain", x)'
    BY <1>12 DEF RunsOn
  <2>2. QED
    BY <1>1, <1>2, <2>1 DEF OrderInv, Closed
<1>21. Released'
  <2>1. Runs("closingEnd") => Runs("closingEnd")'
    BY <1>12 DEF Runs
  <2>2. QED
    BY <1>1, <1>16, <2>1 DEF IInv, Released
<1>22. ASSUME OneClosing
       PROVE  OneClosing'
  <2>1. \A h \in Height' : Call(h)'.fn = "drain" => h \in Height /\ Call(h)' = Call(h)
    BY <1>10, <1>13
  <2>2. QED
    BY <1>22, <2>1 DEF OneClosing
<1>23. /\ done[s][m] \in Nat /\ done'[s][m] = done[s][m] + 1
       /\ \A x \in Side, n \in Msg : x # s \/ n # m => done'[x][n] = done[x][n]
  BY <1>2, <1>6, <1>7 DEF TypeOK
<1>24. m > Len(got[Peer(s)]) /\ m <= sent'[s] /\ m \in Nat
  <2>1. Len(got[Peer(s)]) <= sent[s] - Len(sendq[s]) /\ Len(got[Peer(s)]) \in Nat
    BY <1>2, <1>3, Peers, LenProperties DEF OrderInv, Queues, TypeOK
  <2>2. Len(sendq[s]) # 0
    BY <1>5, EmptySeq
  <2>3. QED
    BY <1>1, <1>5, <1>6, <2>1, <2>2
<1>25. ASSUME OneClosing, Reported
       PROVE  Reported'
  <2>1. \A h \in Height : ~(Call(h).fn = "drained" /\ Call(h).side = s)
    <3>1. ASSUME NEW h \in Height, Call(h).fn = "drained", Call(h).side = s
          PROVE  FALSE
      <4>1. h = e + 1
        BY <1>1, <1>2, <1>3, <1>15, <1>25, <3>1, OneDrained DEF OrderInv
      <4>2. h < Len(stack)
        BY <1>12
      <4>3. QED
        BY <1>2, <1>15, <4>1, <4>2
    <3>2. QED
      BY <3>1
  <2>2. RunsOn("drained", s)' /\ ~RunsOn("drained", s)
    BY <1>10, <1>14, <2>1 DEF RunsOn
  <2>3. \A x \in Side : x # s => (RunsOn("drained", x)' <=> RunsOn("drained", x))
    BY <1>10, <1>12, <1>13 DEF RunsOn
  <2>4. Left(s) = m - 1 /\ Left(s)' = m
    <3>1. Left(s) = sent[s] - Len(sendq[s]) + 0 /\ Left(s)' = sent[s] - Len(sendq[s]) + 1
      BY <1>1, <2>2 DEF Left
    <3>2. QED
      BY <1>5, <1>6, <3>1
  <2>5. \A x \in Side : x # s => Left(x)' = Left(x)
    BY <1>1, <2>3 DEF Left
  <2>6. ASSUME NEW x \in Side, NEW n \in Msg, n > Len(got'[Peer(x)])
        PROVE  done'[x][n] = IF n <= Left(x)' THEN 1 ELSE 0
    <3>1. n > Len(got[Peer(x)])
      BY <1>1, <2>6
    <3>2. done[x][n] = IF n <= Left(x) THEN 1 ELSE 0
      BY <1>25, <3>1 DEF Reported
    <3>3. CASE x # s
      BY <1>23, <2>5, <3>2, <3>3
    <3>4. CASE x = s /\ n = m
      BY <1>23, <1>24, <2>4, <3>2, <3>4
    <3>5. CASE x = s /\ n # m
      <4>1. n \in Nat /\ (n <= m <=> n <= m - 1)
        BY <1>24, <3>5 DEF Msg
      <4>2. QED
        BY <1>23, <2>4, <3>2, <3>5, <4>1
    <3>6. QED
      BY <3>3, <3>4, <3>5
  <2>7. ASSUME NEW x \in Side, NEW h \in Height', Call(h)'.fn = "drained", Call(h)'.side = x
        PROVE  sendq'[x] # <<>> /\ Call(h)'.msg = Head(sendq'[x])
    <3>1. CASE x = s
      <4>1. Call(h)' = f
        BY <1>13, <2>1, <2>7, <3>1
      <4>2. QED
        BY <1>1, <1>4, <1>5, <1>8, <3>1, <4>1
    <3>2. CASE x # s
      <4>1. h \in Height /\ Call(h)' = Call(h)
        BY <1>10, <1>13, <2>7, <3>2
      <4>2. QED
        BY <1>1, <1>25, <2>7, <4>1 DEF Reported
    <3>3. QED
      BY <3>1, <3>2
  <2>8. QED
    BY <2>6, <2>7 DEF Reported
<1>26. Counted'
  <2>1. \A h \in Height' : Call(h)'.fn = "completed" => h \in Height /\ Call(h)' = Call(h)
    BY <1>10, <1>13
  <2>2. \A x \in Side, n \in Msg :
          \/ done'[x][n] = done[x][n]
          \/ AnyClosed' /\ n > Len(got[Peer(x)]) /\ n <= sent'[x]
    BY <1>2, <1>16, <1>23, <1>24
  <2>3. \A x \in Side : sent[x] <= sent'[x]
    BY <1>1, <1>2 DEF TypeOK
  <2>4. QED
    BY <1>1, <1>2, <1>12, <1>16, <1>17, <2>1, <2>2, <2>3, SameCounted DEF OrderInv
<1>27. QED
  BY <1>16, <1>17, <1>18, <1>19, <1>20, <1>21, <1>22, <1>25, <1>26 DEF IInv, OrderInv, CloseInv


LEMMA CloseStep ==
  ASSUME IInv, NEW s \in Side, Close(s)
  PROVE  IInv'
<1>1. /\ stack # <<>> /\ Top.fn = "user" /\ ~sideClosed[s]
      /\ Len(stack) = 1 \/ (CallbackClose = "first" /\ ~AnyClosed) \/ CallbackClose = "always"
      /\ sideClosed' = [sideClosed EXCEPT ![s] = TRUE]
      /\ stack' = Closing \o stack
      /\ UNCHANGED <<recv, sendq, freed, sent, got, done>>
  BY DEF Close, Calling, Running, history
<1>2. /\ TypeOK /\ OrderInv /\ Len(stack) \in Nat /\ Len(stack) <= Len(stack)
      /\ Call(Len(stack) - 1) = Top
  BY <1>1, StackFacts DEF IInv
<1>3. /\ sideClosed'[s] /\ AnyClosed' /\ ~AllClosed /\ ~freed
  BY <1>1, <1>2 DEF TypeOK, AnyClosed, AllClosed, IInv, Released
<1>4. /\ "client" \in Side /\ "server" \in Side /\ Side = {"client", "server"}
  BY DEF Side
<1>5. PICK xs \in Seq(Frame) :
        /\ xs = Closing /\ Len(xs) = 5
        /\ xs[1].fn = "closingRecv" /\ xs[1].side = "server"
        /\ xs[2].fn = "closingRecv" /\ xs[2].side = "client"
        /\ xs[3].fn = "drain" /\ xs[3].side = "server"
        /\ xs[4].fn = "drain" /\ xs[4].side = "client"
        /\ xs[5].fn = "closingEnd" /\ xs[5].side = "server"
  <2>1. /\ F("closingRecv", "server") \in Frame /\ F("closingRecv", "client") \in Frame
        /\ F("drain", "server") \in Frame /\ F("drain", "client") \in Frame
        /\ F("closingEnd", "server") \in Frame
    BY <1>4, FrameType DEF Fn
  <2>2. Closing \in Seq(Frame)
    BY <2>1 DEF Closing
  <2>3. QED
    BY <2>2 DEF Closing, F, Of
<1>6. Grown(Len(stack), xs)
  BY <1>1, <1>2, <1>5, Pushed
<1>7. \A h \in Height : h < Len(stack) /\ h \in Height' /\ Call(h)' = Call(h)
  <2>1. \A h \in Height : h < Len(stack)
    BY <1>2 DEF Height
  <2>2. QED
    BY <1>2, <1>6, <2>1, GrownRuns
<1>8. ASSUME NEW h \in Height'
      PROVE  \/ h \in Height /\ Call(h)' = Call(h)
             \/ h = Len(stack) + 4 /\ Call(h)' = xs[1]
             \/ h = Len(stack) + 3 /\ Call(h)' = xs[2]
             \/ h = Len(stack) + 2 /\ Call(h)' = xs[3]
             \/ h = Len(stack) + 1 /\ Call(h)' = xs[4]
             \/ h = Len(stack) /\ Call(h)' = xs[5]
  <2>1. ASSUME NEW i \in 1 .. Len(xs), h = Len(stack) + Len(xs) - i, Call(h)' = xs[i]
        PROVE  \/ h = Len(stack) + 4 /\ Call(h)' = xs[1]
               \/ h = Len(stack) + 3 /\ Call(h)' = xs[2]
               \/ h = Len(stack) + 2 /\ Call(h)' = xs[3]
               \/ h = Len(stack) + 1 /\ Call(h)' = xs[4]
               \/ h = Len(stack) /\ Call(h)' = xs[5]
    <3>1. \/ i = 1 /\ h = Len(stack) + 4
          \/ i = 2 /\ h = Len(stack) + 3
          \/ i = 3 /\ h = Len(stack) + 2
          \/ i = 4 /\ h = Len(stack) + 1
          \/ i = 5 /\ h = Len(stack)
      BY <1>2, <1>5, <2>1
    <3>2. QED
      BY <2>1, <3>1
  <2>2. QED
    BY <1>2, <1>6, <2>1, GrownRuns
<1>9. ASSUME NEW i \in 1 .. Len(xs)
      PROVE  \E h \in Height' : Call(h)' = xs[i]
  BY <1>2, <1>6, <1>9, GrownRuns
<1>10. /\ \A x \in Side : RunsOn("closingRecv", x)' /\ RunsOn("drain", x)'
       /\ Runs("closingEnd")'
  <2>1. /\ \E h \in Height' : Call(h)' = xs[1]
        /\ \E h \in Height' : Call(h)' = xs[2]
        /\ \E h \in Height' : Call(h)' = xs[3]
        /\ \E h \in Height' : Call(h)' = xs[4]
        /\ \E h \in Height' : Call(h)' = xs[5]
    BY <1>5, <1>9
  <2>2. RunsOn("closingRecv", "server")' /\ RunsOn("closingRecv", "client")'
    BY <1>5, <2>1 DEF RunsOn
  <2>3. RunsOn("drain", "server")' /\ RunsOn("drain", "client")' /\ Runs("closingEnd")'
    BY <1>5, <2>1 DEF RunsOn, Runs
  <2>4. QED
    BY <1>4, <2>2, <2>3
<1>11. TypeOK'
  BY <1>1, <1>2, <1>6 DEF TypeOK, Grown
<1>12. \A h \in Height' : Call(h)'.fn \in Pumping \/ Call(h)'.fn = "drained" =>
         h \in Height /\ Call(h)' = Call(h)
  BY <1>5, <1>8 DEF Pumping
<1>13. \A h \in Height' : h \in Height \/ h >= Len(stack)
  BY <1>2, <1>8
<1>14. Nested'
  <2>1. ASSUME NEW g \in Height', NEW h \in Height',
               Call(g)'.fn \in Pumping, Call(h)'.fn \in ClosingFn
        PROVE  g < h
    <3>1. g \in Height /\ Call(g)' = Call(g) /\ g < Len(stack)
      BY <1>7, <1>12, <2>1
    <3>2. CASE h \in Height /\ Call(h)' = Call(h)
      BY <1>2, <2>1, <3>1, <3>2 DEF OrderInv, Nested
    <3>3. CASE h >= Len(stack)
      <4>1. g \in Int /\ h \in Int
        BY <1>2, <1>6, <3>1 DEF Height, Grown
      <4>2. QED
        BY <1>2, <3>1, <3>3, <4>1
    <3>4. QED
      BY <1>7, <1>13, <3>2, <3>3
  <2>2. ASSUME NEW h \in Height', Call(h)'.fn = "drained"
        PROVE  /\ h - 1 \in Height' /\ Call(h - 1)'.fn = "drain"
               /\ Call(h - 1)'.side = Call(h)'.side
    <3>1. h \in Height /\ Call(h)' = Call(h)
      BY <1>12, <2>2
    <3>2. h - 1 \in Height /\ Call(h - 1).fn = "drain" /\ Call(h - 1).side = Call(h).side
      BY <1>2, <2>2, <3>1 DEF OrderInv, Nested
    <3>3. QED
      BY <1>7, <3>1, <3>2
  <2>3. QED
    BY <1>3, <2>1, <2>2 DEF Nested
<1>15. Queues' /\ InOrder' /\ Pumped'
  BY <1>1, <1>2, <1>3 DEF OrderInv, Queues, InOrder, Pumped
<1>16. Closed'
  BY <1>10 DEF Closed
<1>17. Released'
  BY <1>1, <1>3, <1>10 DEF Released
<1>18. ASSUME ~AllClosed' \/ CallbackClose # "always"
       PROVE  Calm
  <2>1. CASE Len(stack) = 1
    <3>1. \A h \in Height : h = 0 /\ Call(h) = Top
      <4>1. \A h \in Height : h = 0 /\ h = Len(stack) - 1
        BY <2>1 DEF Height
      <4>2. QED
        BY <1>2, <4>1
    <3>2. QED
      BY <1>1, <3>1 DEF Calm, ClosingFn
  <2>2. CASE ~AnyClosed
    BY <1>2, <2>2 DEF OrderInv, Nested, Calm
  <2>3. CASE ~AllClosed'
    <3>1. Peer(s) \in Side /\ \A x \in Side : x = s \/ x = Peer(s)
      BY Peers
    <3>2. ~sideClosed'[Peer(s)]
      BY <1>3, <2>3, <3>1 DEF AllClosed
    <3>3. ~sideClosed[Peer(s)]
      BY <1>1, <1>2, <3>1, <3>2 DEF TypeOK
    <3>4. ~AnyClosed
      BY <1>1, <3>1, <3>3 DEF AnyClosed
    <3>5. QED
      BY <2>2, <3>4
  <2>4. QED
    BY <1>1, <1>18, <2>1, <2>2, <2>3
<1>19. ASSUME Calm
       PROVE  OneClosing'
  <2>1. \A h \in Height' : Call(h)'.fn = "drain" =>
          \/ h = Len(stack) + 2 /\ Call(h)'.side = "server"
          \/ h = Len(stack) + 1 /\ Call(h)'.side = "client"
    BY <1>5, <1>8, <1>19 DEF Calm, ClosingFn
  <2>2. QED
    BY <2>1 DEF OneClosing
<1>20. Reported'
  <2>1. \A x \in Side : RunsOn("drained", x)' <=> RunsOn("drained", x)
    BY <1>7, <1>12 DEF RunsOn
  <2>2. \A h \in Height' : Call(h)'.fn = "drained" => h \in Height /\ Call(h)' = Call(h)
    BY <1>12
  <2>3. Reported /\ \A x \in Side : Left(x)' = Left(x)
    BY <1>1, <1>3, <2>1 DEF IInv, CloseInv, Left
  <2>4. QED
    BY <1>1, <2>2, <2>3 DEF Reported
<1>22. Counted'
  <2>1. \A h \in Height' : Call(h)'.fn = "completed" => h \in Height /\ Call(h)' = Call(h)
    BY <1>5, <1>8
  <2>2. \A x \in Side : sent[x] <= sent'[x]
    BY <1>1, <1>2 DEF TypeOK
  <2>3. QED
    BY <1>1, <1>2, <1>3, <1>7, <1>11, <2>1, <2>2, SameCounted DEF OrderInv
<1>23. QED
  BY <1>11, <1>14, <1>15, <1>16, <1>17, <1>18, <1>19, <1>20, <1>22 DEF IInv, OrderInv, CloseInv

(* A send that was taken is completed. *)
LEMMA CompletedStep ==
  ASSUME IInv, Completed
  PROVE  IInv'
<1>1. /\ stack # <<>> /\ Top.fn = "completed"
      /\ done' = [done EXCEPT ![Top.side][Top.msg] = @ + 1]
      /\ stack' = <<F("user", Top.side)>> \o Pop
      /\ UNCHANGED <<sideClosed, recv, sendq, freed, sent, got>>
  BY DEF Completed, Reports, connVars
<1>2. /\ TypeOK /\ OrderInv /\ Top \in Frame /\ Len(stack) \in Nat /\ Len(stack) # 0
      /\ Len(stack) - 1 \in Height /\ Call(Len(stack) - 1) = Top
  BY <1>1, StackFacts DEF IInv
<1>3. PICK s \in Side, e \in Height : s = Top.side /\ e = Len(stack) - 1 /\ Call(e) = Top
  BY <1>2 DEF Frame
<1>4. PICK b \in Nat : b = Len(stack) - 1
  BY <1>2
<1>5. OnlyUsers(b)
  <2>1. <<F("user", s)>> \in Seq(Frame) /\ stack' = <<F("user", s)>> \o Pop
    BY <1>1, <1>3, UserFrames
  <2>2. Grown(b, <<F("user", s)>>) /\ b <= Len(stack)
    <3>1. Grown(Len(stack) - 1, <<F("user", s)>>)
      BY <1>1, <1>2, <2>1, Replaced
    <3>2. QED
      BY <1>2, <1>4, <3>1
  <2>3. QED
    BY <1>2, <2>1, <2>2, UserFrames, UsersOnTop
<1>6. AnyClosed' = AnyClosed /\ AllClosed' = AllClosed
  BY <1>1 DEF AnyClosed, AllClosed
<1>7. ASSUME NEW fn \in Fn, fn # "user", fn # "completed"
      PROVE  /\ Runs(fn)' <=> Runs(fn)
             /\ \A x \in Side : RunsOn(fn, x)' <=> RunsOn(fn, x)
  BY <1>1, <1>2, <1>4, <1>5, <1>7, UsersRuns
<1>8. PICK m \in 0 .. MaxMsg : m = Top.msg /\ Top = Of("completed", s, m)
  BY <1>1, <1>2, <1>3 DEF Frame, Of
<1>9. TypeOK'
  <2>1. done' \in [Side -> [Msg -> Nat]]
    <3>1. \A k \in Msg : done[s][k] + 1 \in Nat
      BY <1>2 DEF TypeOK
    <3>2. [done[s] EXCEPT ![m] = done[s][m] + 1] \in [Msg -> Nat]
      BY <1>2, <3>1 DEF TypeOK
    <3>3. done' = [done EXCEPT ![s] = [done[s] EXCEPT ![m] = done[s][m] + 1]]
      BY <1>1, <1>3, <1>8
    <3>4. QED
      BY <1>2, <3>2, <3>3 DEF TypeOK
  <2>2. QED
    BY <1>1, <1>2, <1>5, <2>1 DEF TypeOK, OnlyUsers
<1>10. Nested' /\ (OneClosing => OneClosing')
  BY <1>2, <1>5, <1>6, UsersNested, UsersOne DEF OrderInv
<1>11. Queues' /\ InOrder'
  BY <1>1, <1>2, <1>6 DEF OrderInv, Queues, InOrder
<1>12. Pumped'
  <2>1. (Runs("pump1")' <=> Runs("pump1")) /\ (Runs("pump2")' <=> Runs("pump2"))
    BY <1>7 DEF Fn
  <2>2. QED
    BY <1>1, <1>2, <1>6, <2>1 DEF OrderInv, Pumped
<1>13. Closed'
  <2>1. \A x \in Side : /\ RunsOn("closingRecv", x)' <=> RunsOn("closingRecv", x)
                        /\ RunsOn("drain", x)' <=> RunsOn("drain", x)
    BY <1>7 DEF Fn
  <2>2. QED
    BY <1>1, <1>2, <1>6, <2>1 DEF OrderInv, Closed
<1>14. Released'
  <2>1. Runs("closingEnd")' <=> Runs("closingEnd")
    BY <1>7 DEF Fn
  <2>2. QED
    BY <1>1, <1>6, <2>1 DEF IInv, Released
<1>15. ASSUME NEW n \in Msg, n = m
       PROVE  /\ n <= Len(got[Peer(s)]) /\ done[s][n] = 0 /\ done'[s][n] = 1
              /\ \A x \in Side, k \in Msg : x # s \/ k # n => done'[x][k] = done[x][k]
  <2>1. Awaits(s, n)
    BY <1>3, <1>8, <1>15 DEF Awaits
  <2>2. n <= Len(got[Peer(s)]) /\ done[s][n] = 0
    BY <1>2, <2>1 DEF OrderInv, Counted
  <2>3. done' = [done EXCEPT ![s][n] = @ + 1]
    BY <1>1, <1>3, <1>8, <1>15
  <2>4. QED
    BY <1>2, <2>2, <2>3 DEF TypeOK
<1>16. ASSUME m \notin Msg
       PROVE  \A x \in Side, k \in Msg : done'[x][k] = done[x][k]
  BY <1>1, <1>2, <1>3, <1>8, <1>16 DEF TypeOK
<1>17. \A x \in Side, k \in Msg :
         \/ done'[x][k] = done[x][k]
         \/ k <= Len(got[Peer(x)]) /\ x = s /\ k = m
  BY <1>15, <1>16
<1>18. ASSUME NEW h \in Height, Call(h).fn = "completed", h # e
       PROVE  h \in Height' /\ Call(h)' = Call(h)
  <2>1. h < b
    BY <1>2, <1>3, <1>4, <1>18 DEF Height
  <2>2. QED
    BY <1>5, <2>1 DEF OnlyUsers
<1>19. \A h \in Height' : Call(h)'.fn = "completed" =>
         h \in Height /\ Call(h)' = Call(h) /\ h # e
  BY <1>2, <1>3, <1>4, <1>5 DEF OnlyUsers
<1>20. \A x \in Side, k \in Msg : Awaits(x, k)' <=> Awaits(x, k) /\ ~(x = s /\ k = m)
  <2>1. ASSUME NEW x \in Side, NEW k \in Msg, Awaits(x, k)'
        PROVE  Awaits(x, k) /\ ~(x = s /\ k = m)
    <3>1. PICK h \in Height' : Call(h)' = Of("completed", x, k)
      BY <2>1 DEF Awaits
    <3>2. h \in Height /\ Call(h)' = Call(h) /\ h # e
      BY <1>19, <3>1 DEF Of
    <3>3. ASSUME x = s, k = m
          PROVE  FALSE
      <4>1. Call(h) = Call(e) /\ Call(h).fn = "completed"
        BY <1>1, <1>3, <1>8, <3>1, <3>2, <3>3
      <4>2. QED
        BY <1>2, <3>2, <4>1 DEF OrderInv, Counted
    <3>4. QED
      BY <3>1, <3>2, <3>3 DEF Awaits
  <2>2. ASSUME NEW x \in Side, NEW k \in Msg, Awaits(x, k), ~(x = s /\ k = m)
        PROVE  Awaits(x, k)'
    <3>1. PICK h \in Height : Call(h) = Of("completed", x, k)
      BY <2>2 DEF Awaits
    <3>2. h # e /\ Call(h).fn = "completed"
      BY <1>3, <1>8, <2>2, <3>1 DEF Of
    <3>3. QED
      BY <1>18, <3>1, <3>2 DEF Awaits
  <2>3. QED
    BY <2>1, <2>2
<1>21. Counted'
  <2>1. \A g, h \in Height' : Call(g)'.fn = "completed" /\ Call(g)' = Call(h)' => g = h
    BY <1>2, <1>19 DEF OrderInv, Counted
  <2>2. ASSUME NEW x \in Side, NEW k \in Msg
        PROVE  /\ Awaits(x, k)' => k <= Len(got'[Peer(x)])
               /\ k <= Len(got'[Peer(x)]) => done'[x][k] = IF Awaits(x, k)' THEN 0 ELSE 1
               /\ k > Len(got'[Peer(x)]) /\ (~AnyClosed' \/ k > sent'[x]) => done'[x][k] = 0
    <3>1. /\ Awaits(x, k) => k <= Len(got[Peer(x)])
          /\ k <= Len(got[Peer(x)]) => done[x][k] = IF Awaits(x, k) THEN 0 ELSE 1
          /\ k > Len(got[Peer(x)]) /\ (~AnyClosed \/ k > sent[x]) => done[x][k] = 0
      BY <1>2 DEF OrderInv, Counted
    <3>2. CASE x = s /\ k = m
      <4>1. k <= Len(got[Peer(x)]) /\ done'[x][k] = 1
        BY <1>15, <3>2
      <4>2. ~Awaits(x, k)' /\ ~(k > Len(got[Peer(x)]))
        <5>1. Len(got[Peer(x)]) \in Nat /\ k \in Nat
          BY <1>2, Peers, LenProperties DEF TypeOK, Msg
        <5>2. QED
          BY <1>20, <3>2, <4>1, <5>1
      <4>3. QED
        BY <1>1, <4>1, <4>2
    <3>3. CASE ~(x = s /\ k = m)
      <4>1. (Awaits(x, k)' <=> Awaits(x, k)) /\ done'[x][k] = done[x][k]
        BY <1>17, <1>20, <3>3
      <4>2. QED
        BY <1>1, <1>6, <3>1, <4>1
    <3>4. QED
      BY <3>2, <3>3
  <2>3. QED
    BY <2>1, <2>2 DEF Counted
<1>22. ASSUME Reported
       PROVE  Reported'
  <2>1. \A x \in Side : Left(x)' = Left(x)
    BY <1>1, <1>7 DEF Left, Fn
  <2>2. \A h \in Height' : Call(h)'.fn = "drained" => h \in Height /\ Call(h)' = Call(h)
    BY <1>5 DEF OnlyUsers
  <2>3. ASSUME NEW x \in Side, NEW k \in Msg, k > Len(got'[Peer(x)])
        PROVE  done'[x][k] = IF k <= Left(x)' THEN 1 ELSE 0
    <3>1. k \in Nat /\ Len(got[Peer(x)]) \in Nat /\ k > Len(got[Peer(x)])
      BY <1>1, <1>2, <2>3, Peers, LenProperties DEF TypeOK, Msg
    <3>2. done'[x][k] = done[x][k]
      BY <1>17, <3>1
    <3>3. QED
      BY <1>22, <2>1, <3>1, <3>2 DEF Reported
  <2>4. QED
    BY <1>1, <1>22, <2>2, <2>3 DEF Reported
<1>23. QED
  BY <1>6, <1>9, <1>10, <1>11, <1>12, <1>13, <1>14, <1>21, <1>22 DEF IInv, OrderInv, CloseInv


-----------------------------------------------------------------------------
LEMMA InitIInv == Init => IInv
<1> SUFFICES ASSUME Init PROVE IInv
  OBVIOUS
<1>1. F("user", "server") \in Frame /\ F("user", "server").fn = "user"
  BY FrameType DEF F, Of, Fn, Side
<1>2. TypeOK
  <2>1. stack \in Seq(Frame)
    <3>1. <<F("user", "server")>> \in Seq(Frame)
      BY <1>1
    <3>2. QED
      BY <3>1 DEF Init
  <2>2. 0 \in 0 .. MaxMsg /\ 0 \in Nat /\ <<>> \in Seq(1 .. MaxMsg)
    BY PipeAssumption DEF PipeAssumption
  <2>3. QED
    BY <2>1, <2>2 DEF Init, TypeOK, Msg
<1>3. \A h \in Height : Call(h).fn = "user"
  BY <1>1 DEF Init, Height, Call
<1>4. \A s \in Side : /\ sideClosed[s] = FALSE /\ recv[s] = FALSE /\ sendq[s] = <<>>
                      /\ sent[s] = 0 /\ got[s] = <<>> /\ \A m \in Msg : done[s][m] = 0
  BY DEF Init, Msg
<1>5. ~AnyClosed /\ ~AllClosed
  BY <1>4 DEF AnyClosed, AllClosed, Side
<1>6. Nested
  BY <1>3 DEF Nested, ClosingFn, Pumping
<1>7. Queues /\ InOrder
  <2>1. \A s \in Side : Peer(s) \in Side
    BY Peers
  <2>2. QED
    BY <1>4, <2>1 DEF Queues, InOrder
<1>8. Pumped /\ Closed
  BY <1>4, <1>5 DEF Pumped, Closed, Side
<1>9. Released
  BY <1>5 DEF Released, Init
<1>10. Counted
  <2>1. \A s \in Side, m \in Msg : ~Awaits(s, m)
    BY <1>3 DEF Awaits, Of
  <2>2. \A s \in Side : Peer(s) \in Side /\ Len(got[Peer(s)]) = 0
    BY <1>4, Peers
  <2>3. QED
    BY <1>3, <1>4, <2>1, <2>2 DEF Counted, Msg
<1>11. OneClosing
  BY <1>3 DEF OneClosing
<1>12. Reported
  <2>1. \A s \in Side : ~RunsOn("drained", s) /\ Left(s) = 0
    BY <1>3, <1>4 DEF RunsOn, Left
  <2>2. QED
    BY <1>3, <1>4, <2>1 DEF Reported, Msg
<1>13. QED
  BY <1>2, <1>6, <1>7, <1>8, <1>9, <1>10, <1>11, <1>12 DEF IInv, OrderInv, CloseInv

LEMMA NextIInv == IInv /\ [Next]_vars => IInv'
<1> SUFFICES ASSUME IInv, [Next]_vars
             PROVE  IInv'
  OBVIOUS
<1>1. CASE Pump1
  BY <1>1, Pump1Step
<1>2. CASE Pump2
  BY <1>2, Pump2Step
<1>3. CASE ClosingRecv
  BY <1>3, ClosingRecvStep
<1>4. CASE Drain
  BY <1>4, DrainEndStep, DrainSendStep
<1>5. CASE Drained
  BY <1>5, DrainedStep
<1>6. CASE ClosingEnd
  BY <1>6, ClosingEndStep
<1>10. CASE Completed
  BY <1>10, CompletedStep
<1>7. ASSUME NEW s \in Side, User(s) \/ EventLoop(s)
      PROVE  IInv'
  <2>1. CASE UserReturns(s)
    BY <2>1, UserReturnsStep
  <2>2. CASE Send(s)
    BY <2>2, SendStep
  <2>3. CASE Receive(s)
    BY <2>3, ReceiveStep
  <2>4. CASE Close(s)
    BY <2>4, CloseStep
  <2>5. CASE EventLoop(s)
    BY <2>5, EventLoopStep
  <2>6. QED
    BY <1>7, <2>1, <2>2, <2>3, <2>4, <2>5 DEF User
<1>8. CASE UNCHANGED vars
  <2>1. /\ UNCHANGED <<sideClosed, recv, sendq, freed, stack, sent, got, done>>
    BY <1>8 DEF vars, connVars, history
  <2>2. TypeOK' /\ Released' /\ CloseInv'
    BY <2>1, ZenonT(30) DEF IInv, TypeOK, Released, CloseInv, OneClosing, Reported, Left, AllClosed,
                Runs, RunsOn, Height, Call
  <2>3. Nested' /\ Queues' /\ InOrder' /\ Counted'
    BY <2>1 DEF IInv, OrderInv, Nested, Queues, InOrder, Counted, Awaits, AnyClosed,
                Height, Call
  <2>4. Pumped' /\ Closed'
    BY <2>1 DEF IInv, OrderInv, Pumped, Closed, AnyClosed, Runs, RunsOn, Height, Call
  <2>5. QED
    BY <2>2, <2>3, <2>4 DEF IInv, OrderInv
<1>9. QED
  BY <1>1, <1>2, <1>3, <1>4, <1>5, <1>6, <1>7, <1>8, <1>10 DEF Next, Work

LEMMA PipeIInv == Spec => []IInv
  BY InitIInv, NextIInv, PTL DEF Spec

(* A side receives the packets the other sent, each once and in the order  *)
(* of the sends, up to some point: however the nested sends, receives and  *)
(* closes of the callbacks interleave with the pump that called them, for  *)
(* every depth of nesting and wherever a callback may close.               *)
THEOREM PipeInOrder == Spec => []InOrder
<1>1. IInv => InOrder
  BY DEF IInv, OrderInv
<1>2. QED
  BY <1>1, PipeIInv, PTL

(* _pxprpcPipeConnectionClosing gives the connection back when both sides  *)
(* have closed it and not before, wherever a callback may close.           *)
THEOREM PipeFreedWhenBothClosed == Spec => []FreedWhenBothClosed
<1>1. ASSUME IInv
      PROVE  FreedWhenBothClosed
  <2>1. stack = <<>> => ~Runs("closingEnd")
    BY <1>1, StackFacts DEF IInv, Runs, Height
  <2>2. QED
    BY <1>1, <2>1 DEF IInv, Released, FreedWhenBothClosed
<1>2. QED
  BY <1>1, PipeIInv, PTL

(* The callback of a send whose packet was taken runs once, when the       *)
(* receiver's callback returned, whatever either of them sends, receives   *)
(* and closes, and however deep; _pxprpcPipeConnectionClosing completes    *)
(* none of these, and the others once unless the second side closes inside *)
(* a callback.                                                             *)
THEOREM PipeCompletedOnce == Spec => []CompletedOnce
<1>1. ASSUME IInv
      PROVE  CompletedOnce
  <2>1. TypeOK /\ Counted /\ Queues
    BY <1>1 DEF IInv, OrderInv
  <2>2. ASSUME NEW s \in Side, NEW m \in Msg
        PROVE  Completing(s, m) <=> Awaits(s, m)
    <3>1. Len(stack) \in Nat /\ DOMAIN stack = 1 .. Len(stack)
      BY <2>1, LenProperties DEF TypeOK
    <3>2. ASSUME NEW k \in DOMAIN stack, stack[k] = Of("completed", s, m)
          PROVE  Awaits(s, m)
      <4>1. PICK h \in Height : Len(stack) - h = k
        <5>1. Len(stack) - k \in Height /\ Len(stack) - (Len(stack) - k) = k
          BY <3>1 DEF Height
        <5>2. QED
          BY <5>1
      <4>2. QED
        BY <3>2, <4>1 DEF Awaits, Call
    <3>3. ASSUME NEW h \in Height, Call(h) = Of("completed", s, m)
          PROVE  Completing(s, m)
      <4>1. Len(stack) - h \in DOMAIN stack
        BY <3>1 DEF Height
      <4>2. QED
        BY <3>3, <4>1 DEF Completing, Call
    <3>4. QED
      BY <3>2, <3>3 DEF Completing, Awaits
  <2>3. ASSUME NEW s \in Side, NEW m \in Msg
        PROVE  IF m <= Len(got[Peer(s)])
               THEN done[s][m] = IF Completing(s, m) THEN 0 ELSE 1
               ELSE /\ ~AnyClosed \/ m > sent[s] => done[s][m] = 0
                    /\ AllClosed \/ done[s][m] <= 1
    <3>1. m \in Nat /\ Len(got[Peer(s)]) \in Nat
      BY <2>1, Peers, LenProperties DEF TypeOK, Msg
    <3>2. CASE m <= Len(got[Peer(s)])
      BY <2>1, <2>2, <3>2 DEF Counted
    <3>3. CASE ~(m <= Len(got[Peer(s)]))
      <4>1. m > Len(got[Peer(s)])
        BY <3>1, <3>3
      <4>2. ~AnyClosed \/ m > sent[s] => done[s][m] = 0
        BY <2>1, <4>1 DEF Counted
      <4>3. ASSUME ~AllClosed
            PROVE  done[s][m] <= 1
        BY <1>1, <4>1, <4>3 DEF IInv, CloseInv, Reported
      <4>4. QED
        BY <3>3, <4>2, <4>3
    <3>4. QED
      BY <3>2, <3>3
  <2>4. QED
    BY <2>3 DEF CompletedOnce, Msg
<1>2. QED
  BY <1>1, PipeIInv, PTL

(* The pump moves one packet a call, and yet none is left waiting for a    *)
(* receive that is pending when the thread is back in its event loop; on a *)
(* closed connection no receive and no send is left without its answer,    *)
(* and no send got two, where no callback closes the second side.          *)
THEOREM PipeNothingStalled ==
  ASSUME CallbackClose # "always"
  PROVE  Spec => []NothingStalled
<1>1. ASSUME IInv
      PROVE  NothingStalled
  <2>1. Reported /\ Counted /\ Pumped /\ Closed /\ TypeOK
    BY <1>1 DEF IInv, CloseInv, OrderInv
  <2>2. ASSUME stack = <<>>
        PROVE  \A s \in Side :
                 /\ ~(recv[s] /\ sendq[Peer(s)] # <<>>)
                 /\ AnyClosed => /\ ~recv[s] /\ sendq[s] = <<>>
                                 /\ \A m \in 1 .. sent[s] : done[s][m] = 1
    <3>1. Height = {}
      BY <2>1, <2>2, StackFacts DEF Height
    <3>2. /\ \A fn \in Fn : ~Runs(fn)
          /\ \A fn \in Fn : \A s \in Side : ~RunsOn(fn, s)
      BY <3>1 DEF Runs, RunsOn
    <3>3. ASSUME AnyClosed, NEW s \in Side
          PROVE  /\ ~recv[s] /\ sendq[s] = <<>>
                 /\ \A m \in 1 .. sent[s] : done[s][m] = 1
      <4>1. ~recv[s] /\ sendq[s] = <<>>
        BY <2>1, <3>2, <3>3 DEF Closed, Fn
      <4>2. sent[s] \in Nat /\ sent[s] <= MaxMsg /\ MaxMsg \in Nat
        BY <2>1, PipeAssumption DEF TypeOK, PipeAssumption
      <4>3. Left(s) = sent[s]
        <5>1. ~RunsOn("drained", s)
          BY <3>2 DEF Fn
        <5>2. Len(sendq[s]) = 0
          BY <4>1
        <5>3. QED
          BY <4>2, <5>1, <5>2 DEF Left
      <4>4. ASSUME NEW m \in 1 .. sent[s]
            PROVE  done[s][m] = 1
        <5>1. m \in Msg /\ m \in Nat /\ Len(got[Peer(s)]) \in Nat
          BY <2>1, <4>2, Peers, LenProperties DEF TypeOK, Msg
        <5>2. CASE m <= Len(got[Peer(s)])
          <6>1. ~Awaits(s, m)
            BY <3>1 DEF Awaits
          <6>2. QED
            BY <2>1, <5>1, <5>2, <6>1 DEF Counted
        <5>3. CASE m > Len(got[Peer(s)])
          BY <2>1, <4>2, <4>3, <5>1, <5>3 DEF Reported
        <5>4. QED
          BY <5>1, <5>2, <5>3
      <4>5. QED
        BY <4>1, <4>4
    <3>4. ASSUME NEW s \in Side
          PROVE  ~(recv[s] /\ sendq[Peer(s)] # <<>>)
      <4>1. CASE AnyClosed
        BY <3>3, <3>4, <4>1
      <4>2. CASE ~AnyClosed
        <5>1. ~Runs("pump1") /\ ~Runs("pump2")
          BY <3>2 DEF Fn
        <5>2. QED
          BY <2>1, <4>2, <5>1 DEF Pumped, Side, Peer
      <4>3. QED
        BY <4>1, <4>2
    <3>5. QED
      BY <3>3, <3>4
  <2>3. QED
    BY <2>2 DEF NothingStalled
<1>2. QED
  BY <1>1, PipeIInv, PTL
=============================================================================
