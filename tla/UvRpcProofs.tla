----------------------------- MODULE UvRpcProofs ------------------------------
(***************************************************************************)
(* What UvRpc's run checks on a small instance, proved for every set of    *)
(* wraps, handles and requests and every limit.                            *)
(***************************************************************************)
EXTENDS UvRpc, SequenceTheorems, TLAPS

Maybe(S) == S \cup {Nil}

WrapTypes ==
  /\ wrap \in [Wrap -> {"none", "live", "freed"}]
  /\ stream \in [Wrap -> Maybe(Handle)]
  /\ closeOnDestruct \in [Wrap -> BOOLEAN]
  /\ held \subseteq Wrap

BufTypes ==
  /\ readBuf \in [Wrap -> Seq(Nat)]
  /\ readWaiting \in [Wrap -> Seq(Req)]
  /\ acceptWaiting \in [Wrap -> Seq(Req)]
  /\ errcode \in [Wrap -> BOOLEAN]
  /\ arrived \in [Wrap -> Seq(Nat)]
  /\ given \in [Wrap -> Seq(Nat)]
  /\ discarded \in [Wrap -> BOOLEAN]

HandleTypes ==
  /\ handle \in [Handle -> {"none", "open", "closing", "freed"}]
  /\ data \in [Handle -> Maybe(Wrap)]
  /\ role \in [Handle -> {"none", "listener", "connecting", "peer"}]
  /\ reading \subseteq Handle

ProcTypes ==
  /\ proc \in {"none", "live", "freed"}
  /\ stdio \in Maybe(Handle)
  /\ child \in {"none", "running", "orphan", "exited"}
  /\ proc # "none" => stdio \in Handle

Wait == {"none", "fs", "write", "connect", "lost"}

ReqTypes ==
  /\ doing \in [Req -> Wait]
  /\ target \in [Req -> Maybe(Handle)]
  /\ answers \in [Req -> Nat]
  /\ \A r \in Req : doing[r] = "connect" => target[r] \in Handle

Reads == {"data", "readers"}
Accepts == {"acceptors", "conn"}
Frames == [w : Wrap, then : Reads \cup Accepts]

StackTypes == resolving \in Seq(Frames) /\ fault \in {"none", "again", "freed"}

TypeOK ==
  /\ WrapTypes /\ BufTypes /\ HandleTypes /\ ProcTypes /\ ReqTypes /\ StackTypes
  /\ used \subseteq Req

-----------------------------------------------------------------------------
(* The requests. *)

NoRepeat(q) == \A j, k \in 1 .. Len(q) : q[j] = q[k] => j = k

(* A request is in one queue at most, once, or libuv calls back for it;    *)
(* before it is issued neither.                                            *)
QueuesExact ==
  /\ \A w \in Wrap :
       /\ NoRepeat(readWaiting[w]) /\ NoRepeat(acceptWaiting[w])
       /\ ToSet(readWaiting[w]) \cap ToSet(acceptWaiting[w]) = {}
  /\ \A v, w \in Wrap : v # w =>
       (ToSet(readWaiting[v]) \cup ToSet(acceptWaiting[v]))
         \cap (ToSet(readWaiting[w]) \cup ToSet(acceptWaiting[w])) = {}
  /\ \A r \in Req :
       /\ Queued(r) => doing[r] = "none"
       /\ r \notin used => doing[r] = "none" /\ ~Queued(r)

Counted ==
  \A r \in Req :
    /\ answers[r] <= 1
    /\ doing[r] # "none" => answers[r] = 0
    /\ r \notin used => answers[r] = 0

(* The streams inside an answer. *)

On(stack, w, kinds) ==
  \E k \in 1 .. Len(stack) : stack[k].w = w /\ stack[k].then \in kinds

(* A stream is inside one answer, or answers a reader while it answers an  *)
(* acceptor.                                                               *)
Stacked(stack) ==
  \A j, k \in 1 .. Len(stack) :
    j < k /\ stack[j].w = stack[k].w => stack[j].then \in Accepts /\ stack[k].then \in Reads

(* The queues q and a, the buffer b and the error e of a stream fit what   *)
(* it is answering: the first has its answer, the others have not.         *)
Told(stack, w, q, a, b, e, count) ==
  /\ On(stack, w, Reads) => q # <<>> /\ count[Head(q)] = 1
  /\ On(stack, w, {"data"}) => b # <<>>
  /\ On(stack, w, {"readers"}) => b = <<>>
  /\ On(stack, w, Accepts) => a # <<>> /\ count[Head(a)] = 1
  /\ On(stack, w, {"conn"}) => ~e
  /\ \A r \in ToSet(q) : count[r] = 0 \/ (On(stack, w, Reads) /\ r = Head(q))
  /\ \A r \in ToSet(a) : count[r] = 0 \/ (On(stack, w, Accepts) /\ r = Head(a))

(* Who waits beside bytes or an error waits behind an answer.              *)
Behind(stack, w, q, a, b, e) ==
  /\ q # <<>> /\ ~On(stack, w, Reads) => b = <<>> /\ ~e
  /\ a # <<>> /\ e => On(stack, w, Reads \cup Accepts)

StreamsFit ==
  /\ Stacked(resolving)
  /\ \A w \in Wrap :
       /\ Told(resolving, w, readWaiting[w], acceptWaiting[w], readBuf[w], errcode[w], answers)
       /\ Behind(resolving, w, readWaiting[w], acceptWaiting[w], readBuf[w], errcode[w])

(* The bytes. *)

Stream(w) == given[w] \o Ahead(w)

(* The bytes that arrive are numbered, and none of the stream is newer.    *)
InBytes(bytes, all, lost) ==
  /\ IF lost THEN Increasing(bytes) ELSE bytes = all
  /\ \A k \in 1 .. Len(all) : all[k] = k
  /\ \A k \in 1 .. Len(bytes) : bytes[k] <= Len(all)

InStream(w) == InBytes(Stream(w), arrived[w], discarded[w])

Sound == QueuesExact /\ Counted /\ StreamsFit /\ \A w \in Wrap : InStream(w)

AnswerInv == (fault = "none" => Sound) /\ AnsweredOnce /\ ReadsExact

(* The memory. *)

(* A wrap that owns its handle shares it with no other, and with the       *)
(* process neither; the handle is closed when the wrap is given back.      *)
Owned ==
  /\ \A w \in Wrap :
       /\ wrap[w] = "none" => ~closeOnDestruct[w] /\ w \notin held /\ stream[w] = Nil
       /\ wrap[w] # "none" => stream[w] \in Handle
       /\ wrap[w] # "none" /\ ~closeOnDestruct[w] => stream[w] = stdio
       /\ closeOnDestruct[w] =>
            /\ stream[w] # stdio /\ handle[stream[w]] # "none"
            /\ wrap[w] = "live" => handle[stream[w]] = "open"
            /\ wrap[w] = "freed" => handle[stream[w]] \in {"closing", "freed"}
       /\ w \in held => wrap[w] = "live"
  /\ \A v, w \in Wrap :
       closeOnDestruct[v] /\ closeOnDestruct[w] /\ stream[v] = stream[w] => v = w

(* A handle points to a wrap that is there: its own, or one that was       *)
(* handed out for the process's stream.                                    *)
PointsBack ==
  \A h \in Handle : data[h] # Nil =>
    /\ wrap[data[h]] # "none"
    /\ closeOnDestruct[data[h]] => wrap[data[h]] = "live" /\ stream[data[h]] = h

(* Requests that connect have each a handle, which is not the process's.   *)
Connects ==
  /\ \A r \in Req : doing[r] = "connect" =>
       /\ target[r] \in Handle
       /\ handle[target[r]] # "none" /\ role[target[r]] = "connecting"
  /\ \A r, s \in Req :
       doing[r] = "connect" /\ doing[s] = "connect" /\ target[r] = target[s] => r = s

Process ==
  /\ proc = "none" <=> stdio = Nil
  /\ stdio # Nil => handle[stdio] # "none" /\ role[stdio] = "peer"
  /\ child = "running" => proc = "live"

MemInv == FreedUse /\ Owned /\ PointsBack /\ Connects /\ Process


-----------------------------------------------------------------------------
(* Queues. *)

(* What joining a queue does to its members. *)
LEMMA QueueAppend ==
  ASSUME NEW S, NEW q \in Seq(S), NEW r \in S
  PROVE  /\ Append(q, r) \in Seq(S)
         /\ ToSet(Append(q, r)) = ToSet(q) \cup {r}
         /\ Append(q, r) # <<>>
         /\ NoRepeat(q) /\ r \notin ToSet(q) => NoRepeat(Append(q, r))
<1>1. /\ Append(q, r) \in Seq(S) /\ Len(Append(q, r)) = Len(q) + 1
      /\ \A k \in 1 .. Len(q) : Append(q, r)[k] = q[k]
      /\ Append(q, r)[Len(q) + 1] = r
  BY AppendProperties
<1>2. DOMAIN q = 1 .. Len(q) /\ DOMAIN Append(q, r) = 1 .. Len(q) + 1 /\ Len(q) \in Nat
  BY <1>1, LenProperties
<1>3. \A k \in 1 .. Len(q) + 1 : k \in 1 .. Len(q) \/ k = Len(q) + 1
  BY <1>2
<1>4. ToSet(Append(q, r)) = ToSet(q) \cup {r}
  <2>1. ToSet(Append(q, r)) \subseteq ToSet(q) \cup {r}
    BY <1>1, <1>2, <1>3 DEF ToSet
  <2>2. ToSet(q) \cup {r} \subseteq ToSet(Append(q, r))
    <3>1. \A k \in 1 .. Len(q) : k \in 1 .. Len(q) + 1
      BY <1>2
    <3>2. Len(q) + 1 \in 1 .. Len(q) + 1
      BY <1>2
    <3>3. QED
      BY <1>1, <1>2, <3>1, <3>2 DEF ToSet
  <2>3. QED
    BY <2>1, <2>2
<1>5. ASSUME NoRepeat(q), r \notin ToSet(q) PROVE NoRepeat(Append(q, r))
  <2>1. \A k \in 1 .. Len(q) : q[k] # r
    BY <1>2, <1>5 DEF ToSet
  <2>2. QED
    BY <1>1, <1>3, <1>5, <2>1 DEF NoRepeat
<1>6. QED
  BY <1>1, <1>2, <1>4, <1>5

(* What leaving a queue does to its members. *)
LEMMA QueueTail ==
  ASSUME NEW S, NEW q \in Seq(S), q # <<>>
  PROVE  /\ Tail(q) \in Seq(S) /\ Head(q) \in ToSet(q) /\ Head(q) \in S
         /\ NoRepeat(q) => NoRepeat(Tail(q)) /\ ToSet(Tail(q)) = ToSet(q) \ {Head(q)}
<1>1. /\ Head(q) \in S /\ Tail(q) \in Seq(S) /\ Head(q) = q[1]
      /\ Len(q) \in Nat /\ Len(q) # 0 /\ Len(Tail(q)) = Len(q) - 1
      /\ \A k \in 1 .. Len(q) - 1 : Tail(q)[k] = q[k + 1]
  BY HeadTailProperties, EmptySeq, LenProperties
<1>2. DOMAIN q = 1 .. Len(q) /\ DOMAIN Tail(q) = 1 .. Len(q) - 1
  BY <1>1, LenProperties
<1>3. 1 \in 1 .. Len(q) /\ \A k \in 1 .. Len(q) - 1 : k + 1 \in 1 .. Len(q) /\ k + 1 # 1
  BY <1>1
<1>4. \A k \in 1 .. Len(q) : k = 1 \/ (k - 1 \in 1 .. Len(q) - 1 /\ Tail(q)[k - 1] = q[k])
  BY <1>1
<1>5. ASSUME NoRepeat(q) PROVE NoRepeat(Tail(q))
  <2>1. \A j, k \in 1 .. Len(q) - 1 : q[j + 1] = q[k + 1] => j + 1 = k + 1
    BY <1>3, <1>5 DEF NoRepeat
  <2>2. QED
    BY <1>1, <2>1 DEF NoRepeat
<1>6. ASSUME NoRepeat(q) PROVE ToSet(Tail(q)) = ToSet(q) \ {Head(q)}
  <2>1. ASSUME NEW k \in 1 .. Len(q) - 1 PROVE q[k + 1] \in ToSet(q) \ {q[1]}
    BY <1>2, <1>3, <1>6 DEF NoRepeat, ToSet
  <2>2. ToSet(Tail(q)) \subseteq ToSet(q) \ {Head(q)}
    BY <1>1, <1>2, <2>1 DEF ToSet
  <2>3. ASSUME NEW k \in 1 .. Len(q), q[k] # q[1] PROVE q[k] \in ToSet(Tail(q))
    <3>1. k - 1 \in 1 .. Len(q) - 1 /\ Tail(q)[k - 1] = q[k]
      BY <1>4, <2>3
    <3>2. QED
      BY <1>2, <3>1 DEF ToSet
  <2>4. ToSet(q) \ {Head(q)} \subseteq ToSet(Tail(q))
    BY <1>1, <1>2, <2>3 DEF ToSet
  <2>5. QED
    BY <2>2, <2>4
<1>7. Head(q) \in ToSet(q)
  BY <1>1, <1>2, <1>3 DEF ToSet
<1>8. QED
  BY <1>1, <1>5, <1>6, <1>7


------------------------------------------------------------------------

LEMMA LastType ==
  ASSUME NEW S, NEW s \in Seq(S), s # <<>>
  PROVE  Last(s) \in S
<1>1. Len(s) \in 1 .. Len(s)
  BY EmptySeq, LenProperties
<1>2. QED
  BY <1>1, ElementOfSeq DEF Last

LEMMA FrontType ==
  ASSUME NEW S, NEW s \in Seq(S), s # <<>>
  PROVE  /\ Front(s) \in Seq(S) /\ Len(Front(s)) = Len(s) - 1
         /\ \A k \in 1 .. Len(s) - 1 : Front(s)[k] = s[k]
<1>1. Len(s) \in Nat \ {0} /\ \A k \in 1 .. Len(s) : s[k] \in S
  BY EmptySeq, LenProperties, ElementOfSeq
<1>2. Front(s) = [k \in 1 .. Len(s) - 1 |-> s[k]]
  <2>1. Front(s) = SubSeq(s, 1, Len(s) - 1)
    BY DEF Front
  <2>2. QED
    BY <1>1, <2>1 DEF SubSeq
<1>3. \A k \in 1 .. Len(s) - 1 : s[k] \in S
  BY <1>1
<1>4. Len(s) - 1 \in Nat
  BY <1>1
<1>5. QED
  BY <1>2, <1>3, <1>4, IsASeq

(* The stream that answers has someone to take out of the queue.           *)
LEMMA TopWaits ==
  ASSUME TypeOK, StreamsFit, resolving # <<>>,
         NEW f \in Frames, f = Last(resolving)
  PROVE  /\ On(resolving, f.w, {f.then})
         /\ f.then \in Reads => On(resolving, f.w, Reads) /\ readWaiting[f.w] # <<>>
         /\ f.then \in Accepts => On(resolving, f.w, Accepts) /\ acceptWaiting[f.w] # <<>>
<1>1. resolving \in Seq(Frames) /\ f.w \in Wrap
  BY DEF TypeOK, StackTypes, Frames
<1>2. Len(resolving) \in 1 .. Len(resolving) /\ resolving[Len(resolving)] = f
  BY <1>1, EmptySeq, LenProperties DEF Last
<1>3. \A kinds : f.then \in kinds => On(resolving, f.w, kinds)
  BY <1>2 DEF On
<1>4. QED
  BY <1>1, <1>3 DEF StreamsFit, Told

-----------------------------------------------------------------------------
(* Types. *)

LEMMA QueueTypes ==
  ASSUME TypeOK
  PROVE  /\ \A w \in Wrap, r \in Req : Append(readWaiting[w], r) \in Seq(Req)
         /\ \A w \in Wrap, r \in Req : Append(acceptWaiting[w], r) \in Seq(Req)
         /\ \A w \in Wrap : readWaiting[w] # <<>> =>
              Head(readWaiting[w]) \in Req /\ Tail(readWaiting[w]) \in Seq(Req)
         /\ \A w \in Wrap : acceptWaiting[w] # <<>> =>
              Head(acceptWaiting[w]) \in Req /\ Tail(acceptWaiting[w]) \in Seq(Req)
         /\ \A w \in Wrap : ToSet(readWaiting[w]) \subseteq Req
         /\ \A w \in Wrap : ToSet(acceptWaiting[w]) \subseteq Req
<1>1. \A w \in Wrap : readWaiting[w] \in Seq(Req) /\ acceptWaiting[w] \in Seq(Req)
  BY DEF TypeOK, BufTypes
<1>2. \A q \in Seq(Req) : ToSet(q) \subseteq Req
  BY ElementOfSeq, LenProperties DEF ToSet
<1>3. QED
  BY <1>1, <1>2, QueueAppend, QueueTail

(* Answering requests, and waiting for libuv, keep the types. *)
LEMMA RequestTypes ==
  ASSUME TypeOK
  PROVE  /\ \A rs : Answers(rs) \in [Req -> Nat]
         /\ \A rs : Finish(rs) => ReqTypes'
         /\ \A r \in Req, what \in Wait, h \in Maybe(Handle) :
              Await(r, what, h) /\ (what = "connect" => h \in Handle) => ReqTypes'
         /\ UNCHANGED reqVars => ReqTypes'
<1>1. /\ doing \in [Req -> Wait] /\ target \in [Req -> Maybe(Handle)] /\ answers \in [Req -> Nat]
      /\ \A r \in Req : doing[r] = "connect" => target[r] \in Handle
  BY DEF TypeOK, ReqTypes
<1>2. \A rs : Answers(rs) \in [Req -> Nat]
  BY <1>1 DEF Answers
<1>3. \A rs : [r \in Req |-> IF r \in rs THEN "none" ELSE doing[r]] \in [Req -> Wait]
  BY <1>1 DEF Wait
<1>4. \A r \in Req, what \in Wait, h \in Maybe(Handle) :
         /\ [doing EXCEPT ![r] = what] \in [Req -> Wait]
         /\ [target EXCEPT ![r] = h] \in [Req -> Maybe(Handle)]
  BY <1>1
<1>5. ASSUME NEW rs, Finish(rs) PROVE ReqTypes'
  BY <1>1, <1>2, <1>3, <1>5 DEF Finish, ReqTypes
<1>6. ASSUME NEW r \in Req, NEW what \in Wait, NEW h \in Maybe(Handle), Await(r, what, h),
             what = "connect" => h \in Handle
      PROVE  ReqTypes'
  BY <1>1, <1>4, <1>6 DEF Await, ReqTypes
<1>7. QED
  BY <1>1, <1>2, <1>5, <1>6 DEF ReqTypes, reqVars

LEMMA AnswerTypes ==
  ASSUME TypeOK, NEW r \in Req, NEW frame \in Frames, NEW stack \in Seq(Frames),
         Answer(r, frame, stack)
  PROVE  answers' \in [Req -> Nat] /\ StackTypes'
<1>1. answers' \in [Req -> Nat]
  BY RequestTypes DEF Answer
<1>2. fault \in {"none", "again", "freed"} /\ Append(stack, frame) \in Seq(Frames)
  BY AppendProperties DEF TypeOK, StackTypes
<1>3. QED
  BY <1>1, <1>2 DEF Answer, StackTypes

LEMMA ProcessingTypes ==
  ASSUME TypeOK, NEW w \in Wrap, NEW buf \in Seq(Nat), NEW rq \in Seq(Req), NEW aq \in Seq(Req),
         NEW stack \in Seq(Frames), Processing(w, buf, rq, aq, stack)
  PROVE  /\ readBuf' \in [Wrap -> Seq(Nat)] /\ given' \in [Wrap -> Seq(Nat)]
         /\ readWaiting' \in [Wrap -> Seq(Req)] /\ acceptWaiting' \in [Wrap -> Seq(Req)]
         /\ answers' \in [Req -> Nat] /\ StackTypes'
<1>1. /\ readBuf \in [Wrap -> Seq(Nat)] /\ given \in [Wrap -> Seq(Nat)]
      /\ readWaiting \in [Wrap -> Seq(Req)] /\ acceptWaiting \in [Wrap -> Seq(Req)]
      /\ answers \in [Req -> Nat] /\ fault \in {"none", "again", "freed"}
  BY DEF TypeOK, BufTypes, ReqTypes, StackTypes
<1>2. /\ readBuf' \in [Wrap -> Seq(Nat)] /\ readWaiting' \in [Wrap -> Seq(Req)]
      /\ acceptWaiting' \in [Wrap -> Seq(Req)]
  BY <1>1 DEF Processing
<1>3. given' \in [Wrap -> Seq(Nat)]
  <2>1. given[w] \o buf \in Seq(Nat)
    BY <1>1, ConcatProperties
  <2>2. given' = given \/ given' = [given EXCEPT ![w] = given[w] \o buf]
    BY <1>1 DEF Processing
  <2>3. QED
    BY <1>1, <2>1, <2>2
<1>4. /\ Frame(w, "data") \in Frames /\ Frame(w, "readers") \in Frames
      /\ Frame(w, "acceptors") \in Frames
  BY DEF Frame, Frames, Reads, Accepts
<1>5. (rq # <<>> => Head(rq) \in Req) /\ (aq # <<>> => Head(aq) \in Req)
  BY QueueTail
<1>6. answers' \in [Req -> Nat] /\ StackTypes'
  <2>1. \/ rq # <<>> /\ Answer(Head(rq), Frame(w, "data"), stack)
        \/ rq # <<>> /\ Answer(Head(rq), Frame(w, "readers"), stack)
        \/ aq # <<>> /\ Answer(Head(aq), Frame(w, "acceptors"), stack)
        \/ resolving' = stack /\ UNCHANGED <<answers, fault>>
    BY DEF Processing
  <2>2. CASE resolving' = stack /\ UNCHANGED <<answers, fault>>
    BY <1>1, <2>2 DEF StackTypes
  <2>3. QED
    BY <1>4, <1>5, <2>1, <2>2, AnswerTypes
<1>7. QED
  BY <1>2, <1>3, <1>6

LEMMA KeptTypes ==
  ASSUME TypeOK
  PROVE  /\ UNCHANGED wrapVars => WrapTypes'
         /\ UNCHANGED bufVars => BufTypes'
         /\ UNCHANGED handleVars => HandleTypes'
         /\ UNCHANGED procVars => ProcTypes'
         /\ UNCHANGED stackVars => StackTypes'
         /\ UNCHANGED used => (used \subseteq Req)'
         /\ \A r \in Req : Issue(r) => (used \subseteq Req)'
BY DEF TypeOK, WrapTypes, BufTypes, HandleTypes, ProcTypes, StackTypes,
   wrapVars, bufVars, handleVars, procVars, stackVars, Issue

LEMMA NewWrapTypes ==
  ASSUME TypeOK, NEW w \in Wrap, NEW h \in Handle, NEW as \in {"listener", "connecting", "peer"},
         NEW ds \in Maybe(Wrap), NewWrap(w, h, as, ds)
  PROVE  /\ held' \subseteq Wrap => WrapTypes'
         /\ reading' \subseteq Handle => HandleTypes'
BY DEF TypeOK, WrapTypes, HandleTypes, NewWrap, Maybe

LEMMA DestructTypes ==
  ASSUME TypeOK, NEW w \in Wrap, Destruct(w), UNCHANGED <<stream, closeOnDestruct, role>>
  PROVE  WrapTypes' /\ HandleTypes'
BY DEF TypeOK, WrapTypes, HandleTypes, Destruct, Maybe

LEMMA TypeStep ==
  ASSUME TypeOK, AnswerInv, [Next]_vars
  PROVE  TypeOK'
<1>1. CASE UNCHANGED vars
  BY <1>1, KeptTypes, RequestTypes DEF TypeOK, vars
<1>2. ASSUME NEW r \in Req, AtOnce(r) \/ FsRequest(r) \/ FsCb(r) \/ WriteCb(r)
      PROVE  TypeOK'
  <2>1. /\ UNCHANGED <<wrapVars, bufVars, handleVars, procVars, touched, stackVars>>
        /\ UNCHANGED used \/ Issue(r)
        /\ Finish({r}) \/ Await(r, "fs", Nil)
    BY <1>2 DEF AtOnce, FsRequest, FsCb, WriteCb
  <2>2. ReqTypes'
    BY <2>1, RequestTypes DEF Wait, Maybe
  <2>3. /\ WrapTypes' /\ BufTypes' /\ HandleTypes' /\ ProcTypes' /\ StackTypes'
        /\ (used \subseteq Req)'
    BY <2>1, KeptTypes
  <2>4. QED
    BY <2>1, <2>2, <2>3 DEF TypeOK
<1>3. ASSUME NEW r \in Req, NEW w \in Wrap, Accept(r, w) \/ Read(r, w) PROVE TypeOK'
  <2>1. /\ readBuf[w] \in Seq(Nat) /\ readWaiting[w] \in Seq(Req) /\ acceptWaiting[w] \in Seq(Req)
        /\ Append(readWaiting[w], r) \in Seq(Req) /\ Append(acceptWaiting[w], r) \in Seq(Req)
        /\ resolving \in Seq(Frames)
    BY QueueTypes DEF TypeOK, BufTypes, StackTypes
  <2>2. /\ UNCHANGED <<wrapVars, errcode, arrived, discarded, handleVars, procVars, doing, target>>
        /\ Issue(r)
        /\ \/ Processing(w, readBuf[w], readWaiting[w], Append(acceptWaiting[w], r), resolving)
           \/ Processing(w, readBuf[w], Append(readWaiting[w], r), acceptWaiting[w], resolving)
    BY <1>3 DEF Accept, Read
  <2>3. /\ readBuf' \in [Wrap -> Seq(Nat)] /\ given' \in [Wrap -> Seq(Nat)]
        /\ readWaiting' \in [Wrap -> Seq(Req)] /\ acceptWaiting' \in [Wrap -> Seq(Req)]
        /\ answers' \in [Req -> Nat] /\ StackTypes'
    BY <2>1, <2>2, ProcessingTypes
  <2>4. BufTypes' /\ ReqTypes'
    BY <2>2, <2>3 DEF TypeOK, BufTypes, ReqTypes
  <2>5. QED
    BY <2>2, <2>3, <2>4, KeptTypes DEF TypeOK
<1>4. ASSUME Resolved, fault = "none" PROVE TypeOK'
  <2>0. StreamsFit
    BY <1>4 DEF AnswerInv, Sound
  <2>1. PICK frame \in Frames : frame = Last(resolving)
    BY <1>4, LastType DEF Resolved, TypeOK, StackTypes
  <2>2. PICK w \in Wrap : w = frame.w
    BY DEF Frames
  <2>3. /\ readBuf[w] \in Seq(Nat) /\ readWaiting[w] \in Seq(Req) /\ acceptWaiting[w] \in Seq(Req)
        /\ <<>> \in Seq(Nat)
        /\ readBuf \in [Wrap -> Seq(Nat)] /\ given \in [Wrap -> Seq(Nat)]
        /\ readWaiting \in [Wrap -> Seq(Req)] /\ acceptWaiting \in [Wrap -> Seq(Req)]
        /\ answers \in [Req -> Nat] /\ fault \in {"none", "again", "freed"}
        /\ resolving \in Seq(Frames)
    BY EmptySeq DEF TypeOK, BufTypes, ReqTypes, StackTypes
  <2>4. Front(resolving) \in Seq(Frames)
    BY <1>4, <2>3, FrontType DEF Resolved
  <2>5. /\ frame.then \in Reads => Tail(readWaiting[w]) \in Seq(Req)
        /\ frame.then \in Accepts => Tail(acceptWaiting[w]) \in Seq(Req)
    BY <1>4, <2>0, <2>1, <2>2, <2>3, TopWaits, QueueTail DEF Resolved
  <2>6. UNCHANGED <<wrapVars, errcode, arrived, discarded, handleVars, procVars, doing, target, used>>
    BY <1>4 DEF Resolved
  <2>7. /\ readBuf' \in [Wrap -> Seq(Nat)] /\ given' \in [Wrap -> Seq(Nat)]
        /\ readWaiting' \in [Wrap -> Seq(Req)] /\ acceptWaiting' \in [Wrap -> Seq(Req)]
        /\ answers' \in [Req -> Nat] /\ StackTypes'
    <3>1. \/ /\ fault' = "freed"
             /\ UNCHANGED <<resolving, answers, readBuf, readWaiting, acceptWaiting, given>>
          \/ /\ frame.then \in Reads
             /\ Processing(w, <<>>, Tail(readWaiting[w]), acceptWaiting[w], Front(resolving))
          \/ /\ frame.then \in Accepts
             /\ Processing(w, readBuf[w], readWaiting[w], Tail(acceptWaiting[w]), Front(resolving))
          \/ /\ frame.then \in Accepts
             /\ acceptWaiting' = [acceptWaiting EXCEPT ![w] = Tail(acceptWaiting[w])]
             /\ resolving' = Front(resolving)
             /\ UNCHANGED <<answers, fault, readBuf, readWaiting, given>>
      BY <1>4, <2>1, <2>2, <2>3 DEF Resolved, Reads, Accepts
    <3>2. CASE /\ fault' = "freed"
               /\ UNCHANGED <<resolving, answers, readBuf, readWaiting, acceptWaiting, given>>
      BY <2>3, <3>2 DEF StackTypes
    <3>3. CASE /\ frame.then \in Accepts
               /\ acceptWaiting' = [acceptWaiting EXCEPT ![w] = Tail(acceptWaiting[w])]
               /\ resolving' = Front(resolving)
               /\ UNCHANGED <<answers, fault, readBuf, readWaiting, given>>
      BY <2>3, <2>4, <2>5, <3>3 DEF StackTypes
    <3>4. QED
      BY <2>3, <2>4, <2>5, <3>1, <3>2, <3>3, ProcessingTypes
  <2>8. BufTypes' /\ ReqTypes'
    BY <2>6, <2>7 DEF TypeOK, BufTypes, ReqTypes
  <2>9. QED
    BY <2>6, <2>7, <2>8, KeptTypes DEF TypeOK
<1>5. ASSUME NEW r \in Req, NEW w \in Wrap, Write(r, w) PROVE TypeOK'
  <2>1. stream[w] \in Maybe(Handle)
    BY DEF TypeOK, WrapTypes
  <2>2. ReqTypes'
    BY <1>5, <2>1, RequestTypes DEF Write, Wait
  <2>3. QED
    BY <1>5, <2>2, KeptTypes DEF TypeOK, Write
<1>6. ASSUME NEW r \in Req, NEW w \in Wrap, ConnectCb(r, w) PROVE TypeOK'
  <2>1. ReqTypes' /\ BufTypes' /\ ProcTypes' /\ StackTypes' /\ (used \subseteq Req)'
    BY <1>6, KeptTypes, RequestTypes DEF ConnectCb
  <2>2. UNCHANGED <<stream, closeOnDestruct>> /\ stream[w] \in Maybe(Handle) /\ stream[w] = target[r]
    BY <1>6 DEF ConnectCb, TypeOK, WrapTypes
  <2>3. CASE Destruct(w) /\ UNCHANGED role
    BY <2>1, <2>2, <2>3, DestructTypes DEF TypeOK
  <2>4. CASE /\ held' = held \cup {w}
             /\ role' = [role EXCEPT ![target[r]] = "peer"]
             /\ data' = [data EXCEPT ![target[r]] = w]
             /\ reading' = reading \cup {target[r]}
             /\ UNCHANGED <<wrap, handle>>
    <3>1. target[r] \in Handle
      BY <1>6 DEF ConnectCb, TypeOK, ReqTypes
    <3>2. WrapTypes'
      BY <2>2, <2>4 DEF TypeOK, WrapTypes
    <3>3. HandleTypes'
      BY <2>4, <3>1 DEF TypeOK, HandleTypes, Maybe
    <3>4. QED
      BY <2>1, <3>2, <3>3 DEF TypeOK
  <2>5. QED
    BY <1>6, <2>3, <2>4 DEF ConnectCb
<1>7. ASSUME NEW r \in Req, NEW w \in Wrap, Stdio(r, w) PROVE TypeOK'
  <2>1. stdio \in Handle
    BY <1>7 DEF Stdio, TypeOK, ProcTypes
  <2>2. WrapTypes' /\ HandleTypes'
    BY <1>7, <2>1 DEF Stdio, TypeOK, WrapTypes, HandleTypes, Maybe
  <2>3. QED
    BY <1>7, <2>2, KeptTypes, RequestTypes DEF Stdio, TypeOK
<1>8. ASSUME NEW r \in Req, NEW w \in Wrap, NEW h \in Handle, Bind(r, w, h) PROVE TypeOK'
  <2>1. /\ ReqTypes' /\ BufTypes' /\ ProcTypes' /\ StackTypes' /\ (used \subseteq Req)'
        /\ UNCHANGED reading
    BY <1>8, KeptTypes, RequestTypes DEF Bind
  <2>2. CASE NewWrap(w, h, "listener", w) /\ held' = held \cup {w}
    BY <2>1, <2>2, NewWrapTypes DEF TypeOK, WrapTypes, HandleTypes, Maybe
  <2>3. CASE /\ wrap' = [wrap EXCEPT ![w] = "freed"]
             /\ stream' = [stream EXCEPT ![w] = h]
             /\ closeOnDestruct' = [closeOnDestruct EXCEPT ![w] = TRUE]
             /\ handle' = [handle EXCEPT ![h] = "closing"]
             /\ UNCHANGED <<held, data, role>>
    BY <2>1, <2>3 DEF TypeOK, WrapTypes, HandleTypes, Maybe
  <2>4. QED
    BY <1>8, <2>2, <2>3 DEF Bind
<1>9. ASSUME NEW r \in Req, NEW w \in Wrap, NEW h \in Handle, Connect(r, w, h) PROVE TypeOK'
  <2>1. ReqTypes'
    BY <1>9, RequestTypes DEF Connect, Wait, Maybe
  <2>2. WrapTypes' /\ HandleTypes'
    BY <1>9, NewWrapTypes DEF Connect, TypeOK, WrapTypes, HandleTypes, Maybe
  <2>3. QED
    BY <1>9, <2>1, <2>2, KeptTypes DEF Connect, TypeOK
<1>10. ASSUME NEW r \in Req, NEW h \in Handle, Spawn(r, h) PROVE TypeOK'
  <2>1. ReqTypes'
    BY <1>10, RequestTypes DEF Spawn
  <2>2. ProcTypes' /\ HandleTypes'
    BY <1>10 DEF Spawn, TypeOK, ProcTypes, HandleTypes, Maybe, procVars
  <2>3. QED
    BY <1>10, <2>1, <2>2, KeptTypes DEF Spawn, TypeOK
<1>11. ASSUME NEW w \in Wrap, FreeRef(w) PROVE TypeOK'
  BY <1>11, DestructTypes, KeptTypes, RequestTypes DEF TypeOK, FreeRef
<1>12. ASSUME NEW w \in Wrap, ConnectionError(w) PROVE TypeOK'
  <2>1. /\ readBuf[w] \in Seq(Nat) /\ readWaiting[w] \in Seq(Req) /\ acceptWaiting[w] \in Seq(Req)
        /\ resolving \in Seq(Frames) /\ errcode \in [Wrap -> BOOLEAN]
    BY DEF TypeOK, BufTypes, StackTypes
  <2>2. /\ UNCHANGED <<wrapVars, arrived, discarded, handleVars, procVars, doing, target, used>>
        /\ errcode' = [errcode EXCEPT ![w] = TRUE]
        /\ Processing(w, readBuf[w], readWaiting[w], acceptWaiting[w], resolving)
    BY <1>12 DEF ConnectionError
  <2>3. /\ readBuf' \in [Wrap -> Seq(Nat)] /\ given' \in [Wrap -> Seq(Nat)]
        /\ readWaiting' \in [Wrap -> Seq(Req)] /\ acceptWaiting' \in [Wrap -> Seq(Req)]
        /\ answers' \in [Req -> Nat] /\ StackTypes' /\ errcode' \in [Wrap -> BOOLEAN]
    BY <2>1, <2>2, ProcessingTypes
  <2>4. BufTypes' /\ ReqTypes'
    BY <2>2, <2>3 DEF TypeOK, BufTypes, ReqTypes
  <2>5. QED
    BY <2>2, <2>3, <2>4, KeptTypes DEF TypeOK
<1>13. ASSUME NEW w \in Wrap, NEW new \in Wrap, NEW h \in Handle, Connection(w, new, h) PROVE TypeOK'
  <2>1. /\ PushConn(w, new) /\ NewWrap(new, h, "peer", new) /\ reading' = reading \cup {h}
        /\ UNCHANGED <<bufVars, procVars, doing, target, used>>
    BY <1>13 DEF Connection
  <2>2. resolving \in Seq(Frames) /\ Frame(w, "conn") \in Frames /\ held \subseteq Wrap
    BY DEF TypeOK, StackTypes, WrapTypes, Frame, Frames, Reads, Accepts
  <2>3. answers' \in [Req -> Nat] /\ StackTypes' /\ held' \subseteq Wrap
    <3>1. CASE acceptWaiting[w] = <<>>
      BY <2>1, <2>2, <3>1, KeptTypes DEF PushConn, TypeOK, ReqTypes
    <3>2. CASE acceptWaiting[w] # <<>>
      BY <2>1, <2>2, <3>2, QueueTypes, AnswerTypes DEF PushConn
    <3>3. QED
      BY <3>1, <3>2
  <2>4. ReqTypes'
    BY <2>1, <2>3 DEF TypeOK, ReqTypes
  <2>5. reading' \subseteq Handle
    BY <2>1 DEF TypeOK, HandleTypes
  <2>6. WrapTypes' /\ HandleTypes'
    BY <2>1, <2>3, <2>5, NewWrapTypes DEF Maybe
  <2>7. QED
    BY <2>1, <2>3, <2>4, <2>6, KeptTypes DEF TypeOK
<1>14. ASSUME NEW h \in Handle, CloseCb(h) PROVE TypeOK'
  <2>1. HandleTypes'
    BY <1>14 DEF CloseCb, TypeOK, HandleTypes
  <2>2. QED
    BY <1>14, <2>1, KeptTypes, RequestTypes DEF TypeOK, CloseCb
<1>15. ASSUME NEW h \in Handle, Arrives(h) PROVE TypeOK'
  <2>1. data[h] \in Wrap /\ doing' = doing /\ target' = target /\ resolving \in Seq(Frames)
    BY <1>15 DEF TypeOK, HandleTypes, Arrives, Maybe, StackTypes
  <2>2. WrapTypes' /\ HandleTypes' /\ ProcTypes' /\ (used \subseteq Req)'
    BY <1>15, KeptTypes DEF Arrives
  <2>3. CASE wrap[data[h]] = "freed"
    <3>1. UNCHANGED bufVars /\ UNCHANGED reqVars /\ UNCHANGED stackVars
      BY <1>15, <2>1, <2>3 DEF Arrives, reqVars
    <3>2. QED
      BY <2>2, <3>1, KeptTypes, RequestTypes DEF TypeOK
  <2>4. CASE wrap[data[h]] # "freed"
    <3>1. /\ Len(arrived[data[h]]) + 1 \in Nat
          /\ arrived[data[h]] \in Seq(Nat) /\ readBuf[data[h]] \in Seq(Nat)
          /\ readWaiting[data[h]] \in Seq(Req) /\ acceptWaiting[data[h]] \in Seq(Req)
      BY <2>1, LenProperties DEF TypeOK, BufTypes
    <3>2. /\ Append(arrived[data[h]], Len(arrived[data[h]]) + 1) \in Seq(Nat)
          /\ Append(readBuf[data[h]], Len(arrived[data[h]]) + 1) \in Seq(Nat)
      BY <3>1, AppendProperties
    <3>3. /\ arrived' = [arrived EXCEPT ![data[h]] =
                            Append(arrived[data[h]], Len(arrived[data[h]]) + 1)]
          /\ PushData(data[h], Len(arrived[data[h]]) + 1)
          /\ UNCHANGED errcode
      BY <1>15, <2>4 DEF Arrives, TypeOK, BufTypes
    <3>4. /\ readBuf' \in [Wrap -> Seq(Nat)] /\ given' \in [Wrap -> Seq(Nat)]
          /\ readWaiting' \in [Wrap -> Seq(Req)] /\ acceptWaiting' \in [Wrap -> Seq(Req)]
          /\ answers' \in [Req -> Nat] /\ discarded' \in [Wrap -> BOOLEAN] /\ StackTypes'
      <4>1. CASE Len(readBuf[data[h]]) > Limit
        BY <3>3, <4>1, KeptTypes DEF TypeOK, BufTypes, ReqTypes, PushData
      <4>2. CASE ~(Len(readBuf[data[h]]) > Limit)
        <5>1. Processing(data[h], Append(readBuf[data[h]], Len(arrived[data[h]]) + 1),
                         readWaiting[data[h]], acceptWaiting[data[h]], resolving)
              /\ UNCHANGED discarded
          BY <3>3, <4>2 DEF PushData
        <5>2. QED
          BY <2>1, <3>1, <3>2, <5>1, ProcessingTypes DEF TypeOK, BufTypes
      <4>3. QED
        BY <4>1, <4>2
    <3>5. BufTypes' /\ ReqTypes'
      BY <2>1, <3>2, <3>3, <3>4 DEF TypeOK, BufTypes, ReqTypes
    <3>6. QED
      BY <2>2, <3>4, <3>5 DEF TypeOK
  <2>5. QED
    BY <2>3, <2>4
<1>16. ASSUME NEW h \in Handle, ReadEnds(h) PROVE TypeOK'
  <2>1. HandleTypes'
    BY <1>16 DEF ReadEnds, TypeOK, HandleTypes
  <2>2. QED
    BY <1>16, <2>1, KeptTypes, RequestTypes DEF TypeOK, ReadEnds
<1>17. ASSUME FreeProc \/ ProcExit PROVE TypeOK'
  <2>1. HandleTypes' /\ ProcTypes'
    BY <1>17 DEF FreeProc, ProcExit, TypeOK, HandleTypes, ProcTypes, Maybe, handleVars
  <2>2. QED
    BY <1>17, <2>1, KeptTypes, RequestTypes DEF TypeOK, FreeProc, ProcExit
<1>18. QED
  BY <1>1, <1>2, <1>3, <1>4, <1>5, <1>6, <1>7, <1>8, <1>9, <1>10, <1>11, <1>12, <1>13, <1>14, <1>15,
     <1>16, <1>17 DEF Next, ClientNext, LibuvNext


--------------------------------------------------------------------
-----------------------------------------------------------------------------
(* The streams inside an answer. *)

LEMMA OnPush ==
  ASSUME NEW stack \in Seq(Frames), NEW f \in Frames
  PROVE  \A v, kinds : On(Append(stack, f), v, kinds)
                         <=> On(stack, v, kinds) \/ (f.w = v /\ f.then \in kinds)
<1>1. /\ Len(Append(stack, f)) = Len(stack) + 1 /\ Len(stack) \in Nat
      /\ \A k \in 1 .. Len(stack) : Append(stack, f)[k] = stack[k]
      /\ Append(stack, f)[Len(stack) + 1] = f
  BY AppendProperties, LenProperties
<1>2. \A k \in 1 .. Len(stack) + 1 : k \in 1 .. Len(stack) \/ k = Len(stack) + 1
  BY <1>1
<1>3. Len(stack) + 1 \in 1 .. Len(stack) + 1 /\ \A k \in 1 .. Len(stack) : k \in 1 .. Len(stack) + 1
  BY <1>1
<1>4. QED
  BY <1>1, <1>2, <1>3 DEF On

LEMMA OnPop ==
  ASSUME NEW s \in Seq(Frames), s # <<>>
  PROVE  \A v, kinds : On(s, v, kinds)
                         <=> On(Front(s), v, kinds) \/ (Last(s).w = v /\ Last(s).then \in kinds)
<1>1. /\ Len(s) \in Nat \ {0} /\ Len(Front(s)) = Len(s) - 1
      /\ \A k \in 1 .. Len(s) - 1 : Front(s)[k] = s[k]
  BY FrontType, EmptySeq, LenProperties
<1>2. /\ \A k \in 1 .. Len(s) : k \in 1 .. Len(s) - 1 \/ k = Len(s)
      /\ Len(s) \in 1 .. Len(s) /\ \A k \in 1 .. Len(s) - 1 : k \in 1 .. Len(s)
  BY <1>1
<1>3. QED
  BY <1>1, <1>2 DEF On, Last

LEMMA StackedPush ==
  ASSUME NEW stack \in Seq(Frames), NEW f \in Frames, Stacked(stack),
         ~On(stack, f.w, Reads), f.then \in Reads \/ ~On(stack, f.w, Accepts)
  PROVE  Stacked(Append(stack, f))
<1>1. /\ Len(Append(stack, f)) = Len(stack) + 1 /\ Len(stack) \in Nat
      /\ \A k \in 1 .. Len(stack) : Append(stack, f)[k] = stack[k]
      /\ Append(stack, f)[Len(stack) + 1] = f
  BY AppendProperties, LenProperties
<1>2. \A k \in 1 .. Len(stack) : stack[k].then \in Reads \cup Accepts
  <2>1. \A k \in 1 .. Len(stack) : stack[k] \in Frames
    BY ElementOfSeq
  <2>2. QED
    BY <2>1 DEF Frames
<1>3. \A k \in 1 .. Len(stack) : stack[k].w = f.w => stack[k].then \in Accepts /\ f.then \in Reads
  BY <1>2 DEF On
<1>4. ASSUME NEW j \in 1 .. Len(stack) + 1, NEW k \in 1 .. Len(stack) + 1, j < k
      PROVE  j \in 1 .. Len(stack) /\ (k \in 1 .. Len(stack) \/ k = Len(stack) + 1)
  BY <1>1, <1>4
<1>5. QED
  BY <1>1, <1>3, <1>4 DEF Stacked

LEMMA StackedPop ==
  ASSUME NEW s \in Seq(Frames), s # <<>>, Stacked(s)
  PROVE  /\ Stacked(Front(s)) /\ ~On(Front(s), Last(s).w, Reads)
         /\ Last(s).then \in Accepts => ~On(Front(s), Last(s).w, Accepts)
<1>1. /\ Len(s) \in Nat \ {0} /\ Len(Front(s)) = Len(s) - 1
      /\ \A k \in 1 .. Len(s) - 1 : Front(s)[k] = s[k]
  BY FrontType, EmptySeq, LenProperties
<1>2. \A k \in 1 .. Len(s) - 1 : k \in 1 .. Len(s) /\ k < Len(s)
  BY <1>1
<1>3. Stacked(Front(s))
  BY <1>1, <1>2 DEF Stacked
<1>4. Len(s) \in 1 .. Len(s)
  BY <1>1
<1>5. \A k \in 1 .. Len(s) - 1 :
         s[k].w = Last(s).w => s[k].then \in Accepts /\ Last(s).then \in Reads
  BY <1>2, <1>4 DEF Stacked, Last
<1>6. Reads \cap Accepts = {}
  BY DEF Reads, Accepts
<1>7. QED
  BY <1>1, <1>3, <1>5, <1>6 DEF On

(* A stream whose answers and whose requests stay as they are. *)
LEMMA ToldOther ==
  ASSUME NEW s, NEW t, NEW v, NEW q \in Seq(Req), NEW a \in Seq(Req), NEW b, NEW e, NEW c, NEW d,
         \A kinds : On(t, v, kinds) <=> On(s, v, kinds),
         \A r \in ToSet(q) \cup ToSet(a) : d[r] = c[r]
  PROVE  /\ Told(s, v, q, a, b, e, c) => Told(t, v, q, a, b, e, d)
         /\ Behind(s, v, q, a, b, e) => Behind(t, v, q, a, b, e)
<1>1. (q # <<>> => Head(q) \in ToSet(q)) /\ (a # <<>> => Head(a) \in ToSet(a))
  BY QueueTail
<1>2. QED
  BY <1>1 DEF Told, Behind

(* The first of a queue is answered. *)
LEMMA PushTold ==
  ASSUME NEW w \in Wrap, NEW q \in Seq(Req), NEW a \in Seq(Req), NEW b, NEW e, NEW c \in [Req -> Nat],
         NEW stack \in Seq(Frames), Stacked(stack), Told(stack, w, q, a, b, e, c),
         ToSet(q) \cap ToSet(a) = {},
         NEW then \in Reads \cup Accepts, NEW r \in Req, c[r] = 0,
         then \in Reads => q # <<>> /\ r = Head(q),
         then \in Accepts => a # <<>> /\ r = Head(a) /\ ~On(stack, w, Reads),
         then = "data" => b # <<>>, then = "readers" => b = <<>>, then = "conn" => ~e,
         NEW d, d = [s \in Req |-> IF s \in {r} THEN c[s] + 1 ELSE c[s]]
  PROVE  /\ Stacked(Append(stack, Frame(w, then)))
         /\ Told(Append(stack, Frame(w, then)), w, q, a, b, e, d)
<1>0. Frame(w, then) \in Frames /\ Frame(w, then).w = w /\ Frame(w, then).then = then
  BY DEF Frame, Frames
<1>1. PICK f \in Frames : f = Frame(w, then) /\ f.w = w /\ f.then = then
  BY <1>0
<1>2. Reads \cap Accepts = {} /\ "data" \in Reads /\ "readers" \in Reads /\ "conn" \in Accepts
  BY DEF Reads, Accepts
<1>3. (then \in Reads => ~On(stack, w, Reads)) /\ (then \in Accepts => ~On(stack, w, Accepts))
  BY DEF Told
<1>4. Stacked(Append(stack, f))
  BY <1>1, <1>2, <1>3, StackedPush
<1>5. d[r] = 1 /\ \A s \in Req : s # r => d[s] = c[s]
  OBVIOUS
<1>6. /\ ToSet(q) \subseteq Req /\ ToSet(a) \subseteq Req
      /\ q # <<>> => Head(q) \in ToSet(q)
      /\ a # <<>> => Head(a) \in ToSet(a)
  BY QueueTail, ElementOfSeq, LenProperties DEF ToSet
<1>7. \A kinds : On(Append(stack, f), w, kinds) <=> On(stack, w, kinds) \/ then \in kinds
  BY <1>1, OnPush
<1>8. \A kinds, more : kinds \subseteq more /\ On(stack, w, kinds) => On(stack, w, more)
  BY DEF On
<1>9. CASE then \in Reads
  <2>1. r \in ToSet(q) /\ r \notin ToSet(a) /\ r = Head(q) /\ q # <<>> /\ then \notin Accepts
    BY <1>2, <1>6, <1>9
  <2>2. ~On(stack, w, {"data"}) /\ ~On(stack, w, {"readers"}) /\ ~On(stack, w, Reads)
    BY <1>2, <1>3, <1>8, <1>9
  <2>3. /\ \A s \in ToSet(a) : d[s] = c[s]
        /\ \A s \in ToSet(q) : s # r => d[s] = c[s]
    BY <1>5, <1>6, <2>1
  <2>4. /\ On(Append(stack, f), w, Reads)
        /\ On(Append(stack, f), w, {"data"}) <=> then = "data"
        /\ On(Append(stack, f), w, {"readers"}) <=> then = "readers"
        /\ On(Append(stack, f), w, {"conn"}) <=> On(stack, w, {"conn"})
        /\ On(Append(stack, f), w, Accepts) <=> On(stack, w, Accepts)
    BY <1>2, <1>7, <1>9, <2>1, <2>2
  <2>5. Told(Append(stack, f), w, q, a, b, e, d)
    BY <1>5, <1>6, <2>1, <2>2, <2>3, <2>4 DEF Told
  <2>6. QED
    BY <1>1, <1>4, <2>5
<1>10. CASE then \in Accepts
  <2>1. r \in ToSet(a) /\ r \notin ToSet(q) /\ r = Head(a) /\ a # <<>> /\ then \notin Reads
    BY <1>2, <1>6, <1>10
  <2>2. ~On(stack, w, Accepts) /\ ~On(stack, w, Reads)
    BY <1>3, <1>10
  <2>3. /\ \A s \in ToSet(q) : d[s] = c[s]
        /\ \A s \in ToSet(a) : s # r => d[s] = c[s]
    BY <1>5, <1>6, <2>1
  <2>4. /\ On(Append(stack, f), w, Accepts)
        /\ On(Append(stack, f), w, {"data"}) <=> On(stack, w, {"data"})
        /\ On(Append(stack, f), w, {"readers"}) <=> On(stack, w, {"readers"})
        /\ On(Append(stack, f), w, {"conn"}) => then = "conn" \/ On(stack, w, {"conn"})
        /\ On(Append(stack, f), w, Reads) <=> On(stack, w, Reads)
    BY <1>2, <1>7, <1>10, <2>1
  <2>5. Told(Append(stack, f), w, q, a, b, e, d)
    BY <1>5, <1>6, <2>1, <2>2, <2>3, <2>4 DEF Told
  <2>6. QED
    BY <1>1, <1>4, <2>5
<1>11. QED
  BY <1>9, <1>10

(* The request that is answered again is the first of a stream inside its  *)
(* own answer.                                                             *)
Again(w, q, a, stack, count) ==
  \E k \in 1 .. Len(stack), r \in Req :
    /\ stack[k].w = w
    /\ r = IF stack[k].then \in Reads THEN Head(q) ELSE Head(a)
    /\ count[r] = 2 /\ \A s \in Req : s # r => count[s] <= 1

LEMMA AnswerAgain ==
  ASSUME NEW w \in Wrap, NEW q \in Seq(Req), NEW a \in Seq(Req), NEW b, NEW e, NEW c \in [Req -> Nat],
         NEW stack \in Seq(Frames), Told(stack, w, q, a, b, e, c),
         \A s \in Req : c[s] <= 1,
         NEW r \in Req, c[r] > 0, r \in ToSet(q) \/ r \in ToSet(a),
         NEW d, d = [s \in Req |-> IF s \in {r} THEN c[s] + 1 ELSE c[s]]
  PROVE  Again(w, q, a, stack, d)
<1>1. c[r] # 0 /\ c[r] = 1
  <2>1. c[r] \in Nat /\ c[r] <= 1
    OBVIOUS
  <2>2. QED
    BY <2>1
<1>2. d[r] = 2 /\ \A s \in Req : s # r => d[s] <= 1
  BY <1>1
<1>3. \A k \in 1 .. Len(stack) : stack[k].then \in Accepts => stack[k].then \notin Reads
  BY DEF Reads, Accepts
<1>4. \/ On(stack, w, Reads) /\ r = Head(q)
      \/ On(stack, w, Accepts) /\ r = Head(a)
  BY <1>1 DEF Told
<1>5. QED
  BY <1>2, <1>3, <1>4 DEF On, Again

(* What a stream's processing does to its answers.                         *)
Processed(w, buf, rq, aq, stack) ==
  \/ fault' = "again" /\ resolving' = stack /\ Again(w, rq, aq, stack, answers')
  \/ /\ fault' = "none" /\ Stacked(resolving')
     /\ Told(resolving', w, rq, aq, buf, errcode'[w], answers')
     /\ Behind(resolving', w, rq, aq, buf, errcode'[w])
     /\ \/ resolving' = stack /\ answers' = answers
        \/ \E then \in Reads \cup Accepts, r \in ToSet(rq) \cup ToSet(aq) :
             /\ resolving' = Append(stack, Frame(w, then))
             /\ answers[r] = 0 /\ answers' = Answers({r})

LEMMA ProcessingTold ==
  ASSUME TypeOK, fault = "none", NEW w \in Wrap, NEW buf \in Seq(Nat), NEW rq \in Seq(Req),
         NEW aq \in Seq(Req), NEW stack \in Seq(Frames), Processing(w, buf, rq, aq, stack),
         Stacked(stack), Told(stack, w, rq, aq, buf, errcode'[w], answers),
         ToSet(rq) \cap ToSet(aq) = {}, \A r \in Req : answers[r] <= 1
  PROVE  Processed(w, buf, rq, aq, stack)
<1>1. answers \in [Req -> Nat] /\ stack \in Seq(Frames)
  BY DEF TypeOK, ReqTypes
<1>2. /\ rq # <<>> => Head(rq) \in Req /\ Head(rq) \in ToSet(rq)
      /\ aq # <<>> => Head(aq) \in Req /\ Head(aq) \in ToSet(aq)
  BY QueueTail
<1>3. /\ "data" \in Reads /\ "readers" \in Reads /\ "acceptors" \in Accepts
      /\ Reads \cap Accepts = {} /\ "data" # "readers" /\ "acceptors" \notin {"data", "readers", "conn"}
      /\ Reads \cup Accepts = {"data", "readers", "acceptors", "conn"}
  BY DEF Reads, Accepts
<1>4. \A t : Frame(w, t).w = w /\ Frame(w, t).then = t
  BY DEF Frame
<1>5. \A v, K, L : On(stack, v, K) /\ K \subseteq L => On(stack, v, L)
  BY DEF On
<1>6. ASSUME NEW then \in Reads \cup Accepts, NEW r \in Req,
             Answer(r, Frame(w, then), stack),
             then \in Reads => rq # <<>> /\ r = Head(rq),
             then \in Accepts => aq # <<>> /\ r = Head(aq) /\ ~On(stack, w, Reads),
             then = "data" => buf # <<>>, then = "readers" => buf = <<>>, then # "conn",
             Behind(Append(stack, Frame(w, then)), w, rq, aq, buf, errcode'[w])
      PROVE  \/ fault' = "again" /\ resolving' = stack /\ Again(w, rq, aq, stack, answers')
             \/ /\ fault' = "none" /\ Stacked(resolving')
                /\ Told(resolving', w, rq, aq, buf, errcode'[w], answers')
                /\ Behind(resolving', w, rq, aq, buf, errcode'[w])
                /\ r \in ToSet(rq) \cup ToSet(aq)
                /\ resolving' = Append(stack, Frame(w, then))
                /\ answers[r] = 0 /\ answers' = Answers({r})
  <2>0. /\ r \in ToSet(rq) \/ r \in ToSet(aq)
        /\ answers' = [s \in Req |-> IF s \in {r} THEN answers[s] + 1 ELSE answers[s]]
        /\ answers' = Answers({r})
    BY <1>2, <1>6 DEF Answer, Answers
  <2>1. CASE answers[r] > 0
    <3>1. fault' = "again" /\ resolving' = stack
      BY <1>6, <2>1 DEF Answer
    <3>2. PICK e : e = errcode'[w]
      OBVIOUS
    <3>3. PICK d : d = answers'
      OBVIOUS
    <3>a. Told(stack, w, rq, aq, buf, e, answers)
      BY <3>2
    <3>b. d = [s \in Req |-> IF s \in {r} THEN answers[s] + 1 ELSE answers[s]]
      BY <2>0, <3>3
    <3>4. Again(w, rq, aq, stack, d)
      <4>1. r \in ToSet(rq) \/ r \in ToSet(aq)
        BY <2>0
      <4>2. \A s \in Req : answers[s] <= 1
        OBVIOUS
      <4>3. QED
        BY ONLY <1>1, <2>1, <3>a, <3>b, <4>1, <4>2, w \in Wrap, rq \in Seq(Req), aq \in Seq(Req),
           r \in Req, AnswerAgain
    <3>5. QED
      BY <3>1, <3>3, <3>4
  <2>2. CASE ~(answers[r] > 0)
    <3>1. answers[r] = 0
      BY <1>1, <2>2
    <3>2. fault' = "none" /\ resolving' = Append(stack, Frame(w, then))
      BY <1>6, <2>2 DEF Answer
    <3>3. PICK e : e = errcode'[w]
      OBVIOUS
    <3>4. PICK d : d = answers'
      OBVIOUS
    <3>5. /\ Stacked(Append(stack, Frame(w, then)))
          /\ Told(Append(stack, Frame(w, then)), w, rq, aq, buf, e, d)
      <4>1. Told(stack, w, rq, aq, buf, e, answers) /\ Stacked(stack)
        BY <3>3
      <4>2. d = [s \in Req |-> IF s \in {r} THEN answers[s] + 1 ELSE answers[s]]
        BY <2>0, <3>4
      <4>3. /\ then \in Reads => rq # <<>> /\ r = Head(rq)
            /\ then \in Accepts => aq # <<>> /\ r = Head(aq) /\ ~On(stack, w, Reads)
            /\ then = "data" => buf # <<>>
            /\ then = "readers" => buf = <<>>
            /\ then = "conn" => ~e
        BY <1>6
      <4>4. QED
        BY <1>1, <3>1, <4>1, <4>2, <4>3, PushTold
    <3>6. QED
      BY <1>6, <2>0, <3>1, <3>2, <3>3, <3>4, <3>5
  <2>3. QED
    BY <2>1, <2>2
<1>7. \A t \in Reads \cup Accepts :
        /\ Frame(w, t) \in Frames
        /\ \A K : On(Append(stack, Frame(w, t)), w, K) <=> On(stack, w, K) \/ t \in K
  <2>1. \A t \in Reads \cup Accepts : Frame(w, t) \in Frames
    BY DEF Frame, Frames
  <2>2. QED
    BY <1>4, <2>1, OnPush
<1>8. CASE rq # <<>> /\ buf # <<>>
  <2>1. Answer(Head(rq), Frame(w, "data"), stack)
    BY <1>8 DEF Processing
  <2>2. /\ On(Append(stack, Frame(w, "data")), w, Reads)
        /\ On(Append(stack, Frame(w, "data")), w, Reads \cup Accepts)
    BY <1>3, <1>7
  <2>3. Behind(Append(stack, Frame(w, "data")), w, rq, aq, buf, errcode'[w])
    BY <2>2 DEF Behind
  <2>4. QED
    BY <1>2, <1>3, <1>6, <1>8, <2>1, <2>3 DEF Processed
<1>9. CASE ~(rq # <<>> /\ buf # <<>>) /\ errcode'[w] /\ rq # <<>>
  <2>1. Answer(Head(rq), Frame(w, "readers"), stack)
    BY <1>9 DEF Processing
  <2>2. /\ On(Append(stack, Frame(w, "readers")), w, Reads)
        /\ On(Append(stack, Frame(w, "readers")), w, Reads \cup Accepts)
    BY <1>3, <1>7
  <2>3. Behind(Append(stack, Frame(w, "readers")), w, rq, aq, buf, errcode'[w])
    BY <2>2 DEF Behind
  <2>4. QED
    BY <1>2, <1>3, <1>6, <1>9, <2>1, <2>3 DEF Processed
<1>10. CASE errcode'[w] /\ rq = <<>> /\ aq # <<>>
  <2>1. Answer(Head(aq), Frame(w, "acceptors"), stack)
    BY <1>10 DEF Processing
  <2>2. On(Append(stack, Frame(w, "acceptors")), w, Reads \cup Accepts)
    BY <1>3, <1>7
  <2>3. Behind(Append(stack, Frame(w, "acceptors")), w, rq, aq, buf, errcode'[w])
    BY <1>10, <2>2 DEF Behind
  <2>4. ~On(stack, w, Reads)
    BY <1>10 DEF Told
  <2>5. QED
    BY <1>2, <1>3, <1>6, <1>10, <2>1, <2>3, <2>4 DEF Processed
<1>11. CASE ~(rq # <<>> /\ buf # <<>>) /\ (errcode'[w] => rq = <<>> /\ aq = <<>>)
  <2>1. resolving' = stack /\ UNCHANGED <<answers, fault>>
    BY <1>11 DEF Processing
  <2>2. Behind(stack, w, rq, aq, buf, errcode'[w])
    BY <1>11 DEF Behind
  <2>3. QED
    BY <2>1, <2>2 DEF Processed
<1>12. QED
  BY <1>8, <1>9, <1>10, <1>11

-----------------------------------------------------------------------------
(* The bytes of a stream. *)

LEMMA AheadOn ==
  ASSUME NEW s \in Seq(Frames), NEW w \in Wrap
  PROVE  (\E k \in DOMAIN s : s[k] = Frame(w, "data")) <=> On(s, w, {"data"})
<1>1. DOMAIN s = 1 .. Len(s) /\ \A k \in 1 .. Len(s) : s[k] \in Frames
  BY LenProperties, ElementOfSeq
<1>2. \A f \in Frames : f = Frame(w, "data") <=> f.w = w /\ f.then = "data"
  BY DEF Frames, Frame
<1>3. \A k \in 1 .. Len(s) :
        s[k] = Frame(w, "data") <=> s[k].w = w /\ s[k].then \in {"data"}
  <2>1. ASSUME NEW k \in 1 .. Len(s)
        PROVE  s[k] = Frame(w, "data") <=> s[k].w = w /\ s[k].then = "data"
    <3>1. s[k] \in Frames
      BY <1>1
    <3>2. QED
      BY ONLY <1>2, <3>1
  <2>2. QED
    BY <2>1
<1>4. QED
  BY ONLY <1>1, <1>3 DEF On

(* What readers of w got, and what is ahead of them. *)
Bytes(stack, w, got, buf) == got \o (IF On(stack, w, {"data"}) THEN <<>> ELSE buf)

LEMMA StreamBytes ==
  ASSUME TypeOK
  PROVE  \A w \in Wrap : Stream(w) = Bytes(resolving, w, given[w], readBuf[w])
BY AheadOn DEF TypeOK, StackTypes, Stream, Ahead, Bytes

LEMMA StreamBytesNext ==
  ASSUME TypeOK'
  PROVE  \A w \in Wrap : Stream(w)' = Bytes(resolving', w, given'[w], readBuf'[w])
<1>1. resolving' \in Seq(Frames)
  BY DEF TypeOK, StackTypes
<1>2. PICK s \in Seq(Frames) : s = resolving'
  BY <1>1
<1>3. \A w \in Wrap : (\E k \in DOMAIN s : s[k] = Frame(w, "data")) <=> On(s, w, {"data"})
  BY AheadOn
<1>4. QED
  BY <1>2, <1>3 DEF Stream, Ahead, Bytes

LEMMA ProcessingBytes ==
  ASSUME TypeOK, NEW w \in Wrap, NEW buf \in Seq(Nat), NEW rq \in Seq(Req),
         NEW aq \in Seq(Req), NEW stack \in Seq(Frames), Processing(w, buf, rq, aq, stack),
         Told(stack, w, rq, aq, buf, errcode'[w], answers), fault = "none", fault' = "none"
  PROVE  /\ Bytes(resolving', w, given'[w], buf) = Bytes(stack, w, given[w], buf)
         /\ \A v \in Wrap : v # w => given'[v] = given[v]
<1>1. given \in [Wrap -> Seq(Nat)] /\ answers \in [Req -> Nat]
  BY DEF TypeOK, BufTypes, ReqTypes
<1>2. /\ \A t \in Reads \cup Accepts :
           \A K : On(Append(stack, Frame(w, t)), w, K) <=> On(stack, w, K) \/ t \in K
      /\ "data" \in Reads /\ "readers" \in Reads /\ "acceptors" \in Accepts
  <2>1. \A t \in Reads \cup Accepts :
          Frame(w, t) \in Frames /\ Frame(w, t).w = w /\ Frame(w, t).then = t
    BY DEF Frame, Frames
  <2>2. QED
    BY <2>1, OnPush DEF Reads, Accepts
<1>3. On(stack, w, {"data"}) => On(stack, w, Reads)
  BY DEF On, Reads
<1>4. CASE rq # <<>> /\ buf # <<>>
  <2>1. /\ given' = [given EXCEPT ![w] = given[w] \o buf]
        /\ Answer(Head(rq), Frame(w, "data"), stack)
    BY <1>1, <1>4 DEF Processing
  <2>2. resolving' = Append(stack, Frame(w, "data")) /\ ~(answers[Head(rq)] > 0)
    BY <2>1 DEF Answer
  <2>3. ~On(stack, w, {"data"})
    BY <1>3, <2>2 DEF Told
  <2>4. On(resolving', w, {"data"})
    BY <1>2, <2>2
  <2>5. given[w] \o buf \in Seq(Nat) /\ given'[w] = given[w] \o buf
    BY <1>1, <2>1, ConcatProperties
  <2>6. (given[w] \o buf) \o <<>> = given[w] \o buf
    BY <2>5, ConcatEmptySeq
  <2>7. \A v \in Wrap : v # w => given'[v] = given[v]
    BY <1>1, <2>1
  <2>8. QED
    BY <2>3, <2>4, <2>5, <2>6, <2>7 DEF Bytes
<1>5. CASE ~(rq # <<>> /\ buf # <<>>)
  <2>1. /\ given' = given
        /\ \/ Answer(Head(rq), Frame(w, "readers"), stack)
           \/ Answer(Head(aq), Frame(w, "acceptors"), stack)
           \/ resolving' = stack
    BY <1>5 DEF Processing
  <2>2. \/ resolving' = Append(stack, Frame(w, "readers"))
        \/ resolving' = Append(stack, Frame(w, "acceptors"))
        \/ resolving' = stack
    BY <2>1 DEF Answer
  <2>3. On(resolving', w, {"data"}) <=> On(stack, w, {"data"})
    <3>1. "readers" \notin {"data"} /\ "acceptors" \notin {"data"}
      OBVIOUS
    <3>2. CASE resolving' = Append(stack, Frame(w, "readers"))
      BY <1>2, <3>1, <3>2
    <3>3. CASE resolving' = Append(stack, Frame(w, "acceptors"))
      BY <1>2, <3>1, <3>3
    <3>4. QED
      BY <2>2, <3>2, <3>3
  <2>4. QED
    BY <2>1, <2>3 DEF Bytes
<1>6. QED
  BY <1>4, <1>5

-----------------------------------------------------------------------------
(* What the invariant says of the properties. *)

LEMMA SoundNext ==
  ASSUME TypeOK', Sound', fault' = "none"
  PROVE  AnswerInv'
<1>1. \A k \in DOMAIN resolving' :
        /\ k \in 1 .. Len(resolving') /\ resolving'[k].w \in Wrap
        /\ resolving'[k].then \in Reads \cup Accepts
  <2>1. resolving' \in Seq(Frames)
    BY DEF TypeOK, StackTypes
  <2>2. PICK s \in Seq(Frames) : s = resolving'
    BY <2>1
  <2>3. DOMAIN s = 1 .. Len(s) /\ \A k \in 1 .. Len(s) : s[k] \in Frames
    BY LenProperties, ElementOfSeq
  <2>4. QED
    BY <2>2, <2>3 DEF Frames
<1>2. DOMAIN resolving' = 1 .. Len(resolving')
  BY LenProperties DEF TypeOK, StackTypes
<1>a. \A k \in DOMAIN resolving' :
        Answered(k)' = IF resolving'[k].then \in Reads THEN Head(readWaiting'[resolving'[k].w])
                       ELSE Head(acceptWaiting'[resolving'[k].w])
  BY DEF Answered, Reads
<1>3. AnsweredOnce'
  <2> SUFFICES ASSUME NEW r \in Req
               PROVE  /\ answers'[r] <= 1
                      /\ doing'[r] # "none" => answers'[r] = 0
                      /\ Queued(r)' => answers'[r] = 0
                                         \/ \E k \in DOMAIN resolving' : r = Answered(k)'
    BY DEF AnsweredOnce
  <2>1. ASSUME Queued(r)', answers'[r] # 0 PROVE \E k \in DOMAIN resolving' : r = Answered(k)'
    <3>1. PICK w \in Wrap : r \in ToSet(readWaiting'[w]) \/ r \in ToSet(acceptWaiting'[w])
      BY <2>1 DEF Queued
    <3>2. Told(resolving', w, readWaiting'[w], acceptWaiting'[w], readBuf'[w], errcode'[w], answers')
      BY DEF Sound, StreamsFit
    <3>3. \/ On(resolving', w, Reads) /\ r = Head(readWaiting'[w])
          \/ On(resolving', w, Accepts) /\ r = Head(acceptWaiting'[w])
      BY <2>1, <3>1, <3>2 DEF Told
    <3>4. Reads \cap Accepts = {}
      BY DEF Reads, Accepts
    <3>5. QED
      BY <1>2, <1>a, <3>3, <3>4 DEF On
  <2>2. QED
    BY <2>1 DEF Sound, Counted
<1>4. ReadsExact'
  <2> SUFFICES ASSUME NEW w \in Wrap
               PROVE  /\ IF discarded'[w] THEN Increasing(Stream(w))' ELSE Stream(w)' = arrived'[w]
                      /\ readWaiting'[w] # <<>> /\ (\A k \in DOMAIN resolving' : resolving'[k].w # w) =>
                           readBuf'[w] = <<>> /\ ~errcode'[w]
                      /\ acceptWaiting'[w] # <<>> /\ (\A k \in DOMAIN resolving' : resolving'[k].w # w) =>
                           ~errcode'[w]
    BY DEF ReadsExact, Stream
  <2>1. Behind(resolving', w, readWaiting'[w], acceptWaiting'[w], readBuf'[w], errcode'[w])
    BY DEF Sound, StreamsFit
  <2>2. (\A k \in DOMAIN resolving' : resolving'[k].w # w) => \A K : ~On(resolving', w, K)
    BY <1>2 DEF On
  <2>3. IF discarded'[w] THEN Increasing(Stream(w))' ELSE Stream(w)' = arrived'[w]
    BY DEF Sound, InStream, InBytes
  <2>4. QED
    BY <2>1, <2>2, <2>3 DEF Behind
<1>5. QED
  BY <1>3, <1>4 DEF AnswerInv

-----------------------------------------------------------------------------
(* The queues. *)

QueuesShrink ==
  \A w \in Wrap :
    /\ NoRepeat(readWaiting[w])' /\ NoRepeat(acceptWaiting[w])'
    /\ ToSet(readWaiting[w])' \subseteq ToSet(readWaiting[w])
    /\ ToSet(acceptWaiting[w])' \subseteq ToSet(acceptWaiting[w])

LEMMA ShrinkStep ==
  ASSUME QueuesExact, QueuesShrink, used \subseteq used',
         \A r \in Req : doing'[r] = doing[r] \/ doing'[r] = "none"
  PROVE  QueuesExact'
<1>1. \A r \in Req : Queued(r)' => Queued(r)
  BY DEF Queued, QueuesShrink
<1>2. \A w \in Wrap :
        /\ NoRepeat(readWaiting[w])' /\ NoRepeat(acceptWaiting[w])'
        /\ (ToSet(readWaiting[w]) \cap ToSet(acceptWaiting[w]) = {})'
  BY DEF QueuesExact, QueuesShrink
<1>3. \A v, w \in Wrap : v # w =>
        ((ToSet(readWaiting[v]) \cup ToSet(acceptWaiting[v]))
           \cap (ToSet(readWaiting[w]) \cup ToSet(acceptWaiting[w])) = {})'
  BY DEF QueuesExact, QueuesShrink
<1>4. \A r \in Req :
        /\ Queued(r)' => doing'[r] = "none"
        /\ r \notin used' => doing'[r] = "none" /\ ~Queued(r)'
  BY <1>1 DEF QueuesExact
<1>5. QED
  BY <1>2, <1>3, <1>4 DEF QueuesExact

(* Queues that stay as they are. *)
LEMMA QueuesStay ==
  ASSUME QueuesExact, UNCHANGED <<readWaiting, acceptWaiting>>
  PROVE  /\ QueuesShrink
         /\ \A r \in Req : Queued(r)' <=> Queued(r)
<1>1. \A w \in Wrap : NoRepeat(readWaiting[w]) /\ NoRepeat(acceptWaiting[w])
  BY DEF QueuesExact
<1>2. QED
  BY <1>1 DEF QueuesShrink, Queued

(* The first of a queue leaves it. *)
LEMMA LeaveStep ==
  ASSUME TypeOK, QueuesExact, NEW w \in Wrap,
         \/ /\ readWaiting[w] # <<>>
            /\ readWaiting' = [readWaiting EXCEPT ![w] = Tail(readWaiting[w])]
            /\ UNCHANGED acceptWaiting
         \/ /\ acceptWaiting[w] # <<>>
            /\ acceptWaiting' = [acceptWaiting EXCEPT ![w] = Tail(acceptWaiting[w])]
            /\ UNCHANGED readWaiting
  PROVE  QueuesShrink
<1>1. /\ readWaiting \in [Wrap -> Seq(Req)] /\ acceptWaiting \in [Wrap -> Seq(Req)]
      /\ \A v \in Wrap : NoRepeat(readWaiting[v]) /\ NoRepeat(acceptWaiting[v])
  BY DEF TypeOK, BufTypes, QueuesExact
<1>2. /\ readWaiting[w] # <<>> => /\ NoRepeat(Tail(readWaiting[w]))
                                  /\ ToSet(Tail(readWaiting[w])) \subseteq ToSet(readWaiting[w])
      /\ acceptWaiting[w] # <<>> => /\ NoRepeat(Tail(acceptWaiting[w]))
                                    /\ ToSet(Tail(acceptWaiting[w])) \subseteq ToSet(acceptWaiting[w])
  BY <1>1, QueueTail
<1>3. CASE /\ readWaiting[w] # <<>>
           /\ readWaiting' = [readWaiting EXCEPT ![w] = Tail(readWaiting[w])]
           /\ UNCHANGED acceptWaiting
  <2>1. /\ \A v \in Wrap : v # w => readWaiting'[v] = readWaiting[v]
        /\ readWaiting'[w] = Tail(readWaiting[w]) /\ acceptWaiting' = acceptWaiting
    BY <1>1, <1>3
  <2>2. QED
    BY <1>1, <1>2, <1>3, <2>1 DEF QueuesShrink
<1>4. CASE /\ acceptWaiting[w] # <<>>
           /\ acceptWaiting' = [acceptWaiting EXCEPT ![w] = Tail(acceptWaiting[w])]
           /\ UNCHANGED readWaiting
  <2>1. /\ \A v \in Wrap : v # w => acceptWaiting'[v] = acceptWaiting[v]
        /\ acceptWaiting'[w] = Tail(acceptWaiting[w]) /\ readWaiting' = readWaiting
    BY <1>1, <1>4
  <2>2. QED
    BY <1>1, <1>2, <1>4, <2>1 DEF QueuesShrink
<1>5. QED
  BY <1>3, <1>4

(* A new request joins a queue. *)
LEMMA JoinStep ==
  ASSUME TypeOK, QueuesExact, NEW r \in Req, NEW w \in Wrap, Issue(r), UNCHANGED doing,
         \/ /\ readWaiting' = [readWaiting EXCEPT ![w] = Append(readWaiting[w], r)]
            /\ UNCHANGED acceptWaiting
         \/ /\ acceptWaiting' = [acceptWaiting EXCEPT ![w] = Append(acceptWaiting[w], r)]
            /\ UNCHANGED readWaiting
  PROVE  QueuesExact'
<1>1. QueuesExact /\ doing[r] = "none" /\ ~Queued(r)
  BY DEF QueuesExact, Issue
<1>2. /\ readWaiting \in [Wrap -> Seq(Req)] /\ acceptWaiting \in [Wrap -> Seq(Req)]
      /\ UNCHANGED doing /\ used' = used \cup {r}
  BY DEF TypeOK, BufTypes, Issue
<1>3. \A v \in Wrap : r \notin ToSet(readWaiting[v]) /\ r \notin ToSet(acceptWaiting[v])
  BY <1>1 DEF Queued
<1>4. /\ ToSet(Append(readWaiting[w], r)) = ToSet(readWaiting[w]) \cup {r}
      /\ ToSet(Append(acceptWaiting[w], r)) = ToSet(acceptWaiting[w]) \cup {r}
      /\ NoRepeat(Append(readWaiting[w], r)) /\ NoRepeat(Append(acceptWaiting[w], r))
  BY <1>1, <1>2, <1>3, QueueAppend DEF QueuesExact
<1>5. \A v \in Wrap :
        /\ NoRepeat(readWaiting[v])' /\ NoRepeat(acceptWaiting[v])'
        /\ v # w => /\ ToSet(readWaiting[v])' = ToSet(readWaiting[v])
                    /\ ToSet(acceptWaiting[v])' = ToSet(acceptWaiting[v])
        /\ v = w => \/ /\ ToSet(readWaiting[v])' = ToSet(readWaiting[v]) \cup {r}
                       /\ ToSet(acceptWaiting[v])' = ToSet(acceptWaiting[v])
                    \/ /\ ToSet(readWaiting[v])' = ToSet(readWaiting[v])
                       /\ ToSet(acceptWaiting[v])' = ToSet(acceptWaiting[v]) \cup {r}
  BY <1>1, <1>2, <1>4 DEF QueuesExact
<1>6. \A s \in Req : Queued(s)' <=> Queued(s) \/ s = r
  <2>1. ASSUME NEW s \in Req, Queued(s)' PROVE Queued(s) \/ s = r
    BY <1>5, <2>1 DEF Queued
  <2>2. ASSUME NEW s \in Req, Queued(s) PROVE Queued(s)'
    BY <1>5, <2>2 DEF Queued
  <2>3. Queued(r)'
    BY <1>5 DEF Queued
  <2>4. QED
    BY <2>1, <2>2, <2>3
<1>8. QueuesExact'
  <2>a. ASSUME NEW v \in Wrap
        PROVE  /\ r \notin ToSet(readWaiting[v]) /\ r \notin ToSet(acceptWaiting[v])
               /\ ToSet(readWaiting[v]) \cap ToSet(acceptWaiting[v]) = {}
               /\ \A u \in Wrap : u # v =>
                    (ToSet(readWaiting[u]) \cup ToSet(acceptWaiting[u]))
                      \cap (ToSet(readWaiting[v]) \cup ToSet(acceptWaiting[v])) = {}
    BY <1>1, <1>3 DEF QueuesExact
  <2>1. ASSUME NEW v \in Wrap PROVE (ToSet(readWaiting[v]) \cap ToSet(acceptWaiting[v]) = {})'
    <3>1. CASE v # w
      BY <1>5, <2>a, <3>1
    <3>2. CASE v = w
      <4>1. /\ r \notin ToSet(readWaiting[w]) /\ r \notin ToSet(acceptWaiting[w])
            /\ ToSet(readWaiting[w]) \cap ToSet(acceptWaiting[w]) = {}
        BY <2>a
      <4>2. CASE /\ ToSet(readWaiting[w])' = ToSet(readWaiting[w]) \cup {r}
                 /\ ToSet(acceptWaiting[w])' = ToSet(acceptWaiting[w])
        BY <3>2, <4>1, <4>2
      <4>3. CASE /\ ToSet(readWaiting[w])' = ToSet(readWaiting[w])
                 /\ ToSet(acceptWaiting[w])' = ToSet(acceptWaiting[w]) \cup {r}
        BY <3>2, <4>1, <4>3
      <4>4. QED
        BY <1>5, <3>2, <4>2, <4>3
    <3>3. QED
      BY <3>1, <3>2
  <2>b. ASSUME NEW v \in Wrap
        PROVE  /\ v # w => (ToSet(readWaiting[v]) \cup ToSet(acceptWaiting[v]))'
                              = ToSet(readWaiting[v]) \cup ToSet(acceptWaiting[v])
               /\ (ToSet(readWaiting[w]) \cup ToSet(acceptWaiting[w]))'
                     = ToSet(readWaiting[w]) \cup ToSet(acceptWaiting[w]) \cup {r}
    <3>1. w = w
      OBVIOUS
    <3>2. (ToSet(readWaiting[w]) \cup ToSet(acceptWaiting[w]))'
             = ToSet(readWaiting[w]) \cup ToSet(acceptWaiting[w]) \cup {r}
      BY <1>5, <3>1
    <3>3. QED
      BY <1>5, <3>2
  <2>2. ASSUME NEW u \in Wrap, NEW v \in Wrap, u # v
        PROVE  ((ToSet(readWaiting[u]) \cup ToSet(acceptWaiting[u]))
                  \cap (ToSet(readWaiting[v]) \cup ToSet(acceptWaiting[v])) = {})'
    <3> DEFINE Q(x) == ToSet(readWaiting[x]) \cup ToSet(acceptWaiting[x])
    <3>a. /\ Q(u) \cap Q(v) = {} /\ r \notin Q(u) /\ r \notin Q(v)
          /\ (u # w => Q(u)' = Q(u)) /\ (v # w => Q(v)' = Q(v))
          /\ (u = w => Q(u)' = Q(u) \cup {r}) /\ (v = w => Q(v)' = Q(v) \cup {r})
      <4>1. Q(u) \cap Q(v) = {} /\ r \notin Q(u) /\ r \notin Q(v)
        BY <2>a, <2>2
      <4>2. (u # w => Q(u)' = Q(u)) /\ (u = w => Q(u)' = Q(u) \cup {r})
        BY <2>b
      <4>3. (v # w => Q(v)' = Q(v)) /\ (v = w => Q(v)' = Q(v) \cup {r})
        BY <2>b
      <4>4. QED
        BY <4>1, <4>2, <4>3
    <3>b. (Q(u) \cap Q(v) = {})'
      <4> HIDE DEF Q
      <4>1. CASE u # w /\ v # w
        BY <3>a, <4>1
      <4>2. CASE u = w /\ v # w
        BY <3>a, <4>2
      <4>3. CASE u # w /\ v = w
        BY <3>a, <4>3
      <4>4. QED
        BY <2>2, <4>1, <4>2, <4>3
    <3>4. QED
      BY <3>b
  <2>3. \A s \in Req :
          /\ Queued(s)' => doing'[s] = "none"
          /\ s \notin used' => doing'[s] = "none" /\ ~Queued(s)'
    BY <1>1, <1>2, <1>6 DEF QueuesExact
  <2>4. QED
    BY <1>5, <2>1, <2>2, <2>3 DEF QueuesExact
<1>9. QED
  BY <1>8


(* A new request waits for libuv. *)
LEMMA AwaitStep ==
  ASSUME TypeOK, QueuesExact, NEW r \in Req, Issue(r), NEW what, NEW h, Await(r, what, h),
         UNCHANGED <<readWaiting, acceptWaiting>>
  PROVE  QueuesExact'
<1>1. ~Queued(r)
  BY DEF QueuesExact, Issue
<1>2. doing \in [Req -> Wait]
  BY DEF TypeOK, ReqTypes
<1>3. /\ used' = used \cup {r}
      /\ \A s \in Req : s # r => doing'[s] = doing[s]
  BY <1>2 DEF Await, Issue
<1>4. \A s \in Req : Queued(s)' <=> Queued(s)
  BY QueuesStay
<1>5. \A s \in Req :
        /\ Queued(s)' => doing'[s] = "none"
        /\ s \notin used' => doing'[s] = "none" /\ ~Queued(s)'
  <2>1. \A s \in Req : Queued(s) => s # r
    BY <1>1
  <2>2. QED
    BY <1>3, <1>4, <2>1 DEF QueuesExact
<1>6. QED
  BY <1>5 DEF QueuesExact

-----------------------------------------------------------------------------
(* Whatever makes a stream process, what it is answering stays exact.      *)

(* A step of one stream keeps the invariant when it keeps it of the stream. *)
LEMMA FitSound ==
  ASSUME TypeOK, TypeOK', Sound, fault' = "none", NEW w \in Wrap,
         QueuesExact', UNCHANGED doing, used \subseteq used', Stacked(resolving'),
         Told(resolving', w, readWaiting'[w], acceptWaiting'[w], readBuf'[w], errcode'[w], answers'),
         Behind(resolving', w, readWaiting'[w], acceptWaiting'[w], readBuf'[w], errcode'[w]),
         InBytes(Stream(w)', arrived'[w], discarded'[w]),
         \A v \in Wrap : v # w =>
           /\ \A kinds : On(resolving', v, kinds) <=> On(resolving, v, kinds)
           /\ readWaiting'[v] = readWaiting[v] /\ acceptWaiting'[v] = acceptWaiting[v]
           /\ readBuf'[v] = readBuf[v] /\ errcode'[v] = errcode[v] /\ given'[v] = given[v]
           /\ arrived'[v] = arrived[v] /\ discarded'[v] = discarded[v],
         \A r \in Req : answers'[r] = answers[r] \/
           (answers[r] = 0 /\ answers'[r] = 1
              /\ (r \in ToSet(readWaiting'[w]) \/ r \in ToSet(acceptWaiting'[w])))
  PROVE  AnswerInv'
<1>1. Counted'
  <2> SUFFICES ASSUME NEW r \in Req
               PROVE  /\ answers'[r] <= 1
                      /\ doing'[r] # "none" => answers'[r] = 0
                      /\ r \notin used' => answers'[r] = 0
    BY DEF Counted
  <2>1. /\ answers[r] <= 1
        /\ doing[r] # "none" => answers[r] = 0
        /\ r \notin used => answers[r] = 0
    BY DEF Sound, Counted
  <2>2. CASE answers'[r] = answers[r]
    BY <2>1, <2>2
  <2>3. CASE answers'[r] = 1 /\ (r \in ToSet(readWaiting'[w]) \/ r \in ToSet(acceptWaiting'[w]))
    <3>1. Queued(r)'
      BY <2>3 DEF Queued
    <3>2. doing'[r] = "none" /\ r \in used'
      BY <3>1 DEF QueuesExact
    <3>3. QED
      BY <2>3, <3>2
  <2>4. QED
    BY <2>2, <2>3
<1>2. StreamsFit'
  <2>1. ASSUME NEW v \in Wrap
        PROVE  /\ Told(resolving', v, readWaiting'[v], acceptWaiting'[v], readBuf'[v], errcode'[v], answers')
               /\ Behind(resolving', v, readWaiting'[v], acceptWaiting'[v], readBuf'[v], errcode'[v])
    <3>1. CASE v = w
      BY <3>1
    <3>2. CASE v # w
      <4>1. /\ Told(resolving, v, readWaiting[v], acceptWaiting[v], readBuf[v], errcode[v], answers)
            /\ Behind(resolving, v, readWaiting[v], acceptWaiting[v], readBuf[v], errcode[v])
        BY DEF Sound, StreamsFit
      <4>2. \A r \in ToSet(readWaiting[v]) \cup ToSet(acceptWaiting[v]) :
              r \in Req /\ r \notin ToSet(readWaiting'[w]) /\ r \notin ToSet(acceptWaiting'[w])
        BY <3>2, QueueTypes DEF QueuesExact
      <4>3. \A r \in ToSet(readWaiting[v]) \cup ToSet(acceptWaiting[v]) : answers'[r] = answers[r]
        BY <4>2
      <4>4. \A kinds : On(resolving', v, kinds) <=> On(resolving, v, kinds)
        BY <3>2
      <4>5. readWaiting[v] \in Seq(Req) /\ acceptWaiting[v] \in Seq(Req)
        BY DEF TypeOK, BufTypes
      <4>6. /\ Told(resolving', v, readWaiting[v], acceptWaiting[v], readBuf[v], errcode[v], answers')
            /\ Behind(resolving', v, readWaiting[v], acceptWaiting[v], readBuf[v], errcode[v])
        BY <4>1, <4>3, <4>4, <4>5, ToldOther
      <4>7. QED
        BY <3>2, <4>6
    <3>3. QED
      BY <3>1, <3>2
  <2>2. QED
    BY <2>1 DEF StreamsFit
<1>3. \A v \in Wrap : InStream(v)'
  <2>1. ASSUME NEW v \in Wrap PROVE InBytes(Stream(v)', arrived'[v], discarded'[v])
    <3>1. CASE v = w
      BY <3>1
    <3>2. CASE v # w
      <4>1. Stream(v)' = Stream(v)
        <5>1. On(resolving', v, {"data"}) <=> On(resolving, v, {"data"})
          BY <3>2
        <5>2. Bytes(resolving', v, given'[v], readBuf'[v]) = Bytes(resolving, v, given[v], readBuf[v])
          BY <3>2, <5>1 DEF Bytes
        <5>3. /\ Stream(v) = Bytes(resolving, v, given[v], readBuf[v])
              /\ Stream(v)' = Bytes(resolving', v, given'[v], readBuf'[v])
          BY StreamBytes, StreamBytesNext
        <5>4. QED
          BY <5>2, <5>3
      <4>2. QED
        BY <3>2, <4>1 DEF Sound, InStream
    <3>3. QED
      BY <3>1, <3>2
  <2>2. QED
    BY <2>1 DEF InStream
<1>4. Sound'
  BY <1>1, <1>2, <1>3 DEF Sound
<1>5. QED
  BY <1>4, SoundNext

LEMMA ProcessingSound ==
  ASSUME TypeOK, TypeOK', Sound, fault = "none",
         NEW w \in Wrap, NEW buf \in Seq(Nat), NEW rq \in Seq(Req), NEW aq \in Seq(Req),
         NEW stack \in Seq(Frames), Processing(w, buf, rq, aq, stack),
         QueuesExact', UNCHANGED <<doing, wrap>>, used \subseteq used', wrap[w] # "freed",
         Stacked(stack), Told(stack, w, rq, aq, buf, errcode'[w], answers),
         \A v \in Wrap : v # w =>
           /\ \A kinds : On(stack, v, kinds) <=> On(resolving, v, kinds)
           /\ errcode'[v] = errcode[v] /\ arrived'[v] = arrived[v] /\ discarded'[v] = discarded[v],
         InBytes(Bytes(stack, w, given[w], buf), arrived'[w], discarded'[w])
  PROVE  AnswerInv'
<1>1. /\ readBuf \in [Wrap -> Seq(Nat)] /\ given \in [Wrap -> Seq(Nat)]
      /\ readWaiting \in [Wrap -> Seq(Req)] /\ acceptWaiting \in [Wrap -> Seq(Req)]
      /\ answers \in [Req -> Nat] /\ resolving' \in Seq(Frames)
  BY DEF TypeOK, BufTypes, ReqTypes, StackTypes
<1>2. /\ readWaiting'[w] = rq /\ acceptWaiting'[w] = aq /\ readBuf'[w] = buf
      /\ \A v \in Wrap : v # w => /\ readWaiting'[v] = readWaiting[v]
                                  /\ acceptWaiting'[v] = acceptWaiting[v]
                                  /\ readBuf'[v] = readBuf[v]
  BY <1>1 DEF Processing
<1>3. ToSet(rq) \cap ToSet(aq) = {}
  BY <1>2 DEF QueuesExact
<1>4. \A r \in Req : answers[r] <= 1
  BY DEF Sound, Counted
<1>5. CASE fault' = "again" /\ resolving' = stack /\ Again(w, rq, aq, stack, answers')
  <2>1. PICK k \in 1 .. Len(stack), r \in Req :
          /\ stack[k].w = w
          /\ r = IF stack[k].then \in Reads THEN Head(rq) ELSE Head(aq)
          /\ answers'[r] = 2 /\ \A s \in Req : s # r => answers'[s] <= 1
    BY <1>5 DEF Again
  <2>2. k \in DOMAIN resolving' /\ resolving'[k].w = w /\ wrap'[w] # "freed"
    BY <1>5, <2>1, LenProperties
  <2>3. Answered(k)' = r
    BY <1>2, <1>5, <2>1 DEF Answered, Reads
  <2>4. AnsweredOnce'
    BY <1>5, <2>1, <2>2, <2>3 DEF AnsweredOnce
  <2>5. ReadsExact'
    BY <1>5 DEF ReadsExact
  <2>6. QED
    BY <1>5, <2>4, <2>5 DEF AnswerInv
<1>6. CASE /\ fault' = "none" /\ Stacked(resolving')
           /\ Told(resolving', w, rq, aq, buf, errcode'[w], answers')
           /\ Behind(resolving', w, rq, aq, buf, errcode'[w])
           /\ \/ resolving' = stack /\ answers' = answers
              \/ \E then \in Reads \cup Accepts, r \in ToSet(rq) \cup ToSet(aq) :
                   /\ resolving' = Append(stack, Frame(w, then))
                   /\ answers[r] = 0 /\ answers' = Answers({r})
  <2>1. /\ \A r \in Req : answers'[r] = answers[r] \/
             (answers[r] = 0 /\ answers'[r] = 1 /\ (r \in ToSet(rq) \/ r \in ToSet(aq)))
        /\ \A v \in Wrap : v # w => \A kinds : On(resolving', v, kinds) <=> On(stack, v, kinds)
    <3>1. CASE resolving' = stack /\ answers' = answers
      BY <3>1
    <3>2. CASE \E then \in Reads \cup Accepts, r \in ToSet(rq) \cup ToSet(aq) :
                 /\ resolving' = Append(stack, Frame(w, then))
                 /\ answers[r] = 0 /\ answers' = Answers({r})
      <4>1. PICK then \in Reads \cup Accepts, r \in ToSet(rq) \cup ToSet(aq) :
                 /\ resolving' = Append(stack, Frame(w, then))
                 /\ answers[r] = 0 /\ answers' = Answers({r})
        BY <3>2
      <4>2. Frame(w, then) \in Frames /\ Frame(w, then).w = w
        BY DEF Frame, Frames
      <4>3. \A v \in Wrap : v # w => \A kinds : On(resolving', v, kinds) <=> On(stack, v, kinds)
        BY <4>1, <4>2, OnPush
      <4>4. \A s \in Req : answers'[s] = IF s = r THEN answers[s] + 1 ELSE answers[s]
        BY <4>1 DEF Answers
      <4>5. \A s \in Req : s = r => answers[s] = 0 /\ answers'[s] = 1
        <5>1. answers[r] = 0 /\ 0 + 1 = 1
          BY <4>1
        <5>2. QED
          BY <4>4, <5>1
      <4>6. QED
        BY <4>1, <4>3, <4>4, <4>5
    <3>3. QED
      BY <1>6, <3>1, <3>2
  <2>2. /\ Bytes(resolving', w, given'[w], buf) = Bytes(stack, w, given[w], buf)
        /\ \A v \in Wrap : v # w => given'[v] = given[v]
    BY <1>6, ProcessingBytes
  <2>3. InBytes(Stream(w)', arrived'[w], discarded'[w])
    BY <1>2, <2>2, StreamBytesNext
  <2>4. \A r \in Req : answers'[r] = answers[r] \/
          (answers[r] = 0 /\ answers'[r] = 1
             /\ (r \in ToSet(readWaiting'[w]) \/ r \in ToSet(acceptWaiting'[w])))
    BY <1>2, <2>1
  <2>5. \A v \in Wrap : v # w =>
          /\ \A kinds : On(resolving', v, kinds) <=> On(resolving, v, kinds)
          /\ readWaiting'[v] = readWaiting[v] /\ acceptWaiting'[v] = acceptWaiting[v]
          /\ readBuf'[v] = readBuf[v] /\ errcode'[v] = errcode[v] /\ given'[v] = given[v]
          /\ arrived'[v] = arrived[v] /\ discarded'[v] = discarded[v]
    BY <1>2, <2>1, <2>2
  <2>6. QED
    BY <1>2, <1>6, <2>3, <2>4, <2>5, FitSound
<1>7. Processed(w, buf, rq, aq, stack)
  BY <1>3, <1>4, ProcessingTold
<1>8. QED
  BY <1>5, <1>6, <1>7 DEF Processed

(* A request that is in no queue is answered, or begins to wait for libuv. *)
LEMMA KeptSound ==
  ASSUME TypeOK, TypeOK', Sound, fault = "none",
         UNCHANGED <<bufVars, stackVars>>, QueuesExact', Counted',
         \A r \in Req : Queued(r) => answers'[r] = answers[r]
  PROVE  AnswerInv'
<1>1. /\ UNCHANGED <<readBuf, readWaiting, acceptWaiting, errcode, arrived, given, discarded>>
      /\ UNCHANGED <<resolving, fault>>
  BY DEF bufVars, stackVars
<1>2. StreamsFit'
  <2>1. ASSUME NEW v \in Wrap
        PROVE  /\ Told(resolving, v, readWaiting[v], acceptWaiting[v], readBuf[v], errcode[v], answers')
               /\ Behind(resolving, v, readWaiting[v], acceptWaiting[v], readBuf[v], errcode[v])
    <3>1. /\ Told(resolving, v, readWaiting[v], acceptWaiting[v], readBuf[v], errcode[v], answers)
          /\ Behind(resolving, v, readWaiting[v], acceptWaiting[v], readBuf[v], errcode[v])
      BY DEF Sound, StreamsFit
    <3>2. \A r \in ToSet(readWaiting[v]) \cup ToSet(acceptWaiting[v]) : answers'[r] = answers[r]
      BY QueueTypes DEF Queued
    <3>3. readWaiting[v] \in Seq(Req) /\ acceptWaiting[v] \in Seq(Req)
      BY DEF TypeOK, BufTypes
    <3>4. QED
      BY <3>1, <3>2, <3>3, ToldOther
  <2>2. Stacked(resolving')
    BY <1>1 DEF Sound, StreamsFit
  <2>3. QED
    BY <1>1, <2>1, <2>2 DEF StreamsFit
<1>3. \A w \in Wrap : InStream(w)'
  <2>1. \A w \in Wrap : Stream(w)' = Stream(w)
    BY <1>1 DEF Stream, Ahead
  <2>2. QED
    BY <1>1, <2>1 DEF Sound, InStream
<1>4. Sound'
  BY <1>2, <1>3 DEF Sound
<1>5. QED
  BY <1>1, <1>4, SoundNext

(* An answer returned: its request leaves the queue. *)
LEMMA PopTold ==
  ASSUME NEW s \in Seq(Frames), s # <<>>, Stacked(s), NEW w, w = Last(s).w,
         NEW q \in Seq(Req), NEW a \in Seq(Req), NEW b, NEW e, NEW c,
         Told(s, w, q, a, b, e, c), NoRepeat(q), NoRepeat(a)
  PROVE  /\ Stacked(Front(s))
         /\ \A v, kinds : v # w => (On(Front(s), v, kinds) <=> On(s, v, kinds))
         /\ Last(s).then \in Reads => Told(Front(s), w, Tail(q), a, <<>>, e, c)
         /\ Last(s).then \in Accepts => Told(Front(s), w, q, Tail(a), b, e, c)
<1>1. /\ Stacked(Front(s)) /\ ~On(Front(s), w, Reads)
      /\ Last(s).then \in Accepts => ~On(Front(s), w, Accepts)
  BY StackedPop
<1>2. \A v, kinds : On(s, v, kinds) <=> On(Front(s), v, kinds) \/ (w = v /\ Last(s).then \in kinds)
  BY OnPop
<1>3. /\ "data" \in Reads /\ "readers" \in Reads /\ "conn" \in Accepts
      /\ \A t : t \in Reads => t \notin Accepts
  BY DEF Reads, Accepts
<1>4. \A t, v, K, L : On(t, v, K) /\ K \subseteq L => On(t, v, L)
  BY DEF On
<1>5. ~On(Front(s), w, {"data"}) /\ ~On(Front(s), w, {"readers"})
  BY <1>1, <1>3, <1>4
<1>6. /\ q # <<>> => ToSet(Tail(q)) = ToSet(q) \ {Head(q)}
      /\ a # <<>> => ToSet(Tail(a)) = ToSet(a) \ {Head(a)}
  BY QueueTail
<1>7. CASE Last(s).then \in Reads
  <2>1. q # <<>>
    BY <1>2, <1>7 DEF Told
  <2>2. (On(Front(s), w, Accepts) <=> On(s, w, Accepts)) /\ (On(Front(s), w, {"conn"}) => On(s, w, {"conn"}))
    BY <1>2, <1>3, <1>7
  <2>3. \A r \in ToSet(Tail(q)) : c[r] = 0
    BY <1>6, <2>1 DEF Told
  <2>4. Told(Front(s), w, Tail(q), a, <<>>, e, c)
    BY <1>1, <1>5, <2>2, <2>3 DEF Told
  <2>5. QED
    BY <1>1, <1>2, <1>3, <1>7, <2>4
<1>8. CASE Last(s).then \in Accepts
  <2>1. a # <<>> /\ ~On(Front(s), w, Accepts) /\ ~On(s, w, Reads)
    BY <1>1, <1>2, <1>3, <1>8 DEF Told
  <2>2. ~On(Front(s), w, {"conn"})
    BY <1>3, <1>4, <2>1
  <2>3. /\ \A r \in ToSet(Tail(a)) : c[r] = 0
        /\ \A r \in ToSet(q) : c[r] = 0
    BY <1>6, <2>1 DEF Told
  <2>4. Told(Front(s), w, q, Tail(a), b, e, c)
    BY <1>1, <1>5, <2>1, <2>2, <2>3 DEF Told
  <2>5. QED
    BY <1>1, <1>2, <1>3, <1>8, <2>4
<1>9. Last(s).then \in Reads \cup Accepts
  <2>1. Last(s) \in Frames
    BY LastType
  <2>2. QED
    BY <2>1 DEF Frames
<1>10. QED
  BY <1>7, <1>8, <1>9

LEMMA ResolvedStep ==
  ASSUME TypeOK, TypeOK', AnswerInv, Sound, fault = "none", Resolved
  PROVE  AnswerInv'
<1>1. /\ resolving # <<>> /\ resolving \in Seq(Frames)
      /\ UNCHANGED <<wrapVars, errcode, arrived, discarded, doing, used>>
  BY DEF Resolved, TypeOK, StackTypes
<1>2. PICK f \in Frames : f = Last(resolving)
  BY <1>1, LastType
<1>3. PICK w \in Wrap : w = f.w
  BY DEF Frames
<1>4. PICK stack \in Seq(Frames) : stack = Front(resolving)
  BY <1>1, FrontType
<1>5. /\ readBuf \in [Wrap -> Seq(Nat)] /\ given \in [Wrap -> Seq(Nat)]
      /\ readWaiting \in [Wrap -> Seq(Req)] /\ acceptWaiting \in [Wrap -> Seq(Req)]
  BY DEF TypeOK, BufTypes
<1>6. /\ NoRepeat(readWaiting[w]) /\ NoRepeat(acceptWaiting[w]) /\ Stacked(resolving) /\ QueuesExact
      /\ Told(resolving, w, readWaiting[w], acceptWaiting[w], readBuf[w], errcode[w], answers)
      /\ Behind(resolving, w, readWaiting[w], acceptWaiting[w], readBuf[w], errcode[w])
  BY DEF Sound, StreamsFit, QueuesExact
<1>7. /\ f.then \in Reads => On(resolving, w, Reads) /\ readWaiting[w] # <<>>
      /\ f.then \in Accepts => On(resolving, w, Accepts) /\ acceptWaiting[w] # <<>>
      /\ On(resolving, w, {f.then})
  BY <1>1, <1>2, <1>3, TopWaits DEF Sound
<1>8. /\ Stacked(stack)
      /\ \A v, kinds : v # w => (On(stack, v, kinds) <=> On(resolving, v, kinds))
      /\ f.then \in Reads => Told(stack, w, Tail(readWaiting[w]), acceptWaiting[w], <<>>, errcode[w], answers)
      /\ f.then \in Accepts =>
           Told(stack, w, readWaiting[w], Tail(acceptWaiting[w]), readBuf[w], errcode[w], answers)
  <2>1. PICK q \in Seq(Req), a \in Seq(Req) : q = readWaiting[w] /\ a = acceptWaiting[w]
    BY <1>5
  <2>2. PICK s \in Seq(Frames) : s = resolving
    BY <1>1
  <2>3. PICK b, e, c : b = readBuf[w] /\ e = errcode[w] /\ c = answers
    OBVIOUS
  <2>4. /\ s # <<>> /\ Stacked(s) /\ w = Last(s).w /\ NoRepeat(q) /\ NoRepeat(a)
        /\ Told(s, w, q, a, b, e, c)
    BY <1>1, <1>2, <1>3, <1>6, <2>1, <2>2, <2>3
  <2>5. /\ Stacked(Front(s))
        /\ \A v, kinds : v # w => (On(Front(s), v, kinds) <=> On(s, v, kinds))
        /\ Last(s).then \in Reads => Told(Front(s), w, Tail(q), a, <<>>, e, c)
        /\ Last(s).then \in Accepts => Told(Front(s), w, q, Tail(a), b, e, c)
    BY ONLY <2>4, q \in Seq(Req), a \in Seq(Req), s \in Seq(Frames), PopTold
  <2>6. QED
    BY <1>2, <1>4, <2>1, <2>2, <2>3, <2>5
<1>9. /\ InBytes(Bytes(resolving, w, given[w], readBuf[w]), arrived[w], discarded[w])
      /\ \A kinds : On(resolving, w, kinds) <=> On(stack, w, kinds) \/ f.then \in kinds
  BY <1>1, <1>2, <1>3, <1>4, StreamBytes, OnPop DEF Sound, InStream
<1>10. CASE wrap[w] = "freed"
  <2>1. /\ fault' = "freed"
        /\ UNCHANGED <<resolving, answers, readBuf, readWaiting, acceptWaiting, given>>
    BY <1>2, <1>3, <1>10 DEF Resolved
  <2>2. UNCHANGED <<wrap, errcode, arrived, discarded, doing>>
    BY <1>1 DEF wrapVars
  <2>3. AnsweredOnce /\ ReadsExact
    BY DEF AnswerInv
  <2>4. AnsweredOnce'
    BY <2>1, <2>2, <2>3 DEF AnsweredOnce, Answered, Queued
  <2>5. ReadsExact'
    BY <2>1, <2>2, <2>3 DEF ReadsExact, Ahead
  <2>6. QED
    BY <2>1, <2>4, <2>5 DEF AnswerInv
<1>11. CASE /\ f.then \in Reads /\ wrap[w] # "freed"
            /\ Processing(w, <<>>, Tail(readWaiting[w]), acceptWaiting[w], stack)
  <2>1. <<>> \in Seq(Nat) /\ Tail(readWaiting[w]) \in Seq(Req) /\ acceptWaiting[w] \in Seq(Req)
    BY <1>5, <1>7, <1>11, EmptySeq, QueueTail
  <2>2. QueuesExact'
    <3>1. /\ readWaiting' = [readWaiting EXCEPT ![w] = Tail(readWaiting[w])]
          /\ acceptWaiting' = acceptWaiting
      BY <1>5, <1>11 DEF Processing
    <3>2. QueuesShrink
      BY <1>6, <1>7, <1>11, <3>1, LeaveStep
    <3>3. QED
      BY <1>1, <1>6, <3>2, ShrinkStep
  <2>3. Bytes(stack, w, given[w], <<>>) = Bytes(resolving, w, given[w], readBuf[w])
    <3>1. f.then = "data" \/ f.then = "readers"
      BY <1>11 DEF Reads
    <3>2. On(resolving, w, {"data"}) \/ readBuf[w] = <<>>
      BY <1>6, <1>7, <3>1 DEF Told
    <3>3. QED
      BY <3>2 DEF Bytes
  <2>4. UNCHANGED <<doing, wrap, errcode, arrived, discarded>> /\ used \subseteq used'
    BY <1>1 DEF wrapVars
  <2>5. Told(stack, w, Tail(readWaiting[w]), acceptWaiting[w], <<>>, errcode'[w], answers)
    BY <1>8, <1>11, <2>4
  <2>6. QED
    BY <1>8, <1>9, <1>11, <2>1, <2>2, <2>3, <2>4, <2>5, ProcessingSound
<1>12. CASE /\ f.then = "acceptors" /\ wrap[w] # "freed"
            /\ Processing(w, readBuf[w], readWaiting[w], Tail(acceptWaiting[w]), stack)
  <2>0. f.then \in Accepts
    BY <1>12 DEF Accepts
  <2>1. readBuf[w] \in Seq(Nat) /\ readWaiting[w] \in Seq(Req) /\ Tail(acceptWaiting[w]) \in Seq(Req)
    BY <1>5, <1>7, <2>0, QueueTail
  <2>2. QueuesExact'
    <3>1. /\ acceptWaiting' = [acceptWaiting EXCEPT ![w] = Tail(acceptWaiting[w])]
          /\ readWaiting' = readWaiting
      BY <1>5, <1>12 DEF Processing
    <3>2. QueuesShrink
      BY <1>6, <1>7, <2>0, <3>1, LeaveStep
    <3>3. QED
      BY <1>1, <1>6, <3>2, ShrinkStep
  <2>3. Bytes(stack, w, given[w], readBuf[w]) = Bytes(resolving, w, given[w], readBuf[w])
    BY <1>9, <1>12 DEF Bytes
  <2>4. UNCHANGED <<doing, wrap, errcode, arrived, discarded>> /\ used \subseteq used'
    BY <1>1 DEF wrapVars
  <2>5. Told(stack, w, readWaiting[w], Tail(acceptWaiting[w]), readBuf[w], errcode'[w], answers)
    BY <1>8, <2>0, <2>4
  <2>6. QED
    BY <1>8, <1>9, <1>12, <2>1, <2>2, <2>3, <2>4, <2>5, ProcessingSound
<1>13. CASE /\ f.then = "conn"
            /\ acceptWaiting' = [acceptWaiting EXCEPT ![w] = Tail(acceptWaiting[w])]
            /\ resolving' = stack /\ UNCHANGED <<answers, fault, readBuf, readWaiting, given>>
  <2>0. f.then \in Accepts /\ f.then \notin Reads
    BY <1>13 DEF Accepts, Reads
  <2>1. /\ acceptWaiting'[w] = Tail(acceptWaiting[w])
        /\ \A v \in Wrap : v # w => acceptWaiting'[v] = acceptWaiting[v]
    BY <1>5, <1>13
  <2>2. QueuesExact'
    <3>1. QueuesShrink
      BY <1>6, <1>7, <1>13, <2>0, LeaveStep
    <3>2. QED
      BY <1>1, <1>6, <3>1, ShrinkStep
  <2>3. UNCHANGED <<doing, errcode, arrived, discarded>> /\ used \subseteq used'
    BY <1>1
  <2>4. Told(stack, w, readWaiting[w], acceptWaiting'[w], readBuf[w], errcode[w], answers)
    BY <1>8, <2>0, <2>1
  <2>5. Behind(stack, w, readWaiting[w], acceptWaiting'[w], readBuf[w], errcode[w])
    <3>1. ~errcode[w]
      BY <1>6, <1>7, <1>13 DEF Told
    <3>2. On(stack, w, Reads) <=> On(resolving, w, Reads)
      BY <1>9, <2>0
    <3>3. QED
      BY <1>6, <3>1, <3>2 DEF Behind
  <2>6. InBytes(Stream(w)', arrived'[w], discarded'[w])
    <3>1. Bytes(stack, w, given[w], readBuf[w]) = Bytes(resolving, w, given[w], readBuf[w])
      BY <1>9, <1>13 DEF Bytes
    <3>2. QED
      BY <1>9, <1>13, <2>3, <3>1, StreamBytesNext
  <2>7. QED
    BY <1>8, <1>13, <2>1, <2>2, <2>3, <2>4, <2>5, <2>6, FitSound
<1>14. QED
  <2>1. \/ wrap[w] = "freed"
        \/ /\ wrap[w] # "freed" /\ f.then \in {"data", "readers"}
           /\ Processing(w, <<>>, Tail(readWaiting[w]), acceptWaiting[w], stack)
        \/ /\ wrap[w] # "freed" /\ f.then = "acceptors"
           /\ Processing(w, readBuf[w], readWaiting[w], Tail(acceptWaiting[w]), stack)
        \/ /\ f.then = "conn"
           /\ acceptWaiting' = [acceptWaiting EXCEPT ![w] = Tail(acceptWaiting[w])]
           /\ resolving' = stack /\ UNCHANGED <<answers, fault, readBuf, readWaiting, given>>
    BY <1>2, <1>3, <1>4, <1>5 DEF Resolved
  <2>2. QED
    BY <1>10, <1>11, <1>12, <1>13, <2>1 DEF Reads

-----------------------------------------------------------------------------
(* Every step. *)

LEMMA FinishSound ==
  ASSUME TypeOK, TypeOK', Sound, fault = "none", NEW rs \in SUBSET Req, Finish(rs),
         UNCHANGED <<bufVars, stackVars>>, used \subseteq used',
         \A r \in rs : answers[r] = 0 /\ ~Queued(r) /\ r \in used'
  PROVE  AnswerInv'
<1>1. /\ \A s \in Req : doing'[s] = IF s \in rs THEN "none" ELSE doing[s]
      /\ \A s \in Req : answers'[s] = IF s \in rs THEN answers[s] + 1 ELSE answers[s]
  BY DEF Finish, Answers
<1>2. UNCHANGED <<readWaiting, acceptWaiting>> /\ QueuesExact
  BY DEF bufVars, Sound
<1>3. QueuesExact'
  BY <1>1, <1>2, QueuesStay, ShrinkStep
<1>4. Counted'
  <2> SUFFICES ASSUME NEW r \in Req
               PROVE  /\ answers'[r] <= 1
                      /\ doing'[r] # "none" => answers'[r] = 0
                      /\ r \notin used' => answers'[r] = 0
    BY DEF Counted
  <2>1. /\ answers[r] <= 1
        /\ doing[r] # "none" => answers[r] = 0
        /\ r \notin used => answers[r] = 0
    BY DEF Sound, Counted
  <2>2. CASE r \in rs
    <3>1. answers'[r] = 1 /\ doing'[r] = "none" /\ r \in used'
      BY <1>1, <2>2
    <3>2. QED
      BY <3>1
  <2>3. CASE r \notin rs
    BY <1>1, <2>1, <2>3
  <2>4. QED
    BY <2>2, <2>3
<1>5. \A r \in Req : Queued(r) => answers'[r] = answers[r]
  BY <1>1
<1>6. QED
  BY <1>3, <1>4, <1>5, KeptSound

LEMMA AwaitSound ==
  ASSUME TypeOK, TypeOK', Sound, fault = "none", NEW r \in Req, Issue(r), NEW what, NEW h,
         Await(r, what, h), UNCHANGED <<bufVars, stackVars>>
  PROVE  AnswerInv'
<1>1. UNCHANGED <<readWaiting, acceptWaiting>> /\ QueuesExact
  BY DEF bufVars, Sound
<1>2. QueuesExact'
  BY <1>1, AwaitStep
<1>3. /\ answers' = answers /\ r \notin used /\ used' = used \cup {r}
      /\ \A s \in Req : s # r => doing'[s] = doing[s]
  BY DEF Await, Issue, TypeOK, ReqTypes
<1>4. Counted'
  BY <1>3 DEF Sound, Counted
<1>5. QED
  BY <1>2, <1>3, <1>4, KeptSound

(* A request reads or accepts on a stream. *)
LEMMA AskStep ==
  ASSUME TypeOK, TypeOK', Sound, MemInv, fault = "none", NEW r \in Req, NEW w \in Wrap,
         Accept(r, w) \/ Read(r, w)
  PROVE  AnswerInv'
<1>1. /\ Issue(r) /\ w \in held
      /\ UNCHANGED <<wrapVars, errcode, arrived, discarded, doing>>
  BY DEF Accept, Read
<1>2. /\ wrap[w] # "freed" /\ UNCHANGED wrap /\ used \subseteq used'
  BY <1>1 DEF MemInv, Owned, wrapVars, Issue
<1>3. /\ readBuf[w] \in Seq(Nat) /\ readWaiting \in [Wrap -> Seq(Req)]
      /\ acceptWaiting \in [Wrap -> Seq(Req)] /\ resolving \in Seq(Frames)
      /\ readWaiting[w] \in Seq(Req) /\ acceptWaiting[w] \in Seq(Req)
      /\ Append(readWaiting[w], r) \in Seq(Req) /\ Append(acceptWaiting[w], r) \in Seq(Req)
  BY QueueTypes DEF TypeOK, BufTypes, StackTypes
<1>4. /\ answers[r] = 0 /\ QueuesExact /\ Stacked(resolving)
      /\ Told(resolving, w, readWaiting[w], acceptWaiting[w], readBuf[w], errcode'[w], answers)
  BY <1>1 DEF Sound, Counted, StreamsFit, Issue
<1>5. InBytes(Bytes(resolving, w, given[w], readBuf[w]), arrived'[w], discarded'[w])
  BY <1>1, StreamBytes DEF Sound, InStream
<1>6. \A q \in Seq(Req) : /\ ToSet(Append(q, r)) = ToSet(q) \cup {r} /\ Append(q, r) # <<>>
                          /\ q # <<>> => Head(Append(q, r)) = Head(q)
  <2>1. ASSUME NEW q \in Seq(Req), q # <<>> PROVE Head(Append(q, r)) = Head(q)
    <3>1. Append(q, r) # <<>> /\ Append(q, r) \in Seq(Req) /\ Len(q) \in Nat \ {0}
      BY <2>1, QueueAppend, EmptySeq, LenProperties
    <3>2. Append(q, r)[1] = q[1]
      BY <3>1, AppendProperties
    <3>3. QED
      BY <2>1, <3>1, <3>2, HeadTailProperties
  <2>2. QED
    BY <2>1, QueueAppend
<1>7. \A v \in Wrap : v # w =>
        /\ \A kinds : On(resolving, v, kinds) <=> On(resolving, v, kinds)
        /\ errcode'[v] = errcode[v] /\ arrived'[v] = arrived[v] /\ discarded'[v] = discarded[v]
  BY <1>1
<1>8. CASE Accept(r, w)
  <2>1. Processing(w, readBuf[w], readWaiting[w], Append(acceptWaiting[w], r), resolving)
    BY <1>8 DEF Accept
  <2>2. /\ acceptWaiting' = [acceptWaiting EXCEPT ![w] = Append(acceptWaiting[w], r)]
        /\ readWaiting' = readWaiting
    BY <1>3, <2>1 DEF Processing
  <2>3. QueuesExact'
    BY <1>1, <1>4, <2>2, JoinStep
  <2>4. Told(resolving, w, readWaiting[w], Append(acceptWaiting[w], r), readBuf[w], errcode'[w], answers)
    BY <1>3, <1>4, <1>6 DEF Told
  <2>5. QED
    BY <1>1, <1>2, <1>3, <1>4, <1>5, <1>7, <2>1, <2>3, <2>4, ProcessingSound
<1>9. CASE Read(r, w)
  <2>1. Processing(w, readBuf[w], Append(readWaiting[w], r), acceptWaiting[w], resolving)
    BY <1>9 DEF Read
  <2>2. /\ readWaiting' = [readWaiting EXCEPT ![w] = Append(readWaiting[w], r)]
        /\ acceptWaiting' = acceptWaiting
    BY <1>3, <2>1 DEF Processing
  <2>3. QueuesExact'
    BY <1>1, <1>4, <2>2, JoinStep
  <2>4. Told(resolving, w, Append(readWaiting[w], r), acceptWaiting[w], readBuf[w], errcode'[w], answers)
    BY <1>3, <1>4, <1>6 DEF Told
  <2>5. QED
    BY <1>1, <1>2, <1>3, <1>4, <1>5, <1>7, <2>1, <2>3, <2>4, ProcessingSound
<1>10. QED
  BY <1>8, <1>9

(* What arrives joins the stream, whether it is buffered or given at once. *)
LEMMA StreamAppend ==
  ASSUME NEW g \in Seq(Nat), NEW b \in Seq(Nat), NEW x \in Nat
  PROVE  /\ g \o Append(b, x) = Append(g \o b, x)
         /\ (g \o Append(b, x)) \o <<>> = Append(g \o b, x)
         /\ (g \o b) \o <<>> = g \o b
<1>1. Append(b, x) = b \o <<x>> /\ Append(b, x) \in Seq(Nat) /\ <<x>> \in Seq(Nat)
  BY AppendIsConcat, AppendProperties
<1>2. g \o b \in Seq(Nat) /\ g \o Append(b, x) \in Seq(Nat)
  BY <1>1, ConcatProperties
<1>3. g \o (b \o <<x>>) = (g \o b) \o <<x>>
  BY <1>1, ConcatAssociative
<1>4. Append(g \o b, x) = (g \o b) \o <<x>>
  BY <1>2, AppendIsConcat
<1>5. QED
  BY <1>1, <1>2, <1>3, <1>4, ConcatEmptySeq

(* The next number keeps a stream increasing. *)
LEMMA IncreasingAppend ==
  ASSUME NEW s \in Seq(Nat), NEW n \in Nat, \A k \in 1 .. Len(s) : s[k] <= n
  PROVE  /\ Increasing(s) => Increasing(Append(s, n + 1))
         /\ \A k \in 1 .. Len(Append(s, n + 1)) : Append(s, n + 1)[k] <= n + 1
<1>1. /\ Len(Append(s, n + 1)) = Len(s) + 1 /\ Len(s) \in Nat
      /\ \A k \in 1 .. Len(s) : Append(s, n + 1)[k] = s[k]
      /\ Append(s, n + 1)[Len(s) + 1] = n + 1
  BY AppendProperties, LenProperties
<1>2. \A k \in 1 .. Len(s) : s[k] \in Nat
  BY ElementOfSeq
<1>3. ASSUME Increasing(s) PROVE Increasing(Append(s, n + 1))
  <2> SUFFICES ASSUME NEW k \in 1 .. Len(s)
               PROVE  Append(s, n + 1)[k] < Append(s, n + 1)[k + 1]
    BY <1>1 DEF Increasing
  <2>1. CASE k = Len(s)
    BY <1>1, <1>2, <2>1
  <2>2. CASE k # Len(s)
    <3>1. k \in 1 .. Len(s) - 1 /\ k + 1 \in 1 .. Len(s)
      BY <1>1, <2>2
    <3>2. QED
      BY <1>1, <1>3, <3>1 DEF Increasing
  <2>3. QED
    BY <2>1, <2>2
<1>4. ASSUME NEW k \in 1 .. Len(Append(s, n + 1)) PROVE Append(s, n + 1)[k] <= n + 1
  <2>1. k \in 1 .. Len(s) \/ k = Len(s) + 1
    BY <1>1
  <2>2. QED
    BY <1>1, <1>2, <2>1
<1>5. QED
  BY <1>3, <1>4

LEMMA InBytesAppend ==
  ASSUME NEW s \in Seq(Nat), NEW all \in Seq(Nat), NEW lost \in BOOLEAN, InBytes(s, all, lost),
         NEW n \in Nat, n = Len(all)
  PROVE  /\ InBytes(Append(s, n + 1), Append(all, n + 1), lost)
         /\ InBytes(s, Append(all, n + 1), TRUE)
<1>1. /\ Len(Append(all, n + 1)) = n + 1 /\ n + 1 \in Nat
      /\ \A k \in 1 .. n + 1 : Append(all, n + 1)[k] = k
  <2>1. /\ Len(Append(all, n + 1)) = n + 1 /\ n + 1 \in Nat
        /\ \A k \in 1 .. n : Append(all, n + 1)[k] = all[k]
        /\ Append(all, n + 1)[n + 1] = n + 1
    BY AppendProperties
  <2>2. \A k \in 1 .. n + 1 : k \in 1 .. n \/ k = n + 1
    OBVIOUS
  <2>3. \A k \in 1 .. n : all[k] = k
    BY DEF InBytes
  <2>4. QED
    BY <2>1, <2>2, <2>3
<1>2. Increasing(s)
  <2>1. CASE lost
    BY <2>1 DEF InBytes
  <2>2. CASE ~lost
    <3>1. s = all /\ \A k \in 1 .. n : all[k] = k
      BY <2>2 DEF InBytes
    <3>2. \A k \in 1 .. n - 1 : k \in 1 .. n /\ k + 1 \in 1 .. n /\ k < k + 1
      OBVIOUS
    <3>3. QED
      BY <3>1, <3>2 DEF Increasing
  <2>3. QED
    BY <2>1, <2>2
<1>3. /\ \A k \in 1 .. Len(s) : s[k] <= n
      /\ \A k \in 1 .. Len(s) : s[k] \in Nat
  BY ElementOfSeq DEF InBytes
<1>4. /\ Increasing(Append(s, n + 1))
      /\ \A k \in 1 .. Len(Append(s, n + 1)) : Append(s, n + 1)[k] <= n + 1
  BY <1>2, <1>3, IncreasingAppend
<1>5. \A k \in 1 .. Len(s) : s[k] <= n + 1
  BY <1>3
<1>6. ~lost => Append(s, n + 1) = Append(all, n + 1)
  BY DEF InBytes
<1>7. QED
  BY <1>1, <1>2, <1>4, <1>5, <1>6 DEF InBytes

LEMMA Idle ==
  ASSUME TypeOK, Sound, resolving = <<>>
  PROVE  /\ \A v, kinds : ~On(resolving, v, kinds)
         /\ Stacked(resolving) /\ resolving \in Seq(Frames) /\ QueuesExact
         /\ \A w \in Wrap : \A b, e :
              Told(resolving, w, readWaiting[w], acceptWaiting[w], b, e, answers)
         /\ \A w \in Wrap : /\ readWaiting[w] # <<>> => readBuf[w] = <<>> /\ ~errcode[w]
                            /\ acceptWaiting[w] # <<>> => ~errcode[w]
<1>1. \A v, kinds : ~On(resolving, v, kinds)
  <2>1. Len(resolving) = 0
    BY EmptySeq
  <2>2. QED
    BY <2>1 DEF On
<1>2. Stacked(resolving) /\ resolving \in Seq(Frames) /\ QueuesExact
  BY DEF Sound, StreamsFit, TypeOK, StackTypes
<1>3. \A w \in Wrap : Told(resolving, w, readWaiting[w], acceptWaiting[w], readBuf[w], errcode[w], answers)
  BY DEF Sound, StreamsFit
<1>4. \A w \in Wrap : \A b, e : Told(resolving, w, readWaiting[w], acceptWaiting[w], b, e, answers)
  BY <1>1, <1>3 DEF Told
<1>5. \A w \in Wrap : Behind(resolving, w, readWaiting[w], acceptWaiting[w], readBuf[w], errcode[w])
  BY DEF Sound, StreamsFit
<1>6. QED
  BY <1>1, <1>2, <1>4, <1>5 DEF Behind

LEMMA ErrorStep ==
  ASSUME TypeOK, TypeOK', Sound, fault = "none", resolving = <<>>, NEW w \in Wrap,
         ConnectionError(w)
  PROVE  AnswerInv'
<1>1. /\ Processing(w, readBuf[w], readWaiting[w], acceptWaiting[w], resolving)
      /\ errcode' = [errcode EXCEPT ![w] = TRUE] /\ wrap[w] = "live"
      /\ UNCHANGED <<wrapVars, arrived, discarded, doing, used>>
  BY DEF ConnectionError
<1>2. /\ readBuf[w] \in Seq(Nat) /\ readWaiting \in [Wrap -> Seq(Req)]
      /\ acceptWaiting \in [Wrap -> Seq(Req)] /\ errcode \in [Wrap -> BOOLEAN]
      /\ readWaiting[w] \in Seq(Req) /\ acceptWaiting[w] \in Seq(Req)
  BY DEF TypeOK, BufTypes
<1>3. QueuesExact'
  <2>1. UNCHANGED <<readWaiting, acceptWaiting>>
    BY <1>1, <1>2 DEF Processing
  <2>2. QED
    BY <1>1, <2>1, Idle, QueuesStay, ShrinkStep
<1>4. InBytes(Bytes(resolving, w, given[w], readBuf[w]), arrived'[w], discarded'[w])
  BY <1>1, StreamBytes DEF Sound, InStream
<1>5. Told(resolving, w, readWaiting[w], acceptWaiting[w], readBuf[w], errcode'[w], answers)
  BY Idle
<1>6. \A v \in Wrap : v # w =>
        /\ \A kinds : On(resolving, v, kinds) <=> On(resolving, v, kinds)
        /\ errcode'[v] = errcode[v] /\ arrived'[v] = arrived[v] /\ discarded'[v] = discarded[v]
  BY <1>1, <1>2
<1>7. UNCHANGED wrap /\ wrap[w] # "freed" /\ used \subseteq used'
  BY <1>1 DEF wrapVars
<1>8. QED
  BY <1>1, <1>2, <1>3, <1>4, <1>5, <1>6, <1>7, Idle, ProcessingSound

LEMMA ArrivesStep ==
  ASSUME TypeOK, TypeOK', Sound, fault = "none", resolving = <<>>, NEW h \in Handle, Arrives(h)
  PROVE  AnswerInv'
<1>1. PICK w \in Wrap : w = data[h]
  BY DEF Arrives, TypeOK, HandleTypes, Maybe
<1>2. UNCHANGED <<errcode, wrapVars, doing, used>> /\ UNCHANGED wrap /\ used \subseteq used'
  BY DEF Arrives, wrapVars
<1>3. CASE wrap[w] = "freed"
  <2>1. UNCHANGED <<bufVars, answers, stackVars>> /\ UNCHANGED <<readWaiting, acceptWaiting>>
    BY <1>1, <1>3 DEF Arrives, bufVars
  <2>2. QueuesExact'
    BY <1>2, <2>1, Idle, QueuesStay, ShrinkStep
  <2>3. Counted'
    BY <1>2, <2>1 DEF Sound, Counted
  <2>4. QED
    BY <2>1, <2>2, <2>3, KeptSound
<1>4. CASE wrap[w] # "freed"
  <2>1. PICK n \in Nat : n = Len(arrived[w])
    BY LenProperties DEF TypeOK, BufTypes
  <2>2. /\ arrived \in [Wrap -> Seq(Nat)] /\ readBuf \in [Wrap -> Seq(Nat)]
        /\ readWaiting \in [Wrap -> Seq(Req)] /\ acceptWaiting \in [Wrap -> Seq(Req)]
        /\ given \in [Wrap -> Seq(Nat)] /\ discarded \in [Wrap -> BOOLEAN]
    BY DEF TypeOK, BufTypes
  <2>3. /\ arrived' = [arrived EXCEPT ![w] = Append(arrived[w], n + 1)]
        /\ PushData(w, n + 1)
    BY <1>1, <1>4, <2>1, <2>2 DEF Arrives
  <2>4. /\ arrived'[w] = Append(arrived[w], n + 1) /\ n + 1 \in Nat
        /\ \A v \in Wrap : v # w => arrived'[v] = arrived[v]
    BY <2>2, <2>3
  <2>5. /\ Stream(w) = given[w] \o readBuf[w] /\ Stream(w) \in Seq(Nat)
        /\ InBytes(Stream(w), arrived[w], discarded[w])
    <3>1. Stream(w) = given[w] \o readBuf[w]
      BY Idle, StreamBytes DEF Bytes
    <3>2. Stream(w) \in Seq(Nat)
      BY <2>2, <3>1, ConcatProperties
    <3>3. QED
      BY <3>1, <3>2 DEF Sound, InStream
  <2>6. /\ InBytes(Append(Stream(w), n + 1), arrived'[w], discarded[w])
        /\ InBytes(Stream(w), arrived'[w], TRUE)
    BY <2>1, <2>2, <2>4, <2>5, InBytesAppend
  <2>7. CASE Len(readBuf[w]) > Limit
    <3>1. /\ discarded' = [discarded EXCEPT ![w] = TRUE]
          /\ UNCHANGED <<readBuf, readWaiting, acceptWaiting, given, answers, stackVars>>
      BY <2>3, <2>7 DEF PushData
    <3>2. QueuesExact'
      BY <1>2, <3>1, Idle, QueuesStay, ShrinkStep
    <3>3. UNCHANGED <<resolving, fault>> /\ Stream(w)' = Stream(w)
      BY <3>1 DEF stackVars, Stream, Ahead
    <3>4. InBytes(Stream(w)', arrived'[w], discarded'[w])
      BY <2>2, <2>6, <3>1, <3>3
    <3>5. \A v \in Wrap : v # w => discarded'[v] = discarded[v]
      BY <2>2, <3>1
    <3>6. /\ Told(resolving', w, readWaiting'[w], acceptWaiting'[w], readBuf'[w], errcode'[w], answers')
          /\ Behind(resolving', w, readWaiting'[w], acceptWaiting'[w], readBuf'[w], errcode'[w])
      BY <1>2, <3>1, <3>3 DEF Sound, StreamsFit
    <3>7. QED
      BY <1>2, <2>4, <3>1, <3>2, <3>3, <3>4, <3>5, <3>6, Idle, FitSound
  <2>8. CASE ~(Len(readBuf[w]) > Limit)
    <3>1. /\ Processing(w, Append(readBuf[w], n + 1), readWaiting[w], acceptWaiting[w], resolving)
          /\ UNCHANGED discarded
      BY <2>3, <2>8 DEF PushData
    <3>2. QueuesExact'
      <4>1. UNCHANGED <<readWaiting, acceptWaiting>>
        BY <2>2, <3>1 DEF Processing
      <4>2. QED
        BY <1>2, <4>1, Idle, QueuesStay, ShrinkStep
    <3>3. Append(readBuf[w], n + 1) \in Seq(Nat)
      BY <2>2, <2>4, AppendProperties
    <3>4. InBytes(Bytes(resolving, w, given[w], Append(readBuf[w], n + 1)), arrived'[w], discarded'[w])
      <4>1. given[w] \o Append(readBuf[w], n + 1) = Append(given[w] \o readBuf[w], n + 1)
        BY <2>2, <2>4, StreamAppend
      <4>2. Bytes(resolving, w, given[w], Append(readBuf[w], n + 1)) = Append(Stream(w), n + 1)
        BY <2>5, <4>1, Idle DEF Bytes
      <4>3. QED
        BY <2>6, <3>1, <4>2
    <3>5. Told(resolving, w, readWaiting[w], acceptWaiting[w], Append(readBuf[w], n + 1), errcode'[w], answers)
      BY Idle
    <3>6. \A v \in Wrap : v # w =>
            /\ \A kinds : On(resolving, v, kinds) <=> On(resolving, v, kinds)
            /\ errcode'[v] = errcode[v] /\ arrived'[v] = arrived[v] /\ discarded'[v] = discarded[v]
      BY <1>2, <2>4, <3>1
    <3>7. QED
      BY <1>2, <1>4, <2>2, <3>1, <3>2, <3>3, <3>4, <3>5, <3>6, Idle, ProcessingSound
  <2>9. QED
    BY <2>7, <2>8
<1>5. QED
  BY <1>3, <1>4

LEMMA ConnectionStep ==
  ASSUME TypeOK, TypeOK', Sound, fault = "none", resolving = <<>>,
         NEW w \in Wrap, NEW new \in Wrap, NEW h \in Handle, Connection(w, new, h)
  PROVE  AnswerInv'
<1>1. /\ PushConn(w, new) /\ UNCHANGED <<bufVars, doing, used>>
      /\ UNCHANGED <<readBuf, readWaiting, acceptWaiting, errcode, arrived, given, discarded>>
  BY DEF Connection, bufVars
<1>2. QueuesExact'
  BY <1>1, Idle, QueuesStay, ShrinkStep
<1>3. CASE acceptWaiting[w] = <<>>
  <2>1. UNCHANGED <<answers, stackVars>>
    BY <1>1, <1>3 DEF PushConn
  <2>2. Counted'
    BY <1>1, <2>1 DEF Sound, Counted
  <2>3. QED
    BY <1>1, <1>2, <2>1, <2>2, KeptSound
<1>4. CASE acceptWaiting[w] # <<>>
  <2>1. /\ readWaiting[w] \in Seq(Req) /\ acceptWaiting[w] \in Seq(Req)
        /\ answers \in [Req -> Nat]
    BY DEF TypeOK, BufTypes, ReqTypes
  <2>2. PICK r \in Req : r = Head(acceptWaiting[w]) /\ r \in ToSet(acceptWaiting[w])
    BY <1>4, <2>1, QueueTail
  <2>3. ~On(resolving, w, Accepts) /\ ~On(resolving, w, Reads)
    BY Idle
  <2>4. answers[r] = 0
    BY <2>2, <2>3 DEF Sound, StreamsFit, Told
  <2>5. /\ answers' = Answers({r}) /\ fault' = "none"
        /\ resolving' = Append(resolving, Frame(w, "conn"))
    BY <1>1, <1>4, <2>2, <2>4 DEF PushConn, Answer
  <2>6. /\ ~errcode[w] /\ ToSet(readWaiting[w]) \cap ToSet(acceptWaiting[w]) = {}
        /\ Told(resolving, w, readWaiting[w], acceptWaiting[w], readBuf[w], errcode[w], answers)
        /\ Stacked(resolving) /\ resolving \in Seq(Frames)
    BY <1>4, Idle DEF QueuesExact
  <2>7. "conn" \in Accepts /\ "conn" \notin Reads /\ "conn" \in Reads \cup Accepts
        /\ "conn" \notin {"data"}
    BY DEF Accepts, Reads
  <2>8. /\ Stacked(resolving')
        /\ Told(resolving', w, readWaiting[w], acceptWaiting[w], readBuf[w], errcode[w], answers')
    <3>1. PICK d : d = answers'
      OBVIOUS
    <3>2. d = [s \in Req |-> IF s \in {r} THEN answers[s] + 1 ELSE answers[s]]
      BY <2>5, <3>1 DEF Answers
    <3>3. PICK b, e : b = readBuf[w] /\ e = errcode[w]
      OBVIOUS
    <3>4. PICK q \in Seq(Req) : q = readWaiting[w]
      BY <2>1
    <3>5. PICK a \in Seq(Req) : a = acceptWaiting[w]
      BY <2>1
    <3>6. PICK s \in Seq(Frames) : s = resolving
      BY <2>6
    <3>7. PICK c \in [Req -> Nat] : c = answers
      BY <2>1
    <3>8. /\ Told(s, w, q, a, b, e, c) /\ ~e /\ Stacked(s) /\ c[r] = 0
          /\ ToSet(q) \cap ToSet(a) = {} /\ ~On(s, w, Accepts) /\ ~On(s, w, Reads)
          /\ a # <<>> /\ r = Head(a)
          /\ d = [t \in Req |-> IF t \in {r} THEN c[t] + 1 ELSE c[t]]
      BY <1>4, <2>2, <2>3, <2>4, <2>6, <3>2, <3>3, <3>4, <3>5, <3>6, <3>7
    <3>9. /\ Stacked(Append(s, Frame(w, "conn")))
          /\ Told(Append(s, Frame(w, "conn")), w, q, a, b, e, d)
      <4>1. PICK then \in Reads \cup Accepts : then = "conn"
        BY <2>7
      <4>2. /\ then \in Reads => q # <<>> /\ r = Head(q)
            /\ then \in Accepts => a # <<>> /\ r = Head(a) /\ ~On(s, w, Reads)
            /\ then = "data" => b # <<>>
            /\ then = "readers" => b = <<>>
            /\ then = "conn" => ~e
        BY <2>7, <3>8, <4>1
      <4>3. /\ Told(s, w, q, a, b, e, c) /\ Stacked(s) /\ c[r] = 0 /\ ToSet(q) \cap ToSet(a) = {}
            /\ d = [t \in Req |-> IF t \in {r} THEN c[t] + 1 ELSE c[t]]
        BY <3>8
      <4>4. /\ Stacked(Append(s, Frame(w, then)))
            /\ Told(Append(s, Frame(w, then)), w, q, a, b, e, d)
        BY ONLY <4>2, <4>3, q \in Seq(Req), a \in Seq(Req), s \in Seq(Frames), c \in [Req -> Nat],
           then \in Reads \cup Accepts, w \in Wrap, r \in Req, PushTold
      <4>5. QED
        BY <4>1, <4>4
    <3>10. QED
      BY <2>5, <3>1, <3>3, <3>4, <3>5, <3>6, <3>9
  <2>9. /\ Frame(w, "conn") \in Frames /\ Frame(w, "conn").w = w /\ Frame(w, "conn").then = "conn"
    BY <2>7 DEF Frame, Frames
  <2>10. \A v, kinds : On(resolving', v, kinds) <=> On(resolving, v, kinds) \/ (w = v /\ "conn" \in kinds)
    <3>1. PICK s \in Seq(Frames) : s = resolving
      BY <2>6
    <3>2. PICK f \in Frames : f = Frame(w, "conn") /\ f.w = w /\ f.then = "conn"
      BY <2>9
    <3>3. \A v, kinds : On(Append(s, f), v, kinds) <=> On(s, v, kinds) \/ (f.w = v /\ f.then \in kinds)
      BY ONLY OnPush
    <3>4. QED
      BY <2>5, <3>1, <3>2, <3>3
  <2>11. Behind(resolving', w, readWaiting[w], acceptWaiting[w], readBuf[w], errcode[w])
    BY <2>6, <2>3, Idle DEF Behind
  <2>12. InBytes(Stream(w)', arrived'[w], discarded'[w])
    <3>1. Bytes(resolving', w, given'[w], readBuf'[w]) = Bytes(resolving, w, given[w], readBuf[w])
      BY <1>1, <2>7, <2>10 DEF Bytes
    <3>2. Stream(w)' = Stream(w)
      BY <3>1, StreamBytes, StreamBytesNext
    <3>3. QED
      BY <1>1, <3>2 DEF Sound, InStream
  <2>13. \A s \in Req : answers'[s] = answers[s] \/
           (answers[s] = 0 /\ answers'[s] = 1
              /\ (s \in ToSet(readWaiting'[w]) \/ s \in ToSet(acceptWaiting'[w])))
    <3>1. \A s \in Req : answers'[s] = IF s = r THEN answers[s] + 1 ELSE answers[s]
      BY <2>5 DEF Answers
    <3>2. answers'[r] = 1
      BY <2>4, <3>1
    <3>3. QED
      BY <1>1, <2>2, <2>4, <3>1, <3>2
  <2>14. used \subseteq used'
    BY <1>1
  <2>15. QED
    BY <1>1, <1>2, <2>5, <2>8, <2>10, <2>11, <2>12, <2>13, <2>14, FitSound
<1>5. QED
  BY <1>3, <1>4

LEMMA AnswerInvStep ==
  ASSUME TypeOK, TypeOK', AnswerInv, MemInv, [Next]_vars
  PROVE  AnswerInv'
<1>1. CASE UNCHANGED vars
  <2>1. /\ UNCHANGED <<readBuf, readWaiting, acceptWaiting, errcode, arrived, given, discarded>>
        /\ UNCHANGED <<doing, answers, used, resolving, fault, wrap>>
    BY <1>1 DEF vars, wrapVars, bufVars, reqVars, stackVars
  <2>2. AnsweredOnce'
    BY <2>1 DEF AnswerInv, AnsweredOnce, Queued, Answered
  <2>3. ReadsExact'
    BY <2>1 DEF AnswerInv, ReadsExact, Ahead
  <2>4. Sound => Sound'
    BY <2>1 DEF Sound, QueuesExact, Queued, Counted, StreamsFit, InStream, Stream, Ahead
  <2>5. QED
    BY <2>1, <2>2, <2>3, <2>4 DEF AnswerInv
<1>2. ASSUME Next PROVE AnswerInv'
  <2>1. fault = "none" /\ Sound
    BY <1>2 DEF Next, AnswerInv
  <2>2. ASSUME UNCHANGED <<bufVars, reqVars, used, stackVars>> PROVE AnswerInv'
    <3>1. UNCHANGED <<readWaiting, acceptWaiting, doing, answers, used>> /\ QueuesExact
      BY <2>1, <2>2 DEF bufVars, reqVars, Sound
    <3>2. QueuesExact'
      BY <3>1, QueuesStay, ShrinkStep
    <3>3. Counted'
      BY <2>1, <3>1 DEF Sound, Counted
    <3>4. QED
      BY <2>1, <2>2, <3>1, <3>2, <3>3, KeptSound
  <2>3. ASSUME NEW r \in Req, Issue(r), Finish({r}), UNCHANGED <<bufVars, stackVars>> PROVE AnswerInv'
    <3>1. answers[r] = 0 /\ ~Queued(r) /\ r \in used' /\ used \subseteq used'
      BY <2>1, <2>3 DEF Sound, Counted, QueuesExact, Issue
    <3>2. {r} \in SUBSET Req /\ \A s \in {r} : s = r
      OBVIOUS
    <3>3. QED
      BY <2>1, <2>3, <3>1, <3>2, FinishSound
  <2>4. ASSUME NEW rs \in SUBSET Req, \A r \in rs : doing[r] # "none", Finish(rs),
               UNCHANGED <<bufVars, stackVars, used>>
        PROVE  AnswerInv'
    <3>1. \A r \in rs : answers[r] = 0 /\ ~Queued(r) /\ r \in used
      BY <2>1, <2>4 DEF Sound, Counted, QueuesExact
    <3>2. QED
      BY <2>1, <2>4, <3>1, FinishSound
  <2>5. ASSUME NEW r \in Req, AtOnce(r) \/ FsRequest(r) \/ FsCb(r) \/ WriteCb(r)
        PROVE  AnswerInv'
    <3>1. CASE AtOnce(r)
      BY <2>3, <3>1 DEF AtOnce
    <3>2. CASE FsRequest(r)
      BY <2>1, <3>2, AwaitSound DEF FsRequest
    <3>3. CASE FsCb(r) \/ WriteCb(r)
      <4>1. {r} \in SUBSET Req /\ \A s \in {r} : doing[s] # "none"
        BY <3>3 DEF FsCb, WriteCb
      <4>2. Finish({r}) /\ UNCHANGED <<bufVars, stackVars, used>>
        BY <3>3 DEF FsCb, WriteCb
      <4>3. QED
        BY <2>4, <4>1, <4>2
    <3>4. QED
      BY <2>5, <3>1, <3>2, <3>3
  <2>6. ASSUME NEW r \in Req, NEW w \in Wrap, Write(r, w) PROVE AnswerInv'
    <3>1. Issue(r) /\ UNCHANGED <<bufVars, stackVars>>
      BY <2>6 DEF Write
    <3>2. \/ Finish({r})
          \/ \E what \in {"write", "lost"} : Await(r, what, stream[w])
      BY <2>6 DEF Write
    <3>3. QED
      BY <2>1, <2>3, <3>1, <3>2, AwaitSound
  <2>7. ASSUME NEW r \in Req, NEW w \in Wrap, ConnectCb(r, w) PROVE AnswerInv'
    <3>1. {r} \in SUBSET Req /\ \A s \in {r} : doing[s] # "none"
      BY <2>7 DEF ConnectCb
    <3>2. Finish({r}) /\ UNCHANGED <<bufVars, stackVars, used>>
      BY <2>7 DEF ConnectCb
    <3>3. QED
      BY <2>4, <3>1, <3>2
  <2>8. ASSUME NEW r \in Req, NEW w \in Wrap, Stdio(r, w) PROVE AnswerInv'
    BY <2>3, <2>8 DEF Stdio
  <2>9. ASSUME NEW r \in Req, NEW w \in Wrap, NEW h \in Handle, Bind(r, w, h) PROVE AnswerInv'
    BY <2>3, <2>9 DEF Bind
  <2>10. ASSUME NEW r \in Req, NEW w \in Wrap, NEW h \in Handle, Connect(r, w, h) PROVE AnswerInv'
    <3>1. PICK what \in {"connect", "lost"} : Await(r, what, h)
      BY <2>10 DEF Connect
    <3>2. Issue(r) /\ UNCHANGED <<bufVars, stackVars>>
      BY <2>10 DEF Connect
    <3>3. QED
      BY <2>1, <3>1, <3>2, AwaitSound
  <2>11. ASSUME NEW r \in Req, NEW h \in Handle, Spawn(r, h) PROVE AnswerInv'
    BY <2>3, <2>11 DEF Spawn
  <2>12. ASSUME NEW w \in Wrap, FreeRef(w) PROVE AnswerInv'
    BY <2>2, <2>12 DEF FreeRef
  <2>13. ASSUME NEW h \in Handle, CloseCb(h) PROVE AnswerInv'
    <3>1. PICK rs \in SUBSET Req : rs = {r \in Req : doing[r] \in {"write", "connect"} /\ target[r] = h}
      OBVIOUS
    <3>2. \A r \in rs : doing[r] # "none"
      BY <3>1
    <3>3. Finish(rs) /\ UNCHANGED <<bufVars, stackVars, used>>
      BY <2>13, <3>1 DEF CloseCb
    <3>4. QED
      BY <2>4, <3>2, <3>3
  <2>14. ASSUME NEW h \in Handle, ReadEnds(h) PROVE AnswerInv'
    BY <2>2, <2>14 DEF ReadEnds
  <2>15. ASSUME FreeProc \/ ProcExit PROVE AnswerInv'
    BY <2>2, <2>15 DEF FreeProc, ProcExit
  <2>16. CASE ClientNext
    BY <2>1, <2>5, <2>6, <2>8, <2>9, <2>10, <2>11, <2>12, <2>15, <2>16, AskStep DEF ClientNext
  <2>17. CASE Resolved
    BY <2>1, <2>17, ResolvedStep
  <2>18. CASE resolving = <<>> /\ LibuvNext
    BY <2>1, <2>5, <2>7, <2>13, <2>14, <2>15, <2>18, ErrorStep, ConnectionStep, ArrivesStep DEF LibuvNext
  <2>19. QED
    BY <1>2, <2>16, <2>17, <2>18 DEF Next
<1>3. QED
  BY <1>1, <1>2
-----------------------------------------------------------------------------
(* The memory: what was given back is not used. *)

(* Requests that connect when no other begins to. *)
LEMMA ConnectsKept ==
  ASSUME TypeOK, Connects, target' = target,
         \A r \in Req : doing'[r] = "connect" => doing[r] = "connect",
         \A h \in Handle : handle[h] # "none" => handle'[h] # "none",
         \A r \in Req : doing'[r] = "connect" => role'[target[r]] = role[target[r]]
  PROVE  Connects'
BY DEF Connects

LEMMA FinishConnects ==
  ASSUME TypeOK, NEW rs, Finish(rs)
  PROVE  /\ target' = target
         /\ \A r \in Req : doing'[r] = "connect" => doing[r] = "connect" /\ r \notin rs
BY DEF Finish, TypeOK, ReqTypes

LEMMA AwaitConnects ==
  ASSUME TypeOK, Connects, NEW r \in Req, NEW what, what # "connect", NEW h \in Maybe(Handle),
         Await(r, what, h), UNCHANGED <<handle, role>>
  PROVE  Connects'
BY DEF Await, TypeOK, ReqTypes, Connects

(* A new wrap with a new handle of its own. *)
LEMMA NewWrapOwned ==
  ASSUME TypeOK, Owned, PointsBack, Process, NEW w \in Wrap, NEW h \in Handle, NEW as, NEW ds,
         NewWrap(w, h, as, ds), UNCHANGED stdio, held' \in {held, held \cup {w}}
  PROVE  Owned'
<1>1. /\ \A v \in Wrap : v # w => /\ wrap'[v] = wrap[v] /\ stream'[v] = stream[v]
                                  /\ closeOnDestruct'[v] = closeOnDestruct[v]
      /\ wrap'[w] = "live" /\ stream'[w] = h /\ closeOnDestruct'[w] = TRUE
      /\ handle'[h] = "open" /\ \A g \in Handle : g # h => handle'[g] = handle[g]
      /\ wrap[w] = "none" /\ handle[h] = "none"
  BY DEF NewWrap, TypeOK, WrapTypes, HandleTypes
<1>2. h # stdio
  BY <1>1, UvRpcAssumption DEF Process
<1>3. \A v \in Wrap : closeOnDestruct[v] => v # w /\ stream[v] # h /\ stream[v] \in Handle
  BY <1>1 DEF Owned, TypeOK, WrapTypes
<1>4. ASSUME NEW v \in Wrap
      PROVE  /\ wrap'[v] = "none" => ~closeOnDestruct'[v] /\ v \notin held' /\ stream'[v] = Nil
             /\ wrap'[v] # "none" => stream'[v] \in Handle
             /\ wrap'[v] # "none" /\ ~closeOnDestruct'[v] => stream'[v] = stdio'
             /\ closeOnDestruct'[v] =>
                  /\ stream'[v] # stdio' /\ handle'[stream'[v]] # "none"
                  /\ wrap'[v] = "live" => handle'[stream'[v]] = "open"
                  /\ wrap'[v] = "freed" => handle'[stream'[v]] \in {"closing", "freed"}
             /\ v \in held' => wrap'[v] = "live"
  <2>1. CASE v = w
    BY <1>1, <1>2, <2>1
  <2>2. CASE v # w
    BY <1>1, <1>3, <2>2 DEF Owned
  <2>3. QED
    BY <2>1, <2>2
<1>5. ASSUME NEW u \in Wrap, NEW v \in Wrap, closeOnDestruct'[u], closeOnDestruct'[v],
             stream'[u] = stream'[v]
      PROVE  u = v
  BY <1>1, <1>3, <1>5 DEF Owned
<1>6. QED
  BY <1>4, <1>5 DEF Owned

LEMMA NewWrapPoints ==
  ASSUME TypeOK, Owned, PointsBack, NEW w \in Wrap, NEW h \in Handle, NEW as, NEW ds \in {w, Nil},
         NewWrap(w, h, as, ds)
  PROVE  PointsBack'
<1>1. /\ \A v \in Wrap : v # w => /\ wrap'[v] = wrap[v] /\ stream'[v] = stream[v]
                                  /\ closeOnDestruct'[v] = closeOnDestruct[v]
      /\ wrap'[w] = "live" /\ stream'[w] = h
      /\ data'[h] = ds /\ \A g \in Handle : g # h => data'[g] = data[g]
      /\ wrap[w] = "none"
  BY DEF NewWrap, TypeOK, WrapTypes, HandleTypes
<1>2. \A g \in Handle : data[g] # Nil => data[g] \in Wrap /\ data[g] # w
  BY <1>1 DEF PointsBack, TypeOK, HandleTypes, Maybe
<1>3. ASSUME NEW g \in Handle, data'[g] # Nil
      PROVE  /\ wrap'[data'[g]] # "none"
             /\ closeOnDestruct'[data'[g]] => wrap'[data'[g]] = "live" /\ stream'[data'[g]] = g
  <2>1. CASE g = h
    BY <1>1, <1>3, <2>1
  <2>2. CASE g # h
    BY <1>1, <1>2, <1>3, <2>2 DEF PointsBack
  <2>3. QED
    BY <2>1, <2>2
<1>4. QED
  BY <1>3 DEF PointsBack

(* A live wrap is given back. *)
LEMMA DestructOwned ==
  ASSUME TypeOK, Owned, PointsBack, Process, NEW w \in Wrap, wrap[w] = "live", Destruct(w),
         UNCHANGED <<stream, closeOnDestruct, role, procVars>>
  PROVE  Owned' /\ PointsBack' /\ Process' /\ \A h \in Handle : handle[h] # "none" => handle'[h] # "none"
<1>1. /\ \A v \in Wrap : v # w => wrap'[v] = wrap[v]
      /\ wrap'[w] = "freed" /\ held' = held \ {w} /\ stream[w] \in Handle
      /\ UNCHANGED <<stdio, proc, child>>
  BY DEF Destruct, TypeOK, WrapTypes, Owned, procVars
<1>2. CASE closeOnDestruct[w]
  <2>1. /\ handle'[stream[w]] = "closing" /\ data'[stream[w]] = Nil
        /\ \A h \in Handle : h # stream[w] => handle'[h] = handle[h] /\ data'[h] = data[h]
    BY <1>1, <1>2 DEF Destruct, TypeOK, HandleTypes
  <2>2. \A v \in Wrap : closeOnDestruct[v] /\ v # w => stream[v] # stream[w] /\ stream[v] \in Handle
    BY <1>2 DEF Owned
  <2>3. Owned'
    BY <1>1, <1>2, <2>1, <2>2 DEF Owned
  <2>4. \A h \in Handle : data'[h] # Nil =>
           /\ h # stream[w] /\ data'[h] = data[h] /\ data[h] \in Wrap /\ data[h] # w
    BY <1>2, <2>1 DEF PointsBack, TypeOK, HandleTypes, Maybe
  <2>5. PointsBack'
    BY <1>1, <2>4 DEF PointsBack
  <2>6. Process'
    BY <1>1, <1>2, <2>1, UvRpcAssumption DEF Process, Owned, TypeOK, ProcTypes, Maybe
  <2>7. QED
    BY <2>1, <2>3, <2>5, <2>6
<1>3. CASE ~closeOnDestruct[w]
  <2>1. UNCHANGED <<handle, data>>
    BY <1>3 DEF Destruct
  <2>2. Owned'
    BY <1>1, <1>3, <2>1 DEF Owned
  <2>3. \A h \in Handle : data[h] # Nil => data[h] \in Wrap
    BY DEF TypeOK, HandleTypes, Maybe
  <2>4. PointsBack'
    BY <1>1, <1>3, <2>1, <2>3 DEF PointsBack
  <2>5. QED
    BY <1>1, <2>1, <2>2, <2>4 DEF Process
<1>4. QED
  BY <1>2, <1>3


(* Only the end of an answer finds the stream freed. *)
LEMMA NotFreed ==
  ASSUME fault = "none", ClientNext \/ LibuvNext
  PROVE  fault' # "freed"
<1>1. ASSUME UNCHANGED stackVars PROVE fault' # "freed"
  BY <1>1 DEF stackVars
<1>2. ASSUME NEW r, NEW frame, NEW stack, Answer(r, frame, stack) PROVE fault' # "freed"
  BY <1>2 DEF Answer
<1>3. ASSUME NEW w, NEW b, NEW q, NEW a, NEW stack, Processing(w, b, q, a, stack)
      PROVE  fault' # "freed"
  BY <1>2, <1>3 DEF Processing
<1>4. CASE ClientNext
  <2>1. ASSUME NEW r \in Req, NEW w \in Wrap, Accept(r, w) \/ Read(r, w) PROVE fault' # "freed"
    BY <1>3, <2>1 DEF Accept, Read
  <2>2. ASSUME NEW r \in Req, NEW w \in Wrap, Write(r, w) \/ Stdio(r, w) PROVE fault' # "freed"
    BY <1>1, <2>2 DEF Write, Stdio
  <2>3. ASSUME NEW r \in Req, NEW w \in Wrap, NEW h \in Handle, Bind(r, w, h) \/ Connect(r, w, h)
        PROVE  fault' # "freed"
    BY <1>1, <2>3 DEF Bind, Connect
  <2>4. ASSUME NEW r \in Req, NEW h \in Handle, Spawn(r, h) PROVE fault' # "freed"
    BY <1>1, <2>4 DEF Spawn
  <2>5. ASSUME NEW r \in Req, AtOnce(r) \/ FsRequest(r) PROVE fault' # "freed"
    BY <1>1, <2>5 DEF AtOnce, FsRequest
  <2>6. ASSUME NEW w \in Wrap, FreeRef(w) PROVE fault' # "freed"
    BY <1>1, <2>6 DEF FreeRef
  <2>7. CASE FreeProc
    BY <1>1, <2>7 DEF FreeProc
  <2>8. QED
    BY <1>4, <2>1, <2>2, <2>3, <2>4, <2>5, <2>6, <2>7 DEF ClientNext
<1>5. CASE LibuvNext
  <2>1. ASSUME NEW r \in Req, FsCb(r) \/ WriteCb(r) PROVE fault' # "freed"
    BY <1>1, <2>1 DEF FsCb, WriteCb
  <2>2. ASSUME NEW r \in Req, NEW w \in Wrap, ConnectCb(r, w) PROVE fault' # "freed"
    BY <1>1, <2>2 DEF ConnectCb
  <2>3. ASSUME NEW w \in Wrap, ConnectionError(w) PROVE fault' # "freed"
    BY <1>3, <2>3 DEF ConnectionError
  <2>4. ASSUME NEW w \in Wrap, NEW new \in Wrap, NEW h \in Handle, Connection(w, new, h)
        PROVE  fault' # "freed"
    <3>1. PushConn(w, new)
      BY <2>4 DEF Connection
    <3>2. QED
      BY <1>1, <1>2, <3>1 DEF PushConn
  <2>5. ASSUME NEW h \in Handle, CloseCb(h) \/ ReadEnds(h) PROVE fault' # "freed"
    BY <1>1, <2>5 DEF CloseCb, ReadEnds
  <2>6. ASSUME NEW h \in Handle, Arrives(h) PROVE fault' # "freed"
    <3>1. UNCHANGED stackVars \/ PushData(data[h], Len(arrived[data[h]]) + 1)
      BY <2>6 DEF Arrives
    <3>2. QED
      BY <1>1, <1>3, <3>1 DEF PushData
  <2>7. CASE ProcExit
    BY <1>1, <2>7 DEF ProcExit
  <2>8. QED
    BY <1>5, <2>1, <2>2, <2>3, <2>4, <2>5, <2>6, <2>7 DEF LibuvNext
<1>6. QED
  BY <1>4, <1>5

LEMMA MemNext ==
  ASSUME TypeOK, MemInv, fault' # "freed", ClientNext \/ LibuvNext
  PROVE  MemInv'
<1>a. FreedUse /\ Owned /\ PointsBack /\ Connects /\ Process
  BY DEF MemInv
<1>b. ASSUME UNCHANGED <<wrapVars, handleVars, procVars>> PROVE Owned' /\ PointsBack' /\ Process'
  <2>1. UNCHANGED <<wrap, stream, closeOnDestruct, held, handle, data, role, stdio, proc, child>>
    BY <1>b DEF wrapVars, handleVars, procVars
  <2>2. QED
    BY <1>a, <2>1 DEF Owned, PointsBack, Process
<1>c. ASSUME NEW rs, Finish(rs), UNCHANGED handleVars PROVE Connects'
  BY <1>a, <1>c, FinishConnects, ConnectsKept DEF handleVars
<1>d. ASSUME UNCHANGED <<reqVars, handle, role>> PROVE Connects'
  BY <1>a, <1>d DEF Connects, reqVars
<1>f. FreedUse' <=> touched' \subseteq {"stdio"}
  BY DEF FreedUse
<1>e. ASSUME UNCHANGED touched PROVE FreedUse'
  BY <1>a, <1>e DEF FreedUse
<1>2. ASSUME NEW r \in Req, AtOnce(r) \/ FsRequest(r) \/ FsCb(r) \/ WriteCb(r)
      PROVE  MemInv'
  <2>1. UNCHANGED <<wrapVars, handleVars, procVars, touched>> /\ UNCHANGED <<handle, role>>
    BY <1>2 DEF AtOnce, FsRequest, FsCb, WriteCb, handleVars
  <2>2. Finish({r}) \/ Await(r, "fs", Nil)
    BY <1>2 DEF AtOnce, FsRequest, FsCb, WriteCb
  <2>3. Connects'
    BY <1>a, <1>c, <2>1, <2>2, AwaitConnects DEF Maybe
  <2>4. QED
    BY <1>b, <1>e, <2>1, <2>3 DEF MemInv
<1>3. ASSUME UNCHANGED <<wrapVars, handleVars, procVars, doing, target, touched>> PROVE MemInv'
  <2>1. UNCHANGED <<handle, role, wrapVars, handleVars, procVars, doing, target, touched>>
    BY <1>3 DEF handleVars
  <2>2. Connects'
    BY <1>a, <2>1 DEF Connects
  <2>3. QED
    BY <1>b, <1>e, <2>1, <2>2 DEF MemInv
<1>4. ASSUME NEW r \in Req, NEW w \in Wrap, Write(r, w) PROVE MemInv'
  <2>1. UNCHANGED <<wrapVars, handleVars, procVars>> /\ UNCHANGED <<handle, role>> /\ w \in held
    BY <1>4 DEF Write, handleVars
  <2>2. wrap[w] = "live" /\ stream[w] \in Handle
    BY <1>a, <2>1 DEF Owned
  <2>3. Connects'
    <3>1. stream[w] \in Maybe(Handle)
      BY <2>2 DEF Maybe
    <3>2. CASE Finish({r})
      BY <1>c, <2>1, <3>2
    <3>3. CASE Await(r, "write", stream[w]) \/ Await(r, "lost", stream[w])
      BY <1>a, <2>1, <3>1, <3>3, AwaitConnects
    <3>4. QED
      BY <1>4, <3>2, <3>3 DEF Write
  <2>4. FreedUse'
    <3>1. CASE handle[stream[w]] = "freed"
      <4>1. ~closeOnDestruct[w]
        BY <1>a, <2>2, <3>1 DEF Owned
      <4>2. touched' = touched \cup {"stdio"}
        BY <1>4, <3>1, <4>1 DEF Write, Touch
      <4>3. QED
        BY <1>a, <1>f, <4>2 DEF FreedUse
    <3>2. CASE handle[stream[w]] # "freed"
      BY <1>4, <1>e, <3>2 DEF Write
    <3>3. QED
      BY <3>1, <3>2
  <2>5. QED
    BY <1>b, <2>1, <2>3, <2>4 DEF MemInv
<1>5. ASSUME NEW r \in Req, NEW w \in Wrap, ConnectCb(r, w) PROVE MemInv'
  <2>1. PICK h \in Handle : h = target[r]
    BY <1>5 DEF ConnectCb, TypeOK, ReqTypes
  <2>2. /\ doing[r] = "connect" /\ stream[w] = h /\ handle[h] = "open" /\ role[h] = "connecting"
        /\ Finish({r}) /\ UNCHANGED <<stream, closeOnDestruct, procVars, touched>>
    BY <1>5, <1>a, <2>1 DEF ConnectCb, Connects
  <2>3. closeOnDestruct[w]
    BY <1>a, <2>1, <2>2, UvRpcAssumption DEF Owned, Process
  <2>4. wrap[w] = "live"
    BY <1>a, <2>2, <2>3 DEF Owned, TypeOK, WrapTypes
  <2>5. /\ target' = target
        /\ \A s \in Req : doing'[s] = "connect" => doing[s] = "connect" /\ s # r /\ target[s] # h
    <3>1. /\ target' = target
          /\ \A s \in Req : doing'[s] = "connect" => doing[s] = "connect" /\ s \notin {r}
      BY <2>2, FinishConnects
    <3>2. QED
      BY <1>a, <2>1, <2>2, <3>1 DEF Connects
  <2>6. CASE Destruct(w) /\ UNCHANGED role
    <3>1. Owned' /\ PointsBack' /\ Process' /\ \A g \in Handle : handle[g] # "none" => handle'[g] # "none"
      BY <1>a, <2>2, <2>4, <2>6, DestructOwned
    <3>2. Connects'
      BY <1>a, <2>5, <2>6, <3>1, ConnectsKept
    <3>3. QED
      BY <1>e, <2>2, <3>1, <3>2 DEF MemInv
  <2>7. CASE /\ held' = held \cup {w}
             /\ role' = [role EXCEPT ![target[r]] = "peer"]
             /\ data' = [data EXCEPT ![target[r]] = w]
             /\ UNCHANGED <<wrap, handle>>
    <3>1. /\ data'[h] = w /\ role'[h] = "peer"
          /\ \A g \in Handle : g # h => data'[g] = data[g] /\ role'[g] = role[g]
      BY <2>1, <2>7 DEF TypeOK, HandleTypes
    <3>2. UNCHANGED <<stdio, proc, child>>
      BY <2>2 DEF procVars
    <3>3. Owned'
      BY <1>a, <2>2, <2>4, <2>7, <3>2 DEF Owned
    <3>4. PointsBack'
      BY <1>a, <2>2, <2>4, <2>7, <3>1 DEF PointsBack
    <3>5. Connects'
      <4>1. \A s \in Req : doing'[s] = "connect" => target[s] \in Handle
        BY <1>a, <2>5 DEF Connects
      <4>2. \A s \in Req : doing'[s] = "connect" => role'[target[s]] = role[target[s]]
        BY <2>5, <3>1, <4>1
      <4>3. QED
        BY <1>a, <2>5, <2>7, <4>2, ConnectsKept
    <3>6. Process'
      <4>1. stdio # h
        BY <1>a, <2>1, <2>2, UvRpcAssumption DEF Process
      <4>2. stdio # Nil => stdio \in Handle
        BY DEF TypeOK, ProcTypes, Maybe
      <4>3. QED
        BY <1>a, <2>7, <3>1, <3>2, <4>1, <4>2 DEF Process
    <3>7. QED
      BY <1>e, <2>2, <3>3, <3>4, <3>5, <3>6 DEF MemInv
  <2>8. QED
    BY <1>5, <2>6, <2>7 DEF ConnectCb
<1>6. ASSUME NEW r \in Req, NEW w \in Wrap, Stdio(r, w) PROVE MemInv'
  <2>1. PICK h \in Handle : h = stdio
    BY <1>6 DEF Stdio, TypeOK, ProcTypes
  <2>2. /\ wrap[w] = "none" /\ wrap'[w] = "live" /\ stream'[w] = h /\ held' = held \cup {w}
        /\ \A v \in Wrap : v # w => wrap'[v] = wrap[v] /\ stream'[v] = stream[v]
        /\ data'[h] = w /\ \A g \in Handle : g # h => data'[g] = data[g]
        /\ UNCHANGED <<closeOnDestruct, handle, role, procVars, touched>> /\ Finish({r})
    BY <1>6, <2>1 DEF Stdio, TypeOK, WrapTypes, HandleTypes
  <2>3. UNCHANGED <<stdio, proc, child>> /\ ~closeOnDestruct[w]
    BY <1>a, <2>2 DEF procVars, Owned
  <2>4. Owned'
    BY <1>a, <2>1, <2>2, <2>3 DEF Owned
  <2>5. PointsBack'
    <3>1. \A g \in Handle : data[g] # Nil => data[g] \in Wrap /\ data[g] # w
      BY <1>a, <2>2 DEF PointsBack, TypeOK, HandleTypes, Maybe
    <3>2. QED
      BY <1>a, <2>2, <2>3, <3>1 DEF PointsBack
  <2>6. Connects'
    BY <1>a, <2>2, FinishConnects, ConnectsKept
  <2>7. Process'
    BY <1>a, <2>2, <2>3 DEF Process
  <2>8. QED
    BY <1>e, <2>2, <2>4, <2>5, <2>6, <2>7 DEF MemInv
<1>7. ASSUME NEW r \in Req, NEW w \in Wrap, NEW h \in Handle, Bind(r, w, h) PROVE MemInv'
  <2>1. UNCHANGED <<stdio, proc, child, touched>> /\ Finish({r})
    BY <1>7 DEF Bind, procVars
  <2>2. CASE NewWrap(w, h, "listener", w) /\ held' = held \cup {w}
    <3>1. Owned' /\ PointsBack'
      BY <1>a, <2>1, <2>2, NewWrapOwned, NewWrapPoints
    <3>2. /\ handle[h] = "none" /\ handle'[h] = "open"
          /\ \A g \in Handle : g # h => handle'[g] = handle[g] /\ role'[g] = role[g]
      BY <2>2 DEF NewWrap, TypeOK, HandleTypes
    <3>3. Connects'
      BY <1>a, <2>1, <3>2, FinishConnects DEF Connects
    <3>4. Process'
      BY <1>a, <2>1, <3>2 DEF Process, TypeOK, ProcTypes, Maybe
    <3>5. QED
      BY <1>e, <2>1, <3>1, <3>3, <3>4 DEF MemInv
  <2>3. CASE /\ wrap[w] = "none" /\ handle[h] = "none"
             /\ wrap' = [wrap EXCEPT ![w] = "freed"]
             /\ stream' = [stream EXCEPT ![w] = h]
             /\ closeOnDestruct' = [closeOnDestruct EXCEPT ![w] = TRUE]
             /\ handle' = [handle EXCEPT ![h] = "closing"]
             /\ UNCHANGED <<held, data, role>>
    <3>1. /\ \A v \in Wrap : v # w => /\ wrap'[v] = wrap[v] /\ stream'[v] = stream[v]
                                      /\ closeOnDestruct'[v] = closeOnDestruct[v]
          /\ wrap'[w] = "freed" /\ stream'[w] = h /\ closeOnDestruct'[w] = TRUE
          /\ handle'[h] = "closing" /\ \A g \in Handle : g # h => handle'[g] = handle[g]
      BY <2>3 DEF TypeOK, WrapTypes, HandleTypes
    <3>2. h # stdio /\ w \notin held
      BY <1>a, <2>3, UvRpcAssumption DEF Process, Owned
    <3>3. \A v \in Wrap : closeOnDestruct[v] => v # w /\ stream[v] # h /\ stream[v] \in Handle
      BY <1>a, <2>3 DEF Owned, TypeOK, WrapTypes
    <3>4. Owned'
      <4>1. ASSUME NEW v \in Wrap
            PROVE  /\ wrap'[v] = "none" => ~closeOnDestruct'[v] /\ v \notin held /\ stream'[v] = Nil
                   /\ wrap'[v] # "none" => stream'[v] \in Handle
                   /\ wrap'[v] # "none" /\ ~closeOnDestruct'[v] => stream'[v] = stdio'
                   /\ closeOnDestruct'[v] =>
                        /\ stream'[v] # stdio' /\ handle'[stream'[v]] # "none"
                        /\ wrap'[v] = "live" => handle'[stream'[v]] = "open"
                        /\ wrap'[v] = "freed" => handle'[stream'[v]] \in {"closing", "freed"}
                   /\ v \in held => wrap'[v] = "live"
        <5>1. CASE v = w
          BY <2>1, <3>1, <3>2, <5>1
        <5>2. CASE v # w
          BY <1>a, <2>1, <3>1, <3>3, <5>2 DEF Owned
        <5>3. QED
          BY <5>1, <5>2
      <4>2. ASSUME NEW u \in Wrap, NEW v \in Wrap, closeOnDestruct'[u], closeOnDestruct'[v],
                   stream'[u] = stream'[v]
            PROVE  u = v
        BY <1>a, <3>1, <3>3, <4>2 DEF Owned
      <4>3. held' = held
        BY <2>3
      <4>4. QED
        BY <4>1, <4>2, <4>3 DEF Owned
    <3>5. PointsBack'
      <4>1. \A g \in Handle : data[g] # Nil => data[g] \in Wrap /\ data[g] # w
        BY <1>a, <2>3 DEF PointsBack, TypeOK, HandleTypes, Maybe
      <4>2. QED
        BY <1>a, <2>3, <3>1, <4>1 DEF PointsBack
    <3>6. Connects'
      BY <1>a, <2>1, <2>3, <3>1, FinishConnects, ConnectsKept
    <3>7. Process'
      BY <1>a, <2>1, <2>3, <3>1, <3>2 DEF Process, TypeOK, ProcTypes, Maybe
    <3>8. QED
      BY <1>e, <2>1, <3>4, <3>5, <3>6, <3>7 DEF MemInv
  <2>4. QED
    BY <1>7, <2>2, <2>3 DEF Bind
<1>8. ASSUME NEW r \in Req, NEW w \in Wrap, NEW h \in Handle, Connect(r, w, h) PROVE MemInv'
  <2>1. UNCHANGED <<stdio, proc, child, touched, held>> /\ NewWrap(w, h, "connecting", Nil)
    BY <1>8 DEF Connect, procVars
  <2>2. Owned' /\ PointsBack'
    BY <1>a, <2>1, NewWrapOwned, NewWrapPoints
  <2>3. /\ handle[h] = "none" /\ handle'[h] = "open" /\ role'[h] = "connecting"
        /\ \A g \in Handle : g # h => handle'[g] = handle[g] /\ role'[g] = role[g]
    BY <2>1 DEF NewWrap, TypeOK, HandleTypes
  <2>4. PICK what \in {"connect", "lost"} : Await(r, what, h)
    BY <1>8 DEF Connect
  <2>5. /\ target'[r] = h /\ \A s \in Req : s # r => target'[s] = target[s] /\ doing'[s] = doing[s]
    BY <2>4 DEF Await, TypeOK, ReqTypes
  <2>6. \A s \in Req : s # r /\ doing'[s] = "connect" =>
           /\ target[s] \in Handle /\ target[s] # h
           /\ handle[target[s]] # "none" /\ role[target[s]] = "connecting"
    BY <1>a, <2>3, <2>5 DEF Connects
  <2>7. Connects'
    <3>1. ASSUME NEW s \in Req, doing'[s] = "connect"
          PROVE  target'[s] \in Handle /\ handle'[target'[s]] # "none" /\ role'[target'[s]] = "connecting"
      BY <2>3, <2>5, <2>6, <3>1
    <3>2. ASSUME NEW s \in Req, NEW t \in Req, doing'[s] = "connect", doing'[t] = "connect",
                 target'[s] = target'[t]
          PROVE  s = t
      BY <1>a, <2>5, <2>6, <3>2 DEF Connects
    <3>3. QED
      BY <3>1, <3>2 DEF Connects
  <2>8. Process'
    BY <1>a, <2>1, <2>3 DEF Process, TypeOK, ProcTypes, Maybe
  <2>9. QED
    BY <1>e, <2>1, <2>2, <2>7, <2>8 DEF MemInv
<1>9. ASSUME NEW r \in Req, NEW h \in Handle, Spawn(r, h) PROVE MemInv'
  <2>1. /\ UNCHANGED <<wrap, stream, closeOnDestruct, held, data, touched>> /\ Finish({r})
        /\ proc = "none" /\ handle[h] = "none" /\ role'[h] = "peer" /\ handle'[h] \in {"open", "closing"}
        /\ \A g \in Handle : g # h => handle'[g] = handle[g] /\ role'[g] = role[g]
    BY <1>9 DEF Spawn, wrapVars, TypeOK, HandleTypes
  <2>2. \/ proc' = "live" /\ stdio' = h /\ child' = "running"
        \/ UNCHANGED <<proc, stdio, child>>
    BY <1>9 DEF Spawn, procVars
  <2>3. stdio = Nil
    BY <1>a, <2>1 DEF Process
  <2>4. Nil \notin Handle
    BY UvRpcAssumption
  <2>5. Owned'
    <3>1. \A v \in Wrap : closeOnDestruct[v] => stream[v] # h /\ handle'[stream[v]] = handle[stream[v]]
      BY <1>a, <2>1 DEF Owned, TypeOK, WrapTypes
    <3>2. \A v \in Wrap : wrap[v] # "none" => closeOnDestruct[v] /\ stream[v] \in Handle
      BY <1>a, <2>3, <2>4 DEF Owned
    <3>3. \A v \in Wrap : closeOnDestruct[v] => wrap[v] # "none"
      BY <1>a DEF Owned
    <3>4. QED
      BY <1>a, <2>1, <2>2, <2>3, <2>4, <3>1, <3>2, <3>3 DEF Owned
  <2>6. PointsBack'
    BY <1>a, <2>1 DEF PointsBack
  <2>7. Connects'
    BY <1>a, <2>1, FinishConnects DEF Connects
  <2>8. Process'
    BY <1>a, <2>1, <2>2, <2>3, <2>4 DEF Process
  <2>9. QED
    BY <1>e, <2>1, <2>5, <2>6, <2>7, <2>8 DEF MemInv
<1>10. ASSUME NEW w \in Wrap, FreeRef(w) PROVE MemInv'
  <2>1. /\ Destruct(w) /\ UNCHANGED <<stream, closeOnDestruct, role, procVars>>
        /\ UNCHANGED <<reqVars, touched>> /\ w \in held
    BY <1>10 DEF FreeRef
  <2>2. wrap[w] = "live"
    BY <1>a, <2>1 DEF Owned
  <2>3. Owned' /\ PointsBack' /\ Process' /\ \A g \in Handle : handle[g] # "none" => handle'[g] # "none"
    BY <1>a, <2>1, <2>2, DestructOwned
  <2>4. Connects'
    BY <1>a, <2>1, <2>3, ConnectsKept DEF reqVars
  <2>5. QED
    BY <1>e, <2>1, <2>3, <2>4 DEF MemInv
<1>11. ASSUME \/ \E w \in Wrap : ConnectionError(w)
               \/ \E r \in Req, v \in Wrap : Accept(r, v) \/ Read(r, v)
       PROVE  MemInv'
  <2>1. UNCHANGED <<wrapVars, handleVars, procVars, doing, target, touched>>
    BY <1>11 DEF ConnectionError, Accept, Read
  <2>2. QED
    BY <1>3, <2>1
<1>12. ASSUME NEW w \in Wrap, NEW new \in Wrap, NEW h \in Handle, Connection(w, new, h) PROVE MemInv'
  <2>1. /\ NewWrap(new, h, "peer", new) /\ UNCHANGED <<stdio, proc, child, touched>>
        /\ held' \in {held, held \cup {new}}
    BY <1>12 DEF Connection, PushConn, procVars
  <2>2. Owned' /\ PointsBack'
    BY <1>a, <2>1, NewWrapOwned, NewWrapPoints
  <2>3. /\ handle[h] = "none" /\ handle'[h] = "open"
        /\ \A g \in Handle : g # h => handle'[g] = handle[g] /\ role'[g] = role[g]
    BY <2>1 DEF NewWrap, TypeOK, HandleTypes
  <2>4. UNCHANGED <<doing, target>>
    BY <1>12 DEF Connection
  <2>5. Connects'
    BY <1>a, <2>3, <2>4 DEF Connects
  <2>6. Process'
    BY <1>a, <2>1, <2>3 DEF Process, TypeOK, ProcTypes, Maybe
  <2>7. QED
    BY <1>e, <2>1, <2>2, <2>5, <2>6 DEF MemInv
<1>13. ASSUME NEW h \in Handle, CloseCb(h) PROVE MemInv'
  <2>1. /\ UNCHANGED <<wrap, stream, closeOnDestruct, held, data, role, stdio, proc, child, touched>>
        /\ handle[h] = "closing" /\ handle'[h] = "freed"
        /\ \A g \in Handle : g # h => handle'[g] = handle[g]
    BY <1>13 DEF CloseCb, wrapVars, procVars, TypeOK, HandleTypes
  <2>2. Finish({r \in Req : doing[r] \in {"write", "connect"} /\ target[r] = h})
    BY <1>13 DEF CloseCb
  <2>3. Owned'
    <3>1. \A v \in Wrap : closeOnDestruct[v] => stream[v] \in Handle
      BY <1>a DEF Owned
    <3>2. \A v \in Wrap : closeOnDestruct[v] /\ wrap[v] = "live" => stream[v] # h
      BY <1>a, <2>1 DEF Owned
    <3>3. QED
      BY <1>a, <2>1, <3>1, <3>2 DEF Owned
  <2>4. PointsBack'
    BY <1>a, <2>1 DEF PointsBack
  <2>5. target' = target /\ \A r \in Req : doing'[r] = "connect" => doing[r] = "connect"
    BY <2>2, FinishConnects
  <2>6. Connects'
    BY <1>a, <2>1, <2>5, ConnectsKept
  <2>7. Process'
    BY <1>a, <2>1 DEF Process, TypeOK, ProcTypes, Maybe
  <2>8. QED
    BY <1>e, <2>1, <2>3, <2>4, <2>6, <2>7 DEF MemInv
<1>14. ASSUME NEW h \in Handle, Arrives(h) \/ ReadEnds(h) PROVE MemInv'
  <2>1. UNCHANGED <<wrap, stream, closeOnDestruct, held, handle, data, role, stdio, proc, child, doing, target>>
    BY <1>14 DEF Arrives, ReadEnds, wrapVars, handleVars, procVars, reqVars
  <2>2. Owned' /\ PointsBack' /\ Connects' /\ Process'
    BY <1>a, <2>1 DEF Owned, PointsBack, Connects, Process
  <2>3. CASE data[h] # Nil /\ wrap[data[h]] = "freed"
    <3>1. data[h] \in Wrap
      BY <2>3 DEF TypeOK, HandleTypes, Maybe
    <3>2. ~closeOnDestruct[data[h]]
      BY <1>a, <2>3, <3>1 DEF PointsBack
    <3>3. touched' = touched \cup {"stdio"}
      BY <1>14, <2>3, <3>2 DEF Arrives, ReadEnds, Touch
    <3>4. FreedUse'
      BY <1>a, <1>f, <3>3 DEF FreedUse
    <3>5. QED
      BY <2>2, <3>4 DEF MemInv
  <2>4. CASE ~(data[h] # Nil /\ wrap[data[h]] = "freed")
    <3>1. UNCHANGED touched
      BY <1>14, <2>4 DEF Arrives, ReadEnds
    <3>2. QED
      BY <1>e, <2>2, <3>1 DEF MemInv
  <2>5. QED
    BY <2>3, <2>4
<1>15. CASE FreeProc
  <2>1. PICK h \in Handle : h = stdio
    BY <1>15 DEF FreeProc, TypeOK, ProcTypes
  <2>2. /\ UNCHANGED <<wrap, stream, closeOnDestruct, held, role, stdio, touched, reqVars>>
        /\ proc' = "freed" /\ proc = "live" /\ child' # "running"
        /\ handle'[h] = "closing" /\ data'[h] = Nil
        /\ \A g \in Handle : g # h => handle'[g] = handle[g] /\ data'[g] = data[g]
    BY <1>15, <2>1 DEF FreeProc, wrapVars, TypeOK, HandleTypes, ProcTypes
  <2>3. Owned'
    <3>1. \A v \in Wrap : closeOnDestruct[v] => stream[v] \in Handle /\ stream[v] # h
      BY <1>a, <2>1 DEF Owned
    <3>2. QED
      BY <1>a, <2>2, <3>1 DEF Owned
  <2>4. PointsBack'
    BY <1>a, <2>2 DEF PointsBack
  <2>5. Connects'
    BY <1>a, <2>2, ConnectsKept DEF reqVars
  <2>6. Process'
    BY <1>a, <2>1, <2>2 DEF Process
  <2>7. QED
    BY <1>e, <2>2, <2>3, <2>4, <2>5, <2>6 DEF MemInv
<1>16. CASE ProcExit
  <2>1. /\ UNCHANGED <<wrapVars, handleVars, proc, stdio, reqVars>> /\ child' = "exited"
        /\ UNCHANGED <<wrap, stream, closeOnDestruct, held, handle, data, role>>
    BY <1>16 DEF ProcExit, wrapVars, handleVars
  <2>2. UNCHANGED touched
    BY <1>16, <1>a DEF ProcExit, Process
  <2>3. Owned' /\ PointsBack' /\ Process'
    BY <1>a, <2>1 DEF Owned, PointsBack, Process
  <2>4. QED
    BY <1>d, <1>e, <2>1, <2>2, <2>3 DEF MemInv
<1>17. CASE ClientNext
  BY <1>2, <1>4, <1>6, <1>7, <1>8, <1>9, <1>10, <1>11, <1>15, <1>17 DEF ClientNext
<1>18. CASE LibuvNext
  BY <1>2, <1>5, <1>11, <1>12, <1>13, <1>14, <1>16, <1>18 DEF LibuvNext
<1>19. QED
  BY <1>17, <1>18

(* The memory and the requests are what they were. *)
LEMMA MemKept ==
  ASSUME MemInv, UNCHANGED <<wrapVars, handleVars, procVars, doing, target, touched>>,
         fault' = "freed" => resolving' # <<>> /\ wrap[Last(resolving').w] = "freed"
  PROVE  MemInv'
<1>1. UNCHANGED <<wrap, stream, closeOnDestruct, held, handle, data, role, stdio, proc, child>>
  BY DEF wrapVars, handleVars, procVars
<1>2. FreedUse'
  BY <1>1 DEF MemInv, FreedUse
<1>3. Owned' /\ PointsBack' /\ Process' /\ Connects'
  BY <1>1 DEF MemInv, Owned, PointsBack, Process, Connects
<1>4. QED
  BY <1>2, <1>3 DEF MemInv

LEMMA MemInvStep ==
  ASSUME TypeOK, MemInv, [Next]_vars
  PROVE  MemInv'
<1>1. CASE UNCHANGED vars
  <2>1. UNCHANGED <<wrapVars, handleVars, procVars, doing, target, touched, resolving, fault, wrap>>
    BY <1>1 DEF vars, reqVars, stackVars, wrapVars
  <2>2. fault' = "freed" => resolving' # <<>> /\ wrap[Last(resolving').w] = "freed"
    BY <2>1 DEF MemInv, FreedUse
  <2>3. QED
    BY <2>1, <2>2, MemKept
<1>2. CASE fault = "none" /\ Resolved
  <2>1. /\ UNCHANGED <<wrapVars, handleVars, procVars, doing, target, touched>> /\ resolving # <<>>
    BY <1>2 DEF Resolved
  <2>2. CASE wrap[Last(resolving).w] = "freed"
    <3>1. resolving' = resolving
      BY <1>2, <2>2 DEF Resolved
    <3>2. QED
      BY <2>1, <2>2, <3>1, MemKept
  <2>3. CASE wrap[Last(resolving).w] # "freed"
    <3>1. ASSUME NEW w, NEW b, NEW q, NEW a, NEW stack, Processing(w, b, q, a, stack)
          PROVE  fault' # "freed"
      BY <1>2, <3>1 DEF Processing, Answer
    <3>2. fault' # "freed"
      BY <1>2, <2>3, <3>1 DEF Resolved
    <3>3. QED
      BY <2>1, <3>2, MemKept
  <2>4. QED
    BY <2>2, <2>3
<1>3. CASE fault = "none" /\ (ClientNext \/ LibuvNext)
  BY <1>3, NotFreed, MemNext
<1>4. QED
  BY <1>1, <1>2, <1>3 DEF Next

-----------------------------------------------------------------------------
IInv == TypeOK /\ AnswerInv /\ MemInv

LEMMA InitInv == Init => IInv
<1> SUFFICES ASSUME Init PROVE IInv
  OBVIOUS
<1>1. TypeOK
  <2>1. <<>> \in Seq(Nat) /\ <<>> \in Seq(Req) /\ <<>> \in Seq(Frames)
    BY EmptySeq
  <2>2. BufTypes
    BY <2>1 DEF Init, BufTypes
  <2>3. WrapTypes /\ HandleTypes /\ ProcTypes /\ ReqTypes /\ StackTypes /\ used \subseteq Req
    BY <2>1 DEF Init, WrapTypes, HandleTypes, ProcTypes, ReqTypes, StackTypes, Wait, Maybe
  <2>4. QED
    BY <2>2, <2>3 DEF TypeOK
<1>2. AnswerInv
  <2>1. ToSet(<<>>) = {} /\ NoRepeat(<<>>) /\ Len(<<>>) = 0 /\ DOMAIN <<>> = {}
    BY DEF ToSet, NoRepeat
  <2>2. /\ \A w \in Wrap : /\ readWaiting[w] = <<>> /\ acceptWaiting[w] = <<>>
                           /\ readBuf[w] = <<>> /\ given[w] = <<>> /\ arrived[w] = <<>>
                           /\ ~errcode[w] /\ ~discarded[w]
        /\ \A r \in Req : doing[r] = "none" /\ answers[r] = 0
        /\ resolving = <<>> /\ fault = "none"
    BY DEF Init
  <2>3. \A r \in Req : ~Queued(r)
    BY <2>1, <2>2 DEF Queued
  <2>4. QueuesExact /\ Counted
    BY <2>1, <2>2, <2>3 DEF QueuesExact, Counted
  <2>5. StreamsFit
    BY <2>1, <2>2 DEF StreamsFit, Stacked, Told, Behind, On
  <2>6. \A w \in Wrap : Ahead(w) = <<>> /\ given[w] \o Ahead(w) = <<>>
    <3>1. <<>> \o <<>> = <<>>
      OBVIOUS
    <3>2. QED
      BY <2>1, <2>2, <3>1 DEF Ahead
  <2>7. \A w \in Wrap : InStream(w)
    <3>1. \A w \in Wrap : Stream(w) = <<>> /\ arrived[w] = <<>> /\ ~discarded[w]
      BY <2>2, <2>6 DEF Stream
    <3>2. InBytes(<<>>, <<>>, FALSE)
      BY <2>1 DEF InBytes
    <3>3. \A w \in Wrap : discarded[w] = FALSE
      BY DEF Init
    <3>4. QED
      BY <3>1, <3>2, <3>3 DEF InStream
  <2>8. AnsweredOnce
    BY <2>2, <2>3 DEF AnsweredOnce
  <2>9. ReadsExact
    BY <2>2, <2>6 DEF ReadsExact
  <2>10. QED
    BY <2>4, <2>5, <2>7, <2>8, <2>9 DEF AnswerInv, Sound
<1>3. MemInv
  BY DEF Init, MemInv, FreedUse, Owned, PointsBack, Connects, Process
<1>4. QED
  BY <1>1, <1>2, <1>3 DEF IInv

LEMMA SpecInv == Spec => []IInv
<1>1. ASSUME IInv, [Next]_vars PROVE IInv'
  <2>1. TypeOK /\ AnswerInv /\ MemInv
    BY <1>1 DEF IInv
  <2>2. TypeOK'
    BY <1>1, <2>1, TypeStep
  <2>3. AnswerInv' /\ MemInv'
    BY <1>1, <2>1, <2>2, AnswerInvStep, MemInvStep
  <2>4. QED
    BY <2>2, <2>3 DEF IInv
<1>2. QED
  BY <1>1, InitInv, PTL DEF Spec

(* A request is answered once, whatever answers it - data, an error of the *)
(* listener, the end of a write, the close of the handle -, unless a       *)
(* request joins the queue of a stream inside the stream's own answer:     *)
(* then the one answered twice is the one that answer was for.             *)
THEOREM UvRpcAnsweredOnce == Spec => []AnsweredOnce
<1>1. IInv => AnsweredOnce
  BY DEF IInv, AnswerInv
<1>2. QED
  BY <1>1, SpecInv, PTL

(* Until a request is answered again, readers get the bytes of the stream  *)
(* in order, none twice, and below the limit all of them; who waits beside *)
(* bytes or an error waits behind the one that is being told.              *)
THEOREM UvRpcReadsExact == Spec => []ReadsExact
<1>1. IInv => ReadsExact
  BY DEF IInv, AnswerInv
<1>2. QED
  BY <1>1, SpecInv, PTL

(* In whatever order clients free their references, the memory of a wrap,  *)
(* a handle or a process that was given back is not used, except through   *)
(* the wraps getStdio hands out and by the answer of a stream that is      *)
(* freed inside it.                                                        *)
THEOREM UvRpcFreedUse == Spec => []FreedUse
<1>1. IInv => FreedUse
  BY DEF IInv, MemInv
<1>2. QED
  BY <1>1, SpecInv, PTL

=============================================================================
