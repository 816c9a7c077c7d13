--------------------------- MODULE PxpServerProofs ---------------------------
(***************************************************************************)
(* Proofs about PxpServer for any set of requests, sessions and functions, *)
(* any pool and both kinds of io.                                          *)
(***************************************************************************)
EXTENDS PxpServer, FiniteSetTheorems, SequenceTheorems, TLAPS

-----------------------------------------------------------------------------
(* The stack. *)

LEMMA PushType ==
  ASSUME NEW T, NEW s \in Seq(T), NEW f \in T
  PROVE  /\ <<f>> \o s \in Seq(T)
         /\ Len(<<f>> \o s) = Len(s) + 1
         /\ (<<f>> \o s)[1] = f
         /\ \A k \in 1 .. Len(s) : (<<f>> \o s)[k + 1] = s[k]
OBVIOUS

LEMMA PushTwoType ==
  ASSUME NEW T, NEW s \in Seq(T), NEW f \in T, NEW g \in T
  PROVE  /\ <<f, g>> \o s \in Seq(T)
         /\ Len(<<f, g>> \o s) = Len(s) + 2
         /\ (<<f, g>> \o s)[1] = f /\ (<<f, g>> \o s)[2] = g
         /\ \A k \in 1 .. Len(s) : (<<f, g>> \o s)[k + 2] = s[k]
OBVIOUS

LEMMA PushTwice ==
  ASSUME NEW T, NEW s \in Seq(T), NEW f \in T, NEW g \in T
  PROVE  <<f>> \o (<<g>> \o s) = <<f, g>> \o s
<1> DEFINE p == <<g>> \o s
           l == <<f>> \o p
           m == <<f, g>> \o s
<1>1. p \in Seq(T) /\ Len(p) = Len(s) + 1 /\ p[1] = g /\ \A k \in 1 .. Len(s) : p[k + 1] = s[k]
  BY PushType
<1>2. /\ m \in Seq(T) /\ Len(m) = Len(s) + 2 /\ m[1] = f /\ m[2] = g
      /\ \A k \in 1 .. Len(s) : m[k + 2] = s[k]
  BY PushTwoType
<1> HIDE DEF p, m
<1>3. l \in Seq(T) /\ Len(l) = Len(p) + 1 /\ l[1] = f /\ \A k \in 1 .. Len(p) : l[k + 1] = p[k]
  BY <1>1, PushType
<1> HIDE DEF l
<1>4. ASSUME NEW i \in 1 .. Len(l) PROVE l[i] = m[i]
  <2>1. CASE i = 1
    BY <2>1, <1>2, <1>3
  <2>2. CASE i = 2
    <3>1. l[1 + 1] = p[1]
      BY <1>1, <1>3
    <3>2. QED
      BY <2>2, <3>1, <1>1, <1>2
  <2>3. CASE i > 2
    <3>1. i - 2 \in 1 .. Len(s) /\ i - 1 \in 1 .. Len(p)
      BY <2>3, <1>1, <1>3
    <3>2. l[(i - 1) + 1] = p[i - 1] /\ p[(i - 2) + 1] = s[i - 2] /\ m[(i - 2) + 2] = s[i - 2]
      BY <3>1, <1>1, <1>2, <1>3
    <3>3. (i - 1) + 1 = i /\ (i - 2) + 1 = i - 1 /\ (i - 2) + 2 = i
      BY <3>1
    <3>4. QED
      BY <3>2, <3>3
  <2>4. QED
    BY <2>1, <2>2, <2>3
<1>5. Len(l) = Len(m)
  BY <1>1, <1>2, <1>3
<1>6. l = m
  BY <1>2, <1>3, <1>4, <1>5, SeqEqual
<1>7. QED
  BY <1>6 DEF l, m, p

LEMMA PopType ==
  ASSUME NEW T, NEW s \in Seq(T), s # <<>>
  PROVE  /\ Tail(s) \in Seq(T)
         /\ Len(Tail(s)) = Len(s) - 1
         /\ \A k \in 1 .. Len(s) - 1 : Tail(s)[k] = s[k + 1]
         /\ Len(s) \in Nat \ {0}
         /\ s[1] \in T
OBVIOUS

LEMMA FrameType ==
  /\ \A fn \in CtxFn : C(fn) \in Frame /\ C(fn).fn = fn
  /\ \A fn \in ReqFn, r \in Req : F(fn, r) \in Frame /\ F(fn, r).fn = fn
  /\ \A f \in Frame : f.fn \in ReqFn => f.req \in Req
BY DEF C, F, Frame, CtxFn, ReqFn, StepFn

LEMMA HandlerType == \A o \in Op : Handler(o) \in StepFn
BY DEF Op, Handler, StepFn

LEMMA StackType ==
  ASSUME TypeOK, [Next]_vars
  PROVE  stack' \in Seq(Frame)
<1>1. stack \in Seq(Frame) /\ sendQ \in Seq(Req) /\ next \in [Req -> StepFn]
  BY DEF TypeOK
<1>2. stack # <<>> => Pop \in Seq(Frame) /\ stack[1] \in Frame
  BY <1>1, PopType DEF Pop
<1>3. \A f \in Frame, q \in Seq(Frame) : <<f>> \o q \in Seq(Frame)
  BY PushType
<1>4. \A f, g \in Frame, q \in Seq(Frame) : <<f, g>> \o q \in Seq(Frame)
  BY PushTwoType
<1>5. \A q \in Seq(Frame) : <<>> \o q = q
  OBVIOUS
<1>6. \A fn \in CtxFn : C(fn) \in Frame
  BY FrameType
<1>7. \A fn \in ReqFn, r \in Req : F(fn, r) \in Frame
  BY FrameType
<1>8. StepFn \subseteq ReqFn
  BY DEF ReqFn
<1>9. sendQ # <<>> => F(next[sendQ[1]], sendQ[1]) \in Frame
  BY <1>1, <1>7, <1>8
<1>10. {"step1", "step2", "close", "closeRefs", "onClosed", "ioClose", "delete", "deleteTail",
        "foreign"} \subseteq CtxFn
  BY DEF CtxFn
<1>11. {"call2", "poll2", "poll3", "finish", "finishTail", "poll3Tail", "freeRef1", "freeSlot"}
         \subseteq ReqFn
  BY DEF ReqFn, StepFn
<1>12. <<>> \in Seq(Frame)
  OBVIOUS
<1> USE <1>1, <1>2, <1>3, <1>5, <1>6, <1>7, <1>10, <1>11
<1>20. CASE Step1
  BY <1>20 DEF Step1, At
<1>21. CASE Step2End
  BY <1>21 DEF Step2End, At
<1>22. CASE ServerClose
  <2>1. stack # <<>>
    BY <1>22 DEF ServerClose, At
  <2>2. stack' = Pop \/ stack' = <<C("foreign"), C("closeRefs")>> \o Pop
    BY <1>22 DEF ServerClose
  <2>3. C("foreign") \in Frame /\ C("closeRefs") \in Frame
    OBVIOUS
  <2>4. <<C("foreign"), C("closeRefs")>> \o Pop \in Seq(Frame)
    BY <2>1, <2>3, <1>2, <1>4, Zenon
  <2>5. QED
    BY <2>1, <2>2, <2>4, <1>2, Zenon
<1>38. CASE CloseRefs
  <2>1. stack # <<>> /\ stack' = <<C("ioClose"), C("onClosed")>> \o Pop
    BY <1>38 DEF CloseRefs, At
  <2>2. C("ioClose") \in Frame /\ C("onClosed") \in Frame
    OBVIOUS
  <2>3. QED
    BY <2>1, <2>2, <1>2, <1>4, Zenon
<1>39. CASE ForeignReturns
  BY <1>39 DEF ForeignReturns, Foreign
<1>40. ASSUME NEW r \in Req, FreeRef1(r) PROVE stack' \in Seq(Frame)
  <2>1. stack # <<>>
    BY <1>40 DEF FreeRef1, At
  <2>2. \/ stack' = <<F("call2", r)>> \o Pop
        \/ stack' = <<C("foreign"), F("freeSlot", r)>> \o Pop
    BY <1>40 DEF FreeRef1
  <2>3. F("call2", r) \in Frame /\ C("foreign") \in Frame /\ F("freeSlot", r) \in Frame
    OBVIOUS
  <2>4. /\ <<C("foreign"), F("freeSlot", r)>> \o Pop \in Seq(Frame)
        /\ <<F("call2", r)>> \o Pop \in Seq(Frame)
    BY <2>1, <2>3, <1>2, <1>3, <1>4, Zenon
  <2>5. QED
    BY <2>2, <2>4
<1>23. CASE IoClose
  BY <1>23, <1>9 DEF IoClose, At
<1>24. CASE OnClosed
  BY <1>24 DEF OnClosed, At
<1>25. CASE Delete
  BY <1>25, <1>4 DEF Delete, At
<1>26. CASE DeleteTail
  BY <1>26 DEF DeleteTail, At
<1>27. ASSUME NEW r \in Req, Step2Packet(r) PROVE stack' \in Seq(Frame)
  <2>1. PICK o \in Op : stack' = <<F(Handler(o), r), C("step1")>> \o Pop
    BY <1>27 DEF Step2Packet
  <2>2. F(Handler(o), r) \in Frame
    BY HandlerType, <1>8
  <2>3. stack # <<>>
    BY <1>27 DEF Step2Packet, At
  <2>4. QED
    BY <2>1, <2>2, <2>3, <1>4
<1>28. ASSUME NEW r \in Req, Call1(r) \/ Poll1(r) \/ Poll3Again(r) PROVE stack' \in Seq(Frame)
  BY <1>28 DEF Call1, Poll1, Poll3Again, Invoke, At
<1>29. ASSUME NEW r \in Req, Call2(r) \/ Poll2(r) PROVE stack' \in Seq(Frame)
  BY <1>29 DEF Call2, Poll2, WriteResult, At
<1>30. ASSUME NEW r \in Req, GetFunc1(r) \/ FreeSlot(r) \/ GetInfo1(r) \/ Close1(r) \/ Poll3Finish(r)
       PROVE stack' \in Seq(Frame)
  BY <1>30 DEF GetFunc1, FreeSlot, GetInfo1, Close1, Poll3Finish, At
<1>31. ASSUME NEW r \in Req, Poll3(r) \/ Finish(r) PROVE stack' \in Seq(Frame)
  <2>1. PICK fn \in {"finishTail", "poll3Tail"} :
          stack' = (IF sendErr THEN <<C("close")>> ELSE <<>>) \o <<F(fn, r)>> \o Pop
    BY <1>31 DEF Poll3, Finish
  <2>2. stack # <<>>
    BY <1>31 DEF Poll3, Finish, At
  <2>3. stack' = IF sendErr THEN <<C("close"), F(fn, r)>> \o Pop ELSE <<F(fn, r)>> \o Pop
    BY <2>1, <2>2
  <2>4. QED
    BY <2>2, <2>3, <1>4
<1>32. ASSUME NEW r \in Req, FinishTail(r) PROVE stack' \in Seq(Frame)
  BY <1>32 DEF FinishTail, At
<1>41. CASE IoReceived
  BY <1>41 DEF IoReceived
<1>33. CASE OwnerCalls
  <2>1. PICK fn \in CtxFn : stack' = <<C(fn)>>
    BY <1>33 DEF OwnerCalls
  <2>2. QED
    BY <2>1
<1>34. CASE IoSent
  <2>1. stack' = <<F(next[sendQ[1]], sendQ[1])>> \o stack /\ sendQ # <<>>
    BY <1>34 DEF IoSent
  <2>2. QED
    BY <2>1, <1>9
<1>35. ASSUME NEW r \in Req, CallableReturns(r) PROVE stack' \in Seq(Frame)
  <2>1. stack' = <<F(next[r], r)>> \o stack /\ F(next[r], r) \in Frame
    BY <1>35, <1>8 DEF CallableReturns
  <2>2. QED
    BY <2>1
<1>36. CASE UNCHANGED vars
  BY <1>36 DEF vars
<1>37. QED
  BY <1>20, <1>21, <1>22, <1>23, <1>24, <1>25, <1>26, <1>27, <1>28, <1>29, <1>30, <1>31,
     <1>32, <1>33, <1>34, <1>35, <1>36, <1>38, <1>39, <1>40, <1>41
  DEF Next, Step, CtxStep, ReqStep

LEMMA SendQueueType ==
  ASSUME sendQ \in Seq(Req)
  PROVE  /\ \A r \in Req : Append(sendQ, r) \in Seq(Req)
         /\ sendQ # <<>> => Tail(sendQ) \in Seq(Req)
OBVIOUS

(* The variables that are not about counting or the stack.                 *)
LEMMA RestType ==
  ASSUME TypeOK, [Next]_vars, refCount' \in Nat, stack' \in Seq(Frame)
  PROVE  TypeOK'
<1> USE ServerAssumption
<1>1. CASE Step1
  BY <1>1 DEF Step1, TypeOK, ctxVars, poolVars, headVars, bodyVars, RecvOutcome
<1>2. CASE Step2End \/ OnClosed \/ Delete \/ ForeignReturns \/ OwnerCalls
  BY <1>2 DEF Step2End, OnClosed, Delete, ForeignReturns, OwnerCalls,
              TypeOK, ctxVars, poolVars, ioVars, headVars, bodyVars
<1>3. CASE ServerClose
  BY <1>3 DEF ServerClose, TypeOK, poolVars, ioVars, headVars, bodyVars
<1>19. CASE CloseRefs
  <2>1. obj' \in [Index -> Func \cup {NoFunc}]
    BY <1>19 DEF CloseRefs
  <2>2. QED
    BY <1>19, <2>1 DEF CloseRefs, TypeOK, ctxVars, ioVars, headVars, bodyVars
<1>4. CASE IoClose
  <2>1. sendQ' = sendQ \/ (sendQ # <<>> /\ sendQ' = Tail(sendQ))
    BY <1>4 DEF IoClose
  <2>2. sendQ' \in Seq(Req)
    BY <2>1, SendQueueType, Zenon DEF TypeOK
  <2>3. receiving' = FALSE /\ recvErr' \in BOOLEAN /\ sendErr' \in BOOLEAN
    BY <1>4 DEF IoClose, TypeOK
  <2>4. UNCHANGED <<ctxVars, poolVars, headVars, bodyVars>>
    BY <1>4 DEF IoClose
  <2>5. QED
    BY <2>2, <2>3, <2>4 DEF TypeOK, ctxVars, poolVars, headVars, bodyVars
<1>5. CASE DeleteTail
  BY <1>5 DEF DeleteTail, Unref, TypeOK, poolVars, ioVars, headVars, bodyVars
<1>6. ASSUME NEW r \in Req, Step2Packet(r) PROVE TypeOK'
  <2>1. PICK o \in Op, s \in Sid \cup {Signal}, i \in Index :
          /\ op' = [op EXCEPT ![r] = o] /\ sid' = [sid EXCEPT ![r] = s]
          /\ idx' = [idx EXCEPT ![r] = i] /\ next' = [next EXCEPT ![r] = Handler(o)]
    BY <1>6 DEF Step2Packet
  <2>2. Handler(o) \in StepFn
    BY HandlerType
  <2>3. next' \in [Req -> StepFn]
    BY <2>1, <2>2 DEF TypeOK
  <2>4. op' \in [Req -> Op] /\ sid' \in [Req -> Sid \cup {Signal}] /\ idx' \in [Req -> Index]
    BY <2>1 DEF TypeOK
  <2>5. rstate' \in [Req -> {"none", "live", "freed"}]
    BY <1>6 DEF Step2Packet, TypeOK
  <2>6. UNCHANGED <<closed, freed, owner, poolVars, ioVars, flip, rejected, onFinish,
                    running, resp, due>>
    BY <1>6 DEF Step2Packet
  <2>7. QED
    BY <2>3, <2>4, <2>5, <2>6 DEF TypeOK, poolVars, ioVars
<1>7. ASSUME NEW r \in Req, NEW cont \in StepFn, NEW left \in BOOLEAN, Invoke(r, cont, left),
             UNCHANGED <<ctxVars, poolVars, ioVars, headVars, flip, resp>>
      PROVE  TypeOK'
  <2>1. next' \in [Req -> StepFn]
    BY <1>7 DEF Invoke, TypeOK
  <2>2. onFinish' \in [Req -> BOOLEAN] /\ due' \in [Req -> BOOLEAN]
    <3>1. PICK hook \in BOOLEAN : /\ onFinish' = [onFinish EXCEPT ![r] = hook]
                                  /\ due' = [due EXCEPT ![r] = hook \/ left]
      BY <1>7 DEF Invoke
    <3>2. (hook \/ left) \in BOOLEAN
      OBVIOUS
    <3>3. QED
      BY <3>1, <3>2, Zenon DEF TypeOK
  <2>3. running' \subseteq Req
    BY <1>7 DEF Invoke, TypeOK
  <2>4. rejected' \in [Req -> BOOLEAN]
    <3>1. PICK err \in BOOLEAN : rejected' = [rejected EXCEPT ![r] = err]
      BY <1>7 DEF Invoke, Outcomes
    <3>2. QED
      BY <3>1 DEF TypeOK
  <2>5. QED
    BY <1>7, <2>1, <2>2, <2>3, <2>4 DEF TypeOK, ctxVars, poolVars, ioVars, headVars
<1>8. ASSUME NEW r \in Req, Call1(r) \/ Poll1(r) \/ Poll3Again(r) PROVE TypeOK'
  <2>1. due[r] \in BOOLEAN /\ (due[r] /\ ~onFinish[r]) \in BOOLEAN
    BY DEF TypeOK
  <2>2. {"call2", "poll2"} \subseteq StepFn
    BY DEF StepFn
  <2>3. QED
    BY <1>7, <1>8, <2>1, <2>2 DEF Call1, Poll1, Poll3Again
<1>9. ASSUME NEW r \in Req, NEW cont \in StepFn, WriteResult(r, cont),
             UNCHANGED <<ctxVars, poolVars, receiving, recvErr, headVars, rejected,
                         onFinish, running, due>>
      PROVE  TypeOK'
  <2>1. /\ next' \in [Req -> StepFn] /\ flip' \in [Req -> BOOLEAN]
        /\ sendErr' \in BOOLEAN /\ sendQ' \in Seq(Req)
    <3>1. next' \in [Req -> StepFn]
      BY <1>9 DEF WriteResult, TypeOK
    <3>2. PICK e \in BOOLEAN : flip' = [flip EXCEPT ![r] = e]
      BY <1>9 DEF WriteResult, TypeOK
    <3>3. flip' \in [Req -> BOOLEAN]
      BY <3>2 DEF TypeOK
    <3>4. sendErr' \in BOOLEAN /\ (sendQ' = sendQ \/ sendQ' = Append(sendQ, r))
      BY <1>9 DEF WriteResult, TypeOK
    <3>5. sendQ' \in Seq(Req)
      <4>1. sendQ \in Seq(Req)
        BY DEF TypeOK
      <4>2. Append(sendQ, r) \in Seq(Req)
        BY <4>1, SendQueueType
      <4>3. QED
        BY <3>4, <4>1, <4>2, Zenon
    <3>6. QED
      BY <3>1, <3>3, <3>4, <3>5
  <2>2. resp' \in [Req -> Seq([sid : Sid \cup {Signal}, flip : BOOLEAN])]
    <3> DEFINE e == IF rejected[r] THEN ~flip[r] ELSE flip[r]
    <3>1. e \in BOOLEAN /\ sid[r] \in Sid \cup {Signal}
      BY DEF TypeOK
    <3>2. [sid |-> sid[r], flip |-> e] \in [sid : Sid \cup {Signal}, flip : BOOLEAN]
      BY <3>1
    <3>3. resp' = resp \/ resp' = [resp EXCEPT ![r] = Append(@, [sid |-> sid[r], flip |-> e])]
      BY <1>9 DEF WriteResult
    <3> HIDE DEF e
    <3> DEFINE T == [sid : Sid \cup {Signal}, flip : BOOLEAN]
    <3>4. resp \in [Req -> Seq(T)] /\ [sid |-> sid[r], flip |-> e] \in T
      BY <3>2 DEF TypeOK
    <3> HIDE DEF T
    <3>5. Append(resp[r], [sid |-> sid[r], flip |-> e]) \in Seq(T)
      BY <3>4
    <3>6. resp' \in [Req -> Seq(T)]
      BY <3>3, <3>4, <3>5
    <3>7. QED
      BY <3>6 DEF T
  <2>3. QED
    BY <1>9, <2>1, <2>2 DEF TypeOK, ctxVars, poolVars, headVars
<1>10. ASSUME NEW r \in Req, Call2(r) \/ Poll2(r) PROVE TypeOK'
  <2>1. CASE WriteResult(r, "finish") \/ WriteResult(r, "poll3")
    <3>1. {"finish", "poll3"} \subseteq StepFn
      BY DEF StepFn
    <3>2. QED
      BY <1>9, <1>10, <2>1, <3>1 DEF Call2, Poll2
  <2>2. CASE UNCHANGED <<next, flip, resp, sendQ, sendErr>>
    BY <1>10, <2>2 DEF Call2, Poll2, TypeOK, ctxVars, poolVars, headVars
  <2>3. QED
    BY <1>10, <2>1, <2>2 DEF Call2, Poll2
<1>11. ASSUME NEW r \in Req, GetFunc1(r) \/ FreeSlot(r) PROVE TypeOK'
  <2>1. held' \subseteq Index
    BY <1>11 DEF GetFunc1, FreeSlot, TypeOK, poolVars
  <2>2. obj' \in [Index -> Func \cup {NoFunc}]
    BY <1>11 DEF GetFunc1, FreeSlot, TypeOK, poolVars
  <2>3. QED
    BY <1>11, <2>1, <2>2 DEF GetFunc1, FreeSlot, TypeOK, ctxVars, ioVars, headVars, bodyVars
<1>20. ASSUME NEW r \in Req, FreeRef1(r) PROVE TypeOK'
  <2>1. idx' = idx \/ \E i \in held : idx' = [idx EXCEPT ![r] = i]
    BY <1>20 DEF FreeRef1
  <2>2. idx' \in [Req -> Index]
    BY <2>1 DEF TypeOK
  <2>3. QED
    BY <1>20, <2>2 DEF FreeRef1, TypeOK, ctxVars, poolVars, ioVars, bodyVars
<1>12. ASSUME NEW r \in Req,
              GetInfo1(r) \/ Close1(r) \/ Poll3(r) \/ Poll3Finish(r) \/ Finish(r)
       PROVE  TypeOK'
  BY <1>12 DEF GetInfo1, Close1, Poll3, Poll3Finish, Finish,
               TypeOK, ctxVars, poolVars, ioVars, headVars, bodyVars
<1>13. ASSUME NEW r \in Req, FinishTail(r) PROVE TypeOK'
  BY <1>13 DEF FinishTail, Unref, TypeOK, poolVars, ioVars
<1>14. CASE IoReceived
  BY <1>14 DEF IoReceived, RecvOutcome, TypeOK, ctxVars, poolVars, headVars, bodyVars
<1>15. CASE IoSent
  <2>1. sendQ' \in Seq(Req)
    BY <1>15, SendQueueType, Zenon DEF IoSent, TypeOK
  <2>2. sendErr' \in BOOLEAN
    BY <1>15 DEF IoSent, TypeOK
  <2>3. QED
    BY <1>15, <2>1, <2>2 DEF IoSent, TypeOK, ctxVars, poolVars, headVars, bodyVars
<1>16. ASSUME NEW r \in Req, CallableReturns(r) PROVE TypeOK'
  BY <1>16 DEF CallableReturns, Outcomes, TypeOK, ctxVars, poolVars, ioVars, headVars
<1>17. CASE UNCHANGED vars
  BY <1>17 DEF vars, TypeOK, ctxVars, poolVars, ioVars, headVars, bodyVars, Index, Frame
<1>18. QED
  BY <1>1, <1>2, <1>3, <1>4, <1>5, <1>6, <1>8, <1>10, <1>11, <1>12, <1>13, <1>14, <1>15,
     <1>16, <1>17, <1>19, <1>20 DEF Next, Step, CtxStep, ReqStep

-----------------------------------------------------------------------------
(* Counting. *)

(* The frames in which the creator's reference is on its way to be given   *)
(* back: delete, and the rest of close when the owner deletes in on_closed. *)
Deleting(f) ==
  \/ f.fn \in {"delete", "deleteTail"}
  \/ DeleteInOnClosed /\ f.fn \in {"closeRefs", "onClosed"}

(* The creator gives its reference back once: one frame at most is about   *)
(* to, and only while it has one.                                          *)
OneDelete ==
  /\ \A k \in 1 .. Len(stack) : Deleting(stack[k]) =>
       /\ owner
       /\ \A j \in 1 .. Len(stack) : Deleting(stack[j]) => j = k
  /\ DeleteInOnClosed /\ ~closed =>
       /\ owner
       /\ \A k \in 1 .. Len(stack) : ~Deleting(stack[k])

(* The inductive invariant. *)
IInv ==
  /\ TypeOK
  /\ RefCountExact
  /\ IsFiniteSet(Live)
  /\ OneDelete

LEMMA InitInv == Init => IInv
<1> SUFFICES ASSUME Init PROVE IInv
  OBVIOUS
<1> USE ServerAssumption
<1>1. TypeOK
  <2>1. stack \in Seq(Frame)
    BY FrameType, PushType DEF Init, CtxFn
  <2>2. 0 \in Index /\ "finish" \in StepFn /\ "getInfo" \in Op
    BY DEF Index, StepFn, Op
  <2>3. sendQ \in Seq(Req) /\ resp \in [Req -> Seq([sid : Sid \cup {Signal}, flip : BOOLEAN])]
    BY DEF Init
  <2>4. QED
    BY <2>1, <2>2, <2>3 DEF Init, TypeOK
<1>2. Live = {}
  BY DEF Init, Live
<1>3. RefCountExact /\ IsFiniteSet(Live)
  BY <1>2, FS_EmptySet DEF Init, RefCountExact
<1>4. OneDelete
  <2>1. Len(stack) = 1 /\ stack[1].fn = "step1"
    BY DEF Init, C
  <2>2. QED
    BY <2>1 DEF Init, OneDelete, Deleting
<1>5. QED
  BY <1>1, <1>3, <1>4 DEF IInv

(* Only newRequest and finishRequest change which requests are alive, and  *)
(* only they and delete the count.                                         *)
LEMMA CountStep ==
  ASSUME IInv, [Next]_vars
  PROVE  RefCountExact' /\ IsFiniteSet(Live)' /\ refCount' \in Nat
<1>1. /\ refCount = (IF owner THEN 1 ELSE 0) + Cardinality(Live)
      /\ freed <=> refCount = 0
      /\ IsFiniteSet(Live) /\ Cardinality(Live) \in Nat /\ refCount \in Nat
      /\ owner \in BOOLEAN /\ freed \in BOOLEAN
  BY FS_CardinalityType DEF IInv, TypeOK, RefCountExact
<1>2. ASSUME NEW r \in Req, Step2Packet(r)
      PROVE  RefCountExact' /\ IsFiniteSet(Live)' /\ refCount' \in Nat
  <2>1. Live' = Live \cup {r} /\ r \notin Live
    BY <1>2 DEF Step2Packet, Live, IInv, TypeOK
  <2>2. IsFiniteSet(Live') /\ Cardinality(Live') = Cardinality(Live) + 1
    BY <1>1, <2>1, FS_AddElement
  <2>3. refCount' = refCount + 1 /\ freed' = freed /\ owner' = owner /\ ~freed
    BY <1>2 DEF Step2Packet, At
  <2>4. QED
    BY <1>1, <2>2, <2>3 DEF RefCountExact
<1>3. ASSUME NEW r \in Req, FinishTail(r)
      PROVE  RefCountExact' /\ IsFiniteSet(Live)' /\ refCount' \in Nat
  <2>1. r \in Live /\ Live' = Live \ {r}
    BY <1>3 DEF FinishTail, At, ReqFn, Live, IInv, TypeOK
  <2>2. IsFiniteSet(Live') /\ Cardinality(Live') = Cardinality(Live) - 1 /\ Cardinality(Live') \in Nat
    BY <1>1, <2>1, FS_RemoveElement, FS_CardinalityType
  <2>3. refCount' = refCount - 1 /\ (freed' <=> refCount' = 0) /\ owner' = owner
    BY <1>3 DEF FinishTail, Unref
  <2>4. QED
    BY <1>1, <2>2, <2>3 DEF RefCountExact
<1>4. CASE DeleteTail
  <2>1. stack # <<>> /\ Deleting(stack[1])
    BY <1>4 DEF DeleteTail, At, Deleting
  <2>2. 1 \in 1 .. Len(stack)
    BY <2>1, PopType DEF IInv, TypeOK
  <2>3. owner
    BY <2>1, <2>2 DEF IInv, OneDelete
  <2>4. Live' = Live
    BY <1>4 DEF DeleteTail, headVars, Live
  <2>5. refCount' = refCount - 1 /\ (freed' <=> refCount' = 0) /\ owner' = FALSE
    BY <1>4 DEF DeleteTail, Unref
  <2>6. QED
    BY <1>1, <2>3, <2>4, <2>5 DEF RefCountExact
<1>5. CASE UNCHANGED <<refCount, freed, owner, rstate>>
  <2>1. Live' = Live
    BY <1>5 DEF Live
  <2>2. QED
    BY <1>1, <1>5, <2>1 DEF RefCountExact
<1>6. CASE Step1 \/ Step2End \/ ServerClose \/ IoClose \/ OnClosed \/ Delete
  BY <1>5, <1>6 DEF Step1, Step2End, ServerClose, IoClose, OnClosed, Delete, ctxVars, headVars
<1>12. CASE CloseRefs \/ ForeignReturns
  BY <1>5, <1>12 DEF CloseRefs, ForeignReturns, ctxVars, headVars
<1>7. ASSUME NEW r \in Req,
             \/ Call1(r) \/ Call2(r) \/ GetFunc1(r) \/ FreeRef1(r) \/ FreeSlot(r)
             \/ GetInfo1(r) \/ Close1(r) \/ Poll1(r) \/ Poll2(r) \/ Poll3(r)
             \/ Poll3Finish(r) \/ Poll3Again(r) \/ Finish(r)
      PROVE  UNCHANGED <<refCount, freed, owner, rstate>>
  BY <1>7 DEF Call1, Call2, GetFunc1, FreeRef1, FreeSlot, GetInfo1, Close1, Poll1, Poll2, Poll3,
              Poll3Finish, Poll3Again, Finish, ctxVars, headVars
<1>8. CASE IoReceived \/ IoSent \/ OwnerCalls
  BY <1>5, <1>8 DEF IoReceived, IoSent, OwnerCalls, ctxVars, headVars
<1>9. ASSUME NEW r \in Req, CallableReturns(r) PROVE UNCHANGED <<refCount, freed, owner, rstate>>
  BY <1>9 DEF CallableReturns, ctxVars, headVars
<1>10. CASE UNCHANGED vars
  BY <1>5, <1>10 DEF vars, ctxVars, headVars
<1>11. QED
  BY <1>2, <1>3, <1>4, <1>5, <1>6, <1>7, <1>8, <1>9, <1>10, <1>12 DEF Next, Step, CtxStep, ReqStep

(* n frames replace the top of the stack; at most one of them is about to  *)
(* delete, and that only if the top was.                                   *)
Replaces(n) ==
  /\ Len(stack') = n + Len(stack) - 1
  /\ \A k \in n + 1 .. Len(stack') : stack'[k] = stack[k - n + 1]
  /\ \A k \in 1 .. n : Deleting(stack'[k]) =>
       Deleting(stack[1]) /\ \A j \in 1 .. n : Deleting(stack'[j]) => j = k

LEMMA ReplaceKeeps ==
  ASSUME TypeOK, OneDelete, stack' \in Seq(Frame), stack # <<>>,
         UNCHANGED <<owner, closed>>, NEW n \in Nat, Replaces(n)
  PROVE  OneDelete'
<1>1. Len(stack) \in Nat \ {0} /\ Len(stack') \in Nat /\ 1 \in 1 .. Len(stack)
  BY PopType DEF TypeOK
<1>2. ASSUME NEW k \in 1 .. Len(stack'), Deleting(stack'[k])
      PROVE  IF k <= n THEN Deleting(stack[1])
             ELSE k - n + 1 \in 2 .. Len(stack) /\ Deleting(stack[k - n + 1])
  BY <1>1, <1>2 DEF Replaces
<1>3. ASSUME NEW k \in 1 .. Len(stack'), Deleting(stack'[k])
      PROVE  owner /\ \A j \in 1 .. Len(stack') : Deleting(stack'[j]) => j = k
  <2>1. owner
    BY <1>1, <1>2, <1>3 DEF OneDelete
  <2>2. ASSUME NEW j \in 1 .. Len(stack'), Deleting(stack'[j]) PROVE j = k
    <3>1. CASE j <= n /\ k <= n
      BY <1>3, <2>2, <3>1 DEF Replaces
    <3>2. CASE j > n /\ k > n
      <4>1. j - n + 1 = k - n + 1
        BY <1>1, <1>2, <1>3, <2>2, <3>2 DEF OneDelete
      <4>2. QED
        BY <4>1, <1>1
    <3>3. CASE j > n /\ k <= n
      <4>1. j - n + 1 = 1
        BY <1>1, <1>2, <1>3, <2>2, <3>3 DEF OneDelete
      <4>2. QED
        BY <4>1, <3>3, <1>1
    <3>4. CASE j <= n /\ k > n
      <4>1. k - n + 1 = 1
        BY <1>1, <1>2, <1>3, <2>2, <3>4 DEF OneDelete
      <4>2. QED
        BY <4>1, <3>4, <1>1
    <3>5. QED
      BY <3>1, <3>2, <3>3, <3>4, <1>1
  <2>3. QED
    BY <2>1, <2>2
<1>4. DeleteInOnClosed /\ ~closed =>
        owner /\ \A k \in 1 .. Len(stack') : ~Deleting(stack'[k])
  BY <1>1, <1>2 DEF OneDelete
<1>5. QED
  BY <1>3, <1>4 DEF OneDelete, Deleting

LEMMA PopKeeps ==
  ASSUME TypeOK, OneDelete, stack # <<>>, stack' = Pop, UNCHANGED <<owner, closed>>
  PROVE  OneDelete'
<1>1. /\ stack' \in Seq(Frame) /\ Len(stack') = 0 + Len(stack) - 1
      /\ \A k \in 1 .. Len(stack') : stack'[k] = stack[k + 1]
      /\ Len(stack) \in Nat
  BY PopType DEF TypeOK, Pop
<1>2. \A k \in 0 + 1 .. Len(stack') : stack'[k] = stack[k - 0 + 1]
  BY <1>1
<1>3. Replaces(0)
  BY <1>1, <1>2 DEF Replaces
<1>4. QED
  BY <1>1, <1>3, ReplaceKeeps

LEMMA PushOneKeeps ==
  ASSUME TypeOK, OneDelete, stack # <<>>, NEW f \in Frame, stack' = <<f>> \o Pop,
         UNCHANGED <<owner, closed>>, Deleting(f) => Deleting(stack[1])
  PROVE  OneDelete'
<1>1. /\ Pop \in Seq(Frame) /\ Len(Pop) = Len(stack) - 1 /\ Len(stack) \in Nat \ {0}
      /\ \A k \in 1 .. Len(stack) - 1 : Pop[k] = stack[k + 1]
  BY PopType DEF TypeOK, Pop
<1>2. /\ stack' \in Seq(Frame) /\ Len(stack') = Len(Pop) + 1 /\ stack'[1] = f
      /\ \A k \in 1 .. Len(Pop) : stack'[k + 1] = Pop[k]
  BY <1>1, PushType
<1>3. Len(stack') = 1 + Len(stack) - 1
  BY <1>1, <1>2
<1>4. \A k \in 1 + 1 .. Len(stack') : stack'[k] = stack[k - 1 + 1]
  <2> SUFFICES ASSUME NEW k \in 2 .. Len(stack') PROVE stack'[k] = stack[k]
    BY <1>1, <1>3
  <2>1. k - 1 \in 1 .. Len(Pop)
    BY <1>1, <1>2
  <2>2. stack'[(k - 1) + 1] = Pop[k - 1] /\ Pop[k - 1] = stack[(k - 1) + 1]
    BY <2>1, <1>1, <1>2
  <2>3. QED
    BY <2>2
<1>5. Replaces(1)
  BY <1>2, <1>3, <1>4 DEF Replaces
<1>6. QED
  BY <1>2, <1>5, ReplaceKeeps

LEMMA PushTwoKeeps ==
  ASSUME TypeOK, OneDelete, stack # <<>>, NEW f \in Frame, NEW g \in Frame,
         stack' = <<f, g>> \o Pop, UNCHANGED <<owner, closed>>,
         ~Deleting(f), Deleting(g) => Deleting(stack[1])
  PROVE  OneDelete'
<1>1. /\ Pop \in Seq(Frame) /\ Len(Pop) = Len(stack) - 1 /\ Len(stack) \in Nat \ {0}
      /\ \A k \in 1 .. Len(stack) - 1 : Pop[k] = stack[k + 1]
  BY PopType DEF TypeOK, Pop
<1>2. /\ stack' \in Seq(Frame) /\ Len(stack') = Len(Pop) + 2 /\ stack'[1] = f /\ stack'[2] = g
      /\ \A k \in 1 .. Len(Pop) : stack'[k + 2] = Pop[k]
  BY <1>1, PushTwoType
<1>3. Len(stack') = 2 + Len(stack) - 1
  BY <1>1, <1>2
<1>4. \A k \in 2 + 1 .. Len(stack') : stack'[k] = stack[k - 2 + 1]
  <2> SUFFICES ASSUME NEW k \in 3 .. Len(stack') PROVE stack'[k] = stack[k - 1]
    BY <1>1, <1>3
  <2>1. k - 2 \in 1 .. Len(Pop)
    BY <1>1, <1>2
  <2>2. stack'[(k - 2) + 2] = Pop[k - 2] /\ Pop[k - 2] = stack[(k - 2) + 1]
    BY <2>1, <1>1, <1>2
  <2>3. QED
    BY <2>2, <1>1
<1>5. \A k \in 1 .. 2 : Deleting(stack'[k]) => k = 2 /\ Deleting(stack[1])
  BY <1>2
<1>6. Replaces(2)
  BY <1>2, <1>3, <1>4, <1>5 DEF Replaces
<1>7. QED
  BY <1>2, <1>6, ReplaceKeeps

LEMMA PlainFrames ==
  /\ \A fn \in CtxFn \ {"closeRefs", "onClosed", "delete", "deleteTail"} :
       C(fn) \in Frame /\ ~Deleting(C(fn))
  /\ \A fn \in ReqFn, r \in Req : F(fn, r) \in Frame /\ ~Deleting(F(fn, r))
  /\ C("onClosed") \in Frame /\ C("delete") \in Frame /\ C("deleteTail") \in Frame
  /\ C("closeRefs") \in Frame
BY FrameType DEF C, F, Deleting, CtxFn, ReqFn, StepFn

LEMMA AddKeeps ==
  ASSUME TypeOK, OneDelete, NEW f \in Frame, stack' = <<f>> \o stack,
         UNCHANGED <<owner, closed>>, ~Deleting(f)
  PROVE  OneDelete'
<1>1. stack \in Seq(Frame)
  BY DEF TypeOK
<1>2. CASE stack = <<>>
  <2>1. Len(stack') = 1 /\ stack'[1] = f
    BY <1>2
  <2>2. \A k \in 1 .. Len(stack') : ~Deleting(stack'[k])
    BY <2>1
  <2>3. DeleteInOnClosed /\ ~closed => owner
    BY DEF OneDelete
  <2>4. QED
    BY <2>2, <2>3 DEF OneDelete, Deleting
<1>3. CASE stack # <<>>
  <2>1. stack[1] \in Frame /\ Pop \in Seq(Frame) /\ stack = <<stack[1]>> \o Pop
    BY <1>1, <1>3 DEF Pop
  <2>2. <<f>> \o (<<stack[1]>> \o Pop) = <<f, stack[1]>> \o Pop
    BY <2>1, PushTwice
  <2>3. stack' = <<f, stack[1]>> \o Pop
    BY <2>1, <2>2, Zenon
  <2>4. QED
    BY <1>3, <2>1, <2>3, PushTwoKeeps
<1>4. QED
  BY <1>2, <1>3

LEMMA DeleteStep ==
  ASSUME IInv, [Next]_vars
  PROVE  OneDelete'
<1>1. TypeOK /\ OneDelete /\ stack \in Seq(Frame)
  BY DEF IInv, TypeOK
<1>2. stack' \in Seq(Frame)
  BY <1>1, StackType
<1>3. \A fn \in {"step1", "step2", "close", "ioClose", "foreign"} :
        C(fn) \in Frame /\ ~Deleting(C(fn))
  BY PlainFrames DEF CtxFn
<1>4. StepFn \subseteq ReqFn
  BY DEF ReqFn
<1>5. {"call2", "poll2", "poll3", "finish", "finishTail", "poll3Tail", "freeRef1", "freeSlot"}
        \subseteq ReqFn
  BY DEF ReqFn, StepFn
<1>6. ASSUME stack # <<>>, stack' = Pop, UNCHANGED <<owner, closed>> PROVE OneDelete'
  BY <1>1, <1>6, PopKeeps
<1>7. ASSUME NEW f \in Frame, ~Deleting(f), stack # <<>>, stack' = <<f>> \o Pop,
             UNCHANGED <<owner, closed>>
      PROVE  OneDelete'
  BY <1>1, <1>7, PushOneKeeps
<1>8. ASSUME NEW f \in Frame, NEW g \in Frame, ~Deleting(f), ~Deleting(g), stack # <<>>,
             stack' = <<f, g>> \o Pop, UNCHANGED <<owner, closed>>
      PROVE  OneDelete'
  BY <1>1, <1>8, PushTwoKeeps
<1>9. ASSUME stack = <<>>, NEW f \in Frame, stack' = <<f>>, UNCHANGED <<owner, closed>>,
             Deleting(f) => owner /\ ~DeleteInOnClosed
      PROVE  OneDelete'
  <2>1. Len(stack') = 1 /\ stack'[1] = f
    BY <1>9
  <2>2. Deleting(f)' <=> Deleting(f)
    BY DEF Deleting
  <2>3. QED
    BY <1>1, <1>9, <2>1, <2>2 DEF OneDelete
<1>10. CASE Step1
  <2>1. stack # <<>> /\ UNCHANGED <<owner, closed>>
    BY <1>10 DEF Step1, At, ctxVars
  <2>2. stack' = Pop \/ stack' = <<C("foreign")>> \o Pop
    BY <1>10 DEF Step1
  <2>3. QED
    BY <2>1, <2>2, <1>3, <1>6, <1>7
<1>11. CASE Step2End
  <2>1. stack # <<>> /\ UNCHANGED <<owner, closed>>
    BY <1>11 DEF Step2End, At, ctxVars
  <2>2. stack' = Pop \/ stack' = <<C("close")>> \o Pop
    BY <1>11 DEF Step2End
  <2>3. QED
    BY <2>1, <2>2, <1>3, <1>6, <1>7
<1>12. CASE ServerClose
  <2>1. stack # <<>> /\ UNCHANGED owner
    BY <1>12 DEF ServerClose, At
  <2>2. CASE closed
    BY <1>6, <1>12, <2>1, <2>2 DEF ServerClose
  <2>3. CASE ~closed /\ ~DeleteInOnClosed
    <3>1. stack' = <<C("foreign"), C("closeRefs")>> \o Pop /\ closed' = TRUE
      BY <1>12, <2>3 DEF ServerClose
    <3>2. /\ Pop \in Seq(Frame) /\ Len(Pop) = Len(stack) - 1 /\ Len(stack) \in Nat \ {0}
          /\ \A k \in 1 .. Len(stack) - 1 : Pop[k] = stack[k + 1]
      BY <1>1, <2>1, PopType DEF Pop
    <3>3. C("foreign") \in Frame /\ C("closeRefs") \in Frame
      BY PlainFrames, <1>3
    <3>4. /\ Len(stack') = Len(Pop) + 2 /\ stack'[1] = C("foreign") /\ stack'[2] = C("closeRefs")
          /\ \A k \in 1 .. Len(Pop) : stack'[k + 2] = Pop[k]
      BY <3>1, <3>2, <3>3, PushTwoType
    <3>5. ~Deleting(C("foreign")) /\ ~Deleting(C("closeRefs"))
      BY <2>3, <1>3 DEF Deleting, C
    <3>6. ASSUME NEW k \in 1 .. Len(stack'), Deleting(stack'[k])
          PROVE  k - 1 \in 1 .. Len(stack) /\ Deleting(stack[k - 1])
      <4>1. k \in 3 .. Len(stack')
        BY <3>2, <3>4, <3>5, <3>6
      <4>2. k - 2 \in 1 .. Len(Pop)
        BY <4>1, <3>2, <3>4
      <4>3. stack'[(k - 2) + 2] = Pop[k - 2] /\ Pop[k - 2] = stack[(k - 2) + 1]
        BY <4>2, <3>2, <3>4
      <4>4. (k - 2) + 2 = k /\ (k - 2) + 1 = k - 1
        BY <4>1
      <4>5. QED
        BY <4>1, <4>3, <4>4, <3>2, <3>4, <3>6
    <3>7. ASSUME NEW k \in 1 .. Len(stack'), Deleting(stack'[k]),
                 NEW j \in 1 .. Len(stack'), Deleting(stack'[j])
          PROVE  owner /\ j = k
      <4>1. owner /\ j - 1 = k - 1
        BY <1>1, <3>6, <3>7 DEF OneDelete
      <4>2. QED
        BY <4>1
    <3>8. QED
      BY <2>1, <3>1, <3>7 DEF OneDelete, Deleting
  <2>4. CASE ~closed /\ DeleteInOnClosed
    <3>1. stack' = <<C("foreign"), C("closeRefs")>> \o Pop /\ closed' = TRUE
      BY <1>12, <2>4 DEF ServerClose
    <3>2. /\ Pop \in Seq(Frame) /\ Len(Pop) = Len(stack) - 1 /\ Len(stack) \in Nat \ {0}
          /\ \A k \in 1 .. Len(stack) - 1 : Pop[k] = stack[k + 1]
      BY <1>1, <2>1, PopType DEF Pop
    <3>3. C("foreign") \in Frame /\ C("closeRefs") \in Frame
      BY PlainFrames, <1>3
    <3>4. /\ Len(stack') = Len(Pop) + 2 /\ stack'[1] = C("foreign") /\ stack'[2] = C("closeRefs")
          /\ \A k \in 1 .. Len(Pop) : stack'[k + 2] = Pop[k]
      BY <3>1, <3>2, <3>3, PushTwoType
    <3>5. owner /\ \A k \in 1 .. Len(stack) : ~Deleting(stack[k])
      BY <1>1, <2>4 DEF OneDelete
    <3>6. ASSUME NEW k \in 1 .. Len(stack'), Deleting(stack'[k]) PROVE k = 2
      <4>1. k # 1
        BY <3>4, <3>6, <1>3
      <4>2. ASSUME k > 2 PROVE FALSE
        <5>1. k - 2 \in 1 .. Len(Pop)
          BY <4>2, <3>2, <3>4
        <5>2. stack'[(k - 2) + 2] = Pop[k - 2] /\ Pop[k - 2] = stack[(k - 2) + 1]
          BY <5>1, <3>2, <3>4
        <5>3. (k - 2) + 2 = k /\ (k - 2) + 1 \in 1 .. Len(stack)
          BY <5>1, <3>2
        <5>4. QED
          BY <5>2, <5>3, <3>5, <3>6
      <4>3. QED
        BY <4>1, <4>2, <3>2, <3>4
    <3>7. QED
      BY <2>1, <3>1, <3>5, <3>6 DEF OneDelete, Deleting
  <2>5. QED
    BY <2>2, <2>3, <2>4
<1>13. CASE IoClose
  <2>1. stack # <<>> /\ UNCHANGED <<owner, closed>>
    BY <1>13 DEF IoClose, At, ctxVars
  <2>2. sendQ # <<>> => F(next[sendQ[1]], sendQ[1]) \in Frame /\ ~Deleting(F(next[sendQ[1]], sendQ[1]))
    <3>1. sendQ # <<>> => sendQ[1] \in Req /\ next[sendQ[1]] \in ReqFn
      BY <1>1, <1>4 DEF TypeOK
    <3>2. QED
      BY <3>1, PlainFrames
  <2>3. \/ stack' = Pop
        \/ stack' = <<C("foreign")>> \o Pop
        \/ \E f \in Frame : ~Deleting(f) /\ stack' = <<f>> \o stack
    BY <1>13, <2>2, <1>3 DEF IoClose
  <2>4. QED
    BY <1>1, <2>1, <2>3, <1>3, <1>6, <1>7, AddKeeps
<1>26. CASE CloseRefs
  <2>1. stack # <<>> /\ UNCHANGED <<owner, closed>> /\ stack[1].fn = "closeRefs"
        /\ stack' = <<C("ioClose"), C("onClosed")>> \o Pop
    BY <1>26 DEF CloseRefs, At, ctxVars
  <2>2. Deleting(C("onClosed")) => Deleting(stack[1])
    BY <2>1 DEF Deleting, C
  <2>3. C("ioClose") \in Frame /\ ~Deleting(C("ioClose")) /\ C("onClosed") \in Frame
    BY PlainFrames, <1>3
  <2>4. QED
    BY <1>1, <2>1, <2>2, <2>3, PushTwoKeeps
<1>27. CASE ForeignReturns
  <2>1. stack # <<>> /\ UNCHANGED <<owner, closed>> /\ stack' = Pop
    BY <1>27 DEF ForeignReturns, Foreign, ctxVars
  <2>2. QED
    BY <2>1, <1>6
<1>28. ASSUME NEW r \in Req, FreeRef1(r) PROVE OneDelete'
  <2>1. stack # <<>> /\ UNCHANGED <<owner, closed>>
    BY <1>28 DEF FreeRef1, At, ctxVars
  <2>2. \/ stack' = <<F("call2", r)>> \o Pop
        \/ stack' = <<C("foreign"), F("freeSlot", r)>> \o Pop
    BY <1>28 DEF FreeRef1
  <2>3. \A fn \in {"call2", "freeSlot"} : F(fn, r) \in Frame /\ ~Deleting(F(fn, r))
    BY PlainFrames, <1>5
  <2>4. QED
    BY <2>1, <2>2, <2>3, <1>3, <1>7, <1>8
<1>14. CASE OnClosed
  <2>1. stack # <<>> /\ UNCHANGED <<owner, closed>> /\ stack[1].fn = "onClosed"
    BY <1>14 DEF OnClosed, At, ctxVars
  <2>2. CASE DeleteInOnClosed
    <3>1. stack' = <<C("delete")>> \o Pop
      BY <1>14, <2>2 DEF OnClosed
    <3>2. Deleting(stack[1])
      BY <2>1, <2>2 DEF Deleting
    <3>3. QED
      BY <1>1, <2>1, <3>1, <3>2, PlainFrames, PushOneKeeps
  <2>3. CASE ~DeleteInOnClosed
    <3>1. Pop \in Seq(Frame)
      BY <1>1, <2>1, PopType DEF Pop
    <3>2. stack' = Pop
      BY <1>14, <2>3, <3>1 DEF OnClosed
    <3>3. QED
      BY <2>1, <3>2, <1>6
  <2>4. QED
    BY <2>2, <2>3
<1>15. CASE Delete
  <2>1. stack # <<>> /\ UNCHANGED <<owner, closed>> /\ Deleting(stack[1])
        /\ stack' = <<C("close"), C("deleteTail")>> \o Pop
    BY <1>15 DEF Delete, At, ctxVars, Deleting
  <2>2. QED
    BY <1>1, <1>3, <2>1, PlainFrames, PushTwoKeeps
<1>16. CASE DeleteTail
  <2>1. stack # <<>> /\ Deleting(stack[1]) /\ stack' = Pop /\ closed' = closed
    BY <1>16 DEF DeleteTail, At, Deleting
  <2>2. /\ Len(stack') = Len(stack) - 1 /\ Len(stack) \in Nat \ {0}
        /\ \A k \in 1 .. Len(stack) - 1 : stack'[k] = stack[k + 1]
    BY <1>1, <2>1, PopType DEF Pop
  <2>3. \A k \in 1 .. Len(stack) : Deleting(stack[k]) => k = 1
    BY <1>1, <2>1, <2>2 DEF OneDelete
  <2>4. \A k \in 1 .. Len(stack') : ~Deleting(stack'[k])
    BY <2>2, <2>3
  <2>5. ~(DeleteInOnClosed /\ ~closed)
    BY <1>1, <2>1, <2>2 DEF OneDelete
  <2>6. QED
    BY <2>1, <2>4, <2>5 DEF OneDelete, Deleting
<1>17. ASSUME NEW r \in Req, Step2Packet(r) PROVE OneDelete'
  <2>1. PICK o \in Op : stack' = <<F(Handler(o), r), C("step1")>> \o Pop
    BY <1>17 DEF Step2Packet
  <2>2. F(Handler(o), r) \in Frame /\ ~Deleting(F(Handler(o), r))
    BY HandlerType, PlainFrames, <1>4
  <2>3. stack # <<>> /\ UNCHANGED <<owner, closed>>
    BY <1>17 DEF Step2Packet, At
  <2>4. QED
    BY <2>1, <2>2, <2>3, <1>3, <1>8
<1>18. ASSUME NEW r \in Req,
              \/ Call1(r) \/ Call2(r) \/ GetFunc1(r) \/ FreeSlot(r) \/ GetInfo1(r) \/ Close1(r)
              \/ Poll1(r) \/ Poll2(r) \/ Poll3Finish(r) \/ Poll3Again(r) \/ FinishTail(r)
       PROVE  OneDelete'
  <2>1. stack # <<>> /\ UNCHANGED <<owner, closed>>
    BY <1>18 DEF Call1, Call2, GetFunc1, FreeSlot, GetInfo1, Close1, Poll1, Poll2, Poll3Finish,
                 Poll3Again, FinishTail, At, ctxVars
  <2>2. \/ stack' = Pop \/ stack' = <<C("close")>> \o Pop \/ stack' = <<C("foreign")>> \o Pop
        \/ \E fn \in {"call2", "freeRef1", "finish"} : stack' = <<F(fn, r)>> \o Pop
    BY <1>18 DEF Call1, Call2, GetFunc1, FreeSlot, GetInfo1, Close1, Poll1, Poll2, Poll3Finish,
                 Poll3Again, FinishTail, Invoke, WriteResult
  <2>3. \A fn \in {"call2", "freeRef1", "finish"} : F(fn, r) \in Frame /\ ~Deleting(F(fn, r))
    BY PlainFrames, <1>5
  <2>4. QED
    BY <2>1, <2>2, <2>3, <1>3, <1>6, <1>7
<1>19. ASSUME NEW r \in Req, Poll3(r) \/ Finish(r) PROVE OneDelete'
  <2>1. PICK fn \in {"finishTail", "poll3Tail"} :
          stack' = (IF sendErr THEN <<C("close")>> ELSE <<>>) \o <<F(fn, r)>> \o Pop
    BY <1>19 DEF Poll3, Finish
  <2>2. stack # <<>> /\ UNCHANGED <<owner, closed>>
    BY <1>19 DEF Poll3, Finish, At, ctxVars
  <2>3. Pop \in Seq(Frame)
    BY <1>1, <2>2, PopType DEF Pop
  <2>4. stack' = <<C("close"), F(fn, r)>> \o Pop \/ stack' = <<F(fn, r)>> \o Pop
    BY <2>1, <2>3
  <2>5. F(fn, r) \in Frame /\ ~Deleting(F(fn, r))
    BY PlainFrames, <1>5
  <2>6. QED
    BY <2>2, <2>4, <2>5, <1>3, <1>7, <1>8
<1>29. CASE IoReceived
  <2>1. stack' = <<C("step2")>> \o stack /\ UNCHANGED <<owner, closed>>
    BY <1>29 DEF IoReceived, ctxVars
  <2>2. QED
    BY <1>1, <2>1, <1>3, AddKeeps
<1>20. CASE OwnerCalls
  <2>1. /\ stack = <<>> /\ owner /\ UNCHANGED <<owner, closed>>
        /\ \/ stack' = <<C("close")>>
           \/ stack' = <<C("delete")>> /\ ~DeleteInOnClosed
    BY <1>20 DEF OwnerCalls, AtEventLoop, ctxVars
  <2>2. CASE stack' = <<C("close")>>
    BY <2>1, <2>2, <1>3, <1>9
  <2>3. CASE stack' = <<C("delete")>> /\ ~DeleteInOnClosed
    BY <2>1, <2>3, PlainFrames, <1>9
  <2>4. QED
    BY <2>1, <2>2, <2>3
<1>22. CASE IoSent
  <2>1. sendQ # <<>> /\ stack' = <<F(next[sendQ[1]], sendQ[1])>> \o stack
        /\ UNCHANGED <<owner, closed>>
    BY <1>22 DEF IoSent, ctxVars
  <2>2. sendQ[1] \in Req /\ next[sendQ[1]] \in ReqFn
    BY <2>1, <1>1, <1>4 DEF TypeOK
  <2>3. QED
    BY <1>1, <2>1, <2>2, PlainFrames, AddKeeps
<1>23. ASSUME NEW r \in Req, CallableReturns(r) PROVE OneDelete'
  <2>1. stack' = <<F(next[r], r)>> \o stack /\ UNCHANGED <<owner, closed>>
    BY <1>23 DEF CallableReturns, ctxVars
  <2>2. next[r] \in ReqFn
    BY <1>1, <1>4 DEF TypeOK
  <2>3. QED
    BY <1>1, <2>1, <2>2, PlainFrames, AddKeeps
<1>24. CASE UNCHANGED vars
  BY <1>1, <1>24 DEF vars, ctxVars, OneDelete, Deleting
<1>25. QED
  BY <1>10, <1>11, <1>12, <1>13, <1>14, <1>15, <1>16, <1>17, <1>18, <1>19, <1>20,
     <1>22, <1>23, <1>24, <1>26, <1>27, <1>28, <1>29 DEF Next, Step, CtxStep, ReqStep

-----------------------------------------------------------------------------
LEMMA StepInv == IInv /\ [Next]_vars => IInv'
<1> SUFFICES ASSUME IInv, [Next]_vars PROVE IInv'
  OBVIOUS
<1>1. RefCountExact' /\ IsFiniteSet(Live)' /\ refCount' \in Nat
  BY CountStep
<1>2. stack' \in Seq(Frame)
  BY StackType DEF IInv
<1>3. TypeOK'
  BY <1>1, <1>2, RestType DEF IInv
<1>4. OneDelete'
  BY DeleteStep
<1>5. QED
  BY <1>1, <1>3, <1>4 DEF IInv

(* Every variable keeps its type; refCount never becomes negative.         *)
THEOREM ServerTypeOK == Spec => []TypeOK
<1>1. Init => IInv
  BY InitInv
<1>2. IInv /\ [Next]_vars => IInv'
  BY StepInv
<1>3. IInv => TypeOK
  BY DEF IInv
<1>4. QED
  BY <1>1, <1>2, <1>3, PTL DEF Spec

(* The reference count is exact on every path through the handlers, for    *)
(* any number of requests and whatever the io completes synchronously.     *)
THEOREM ServerRefCountExact == Spec => []RefCountExact
<1>1. Init => IInv
  BY InitInv
<1>2. IInv /\ [Next]_vars => IInv'
  BY StepInv
<1>3. IInv => RefCountExact
  BY DEF IInv
<1>4. QED
  BY <1>1, <1>2, <1>3, PTL DEF Spec

-----------------------------------------------------------------------------
(* What continues a request, what it is answered, what it releases, and    *)
(* when the context's memory may go.                                       *)

(* The handlers prepareRequest selects, and the rest of freeRef. *)
First == {"call1", "getFunc1", "freeRef1", "freeSlot", "close1", "getInfo1", "poll1"}

Fresh(r) == resp[r] = <<>> /\ ~flip[r] /\ ~due[r]

(* What is true of a request when fn is the next function to run for it.   *)
Phase(r, fn) ==
  /\ fn \in First => /\ Fresh(r)
                     /\ fn = "close1" <=> op[r] = "close"
                     /\ fn = "poll1" <=> op[r] = "poll"
  /\ fn = "call2" => op[r] \notin {"poll", "close"} /\ resp[r] = <<>> /\ ~flip[r]
  /\ fn = "poll2" =>
       op[r] = "poll" /\ ~flip[r] /\ \A k \in 1 .. Len(resp[r]) : ~resp[r][k].flip
  /\ fn \in {"poll3", "poll3Tail"} =>
       /\ op[r] = "poll" /\ resp[r] # <<>>
       /\ flip[r] = rejected[r] /\ Final(r) = rejected[r]
  /\ fn \in {"finish", "finishTail"} =>
       /\ op[r] # "close"
       /\ resp[r] = <<>> <=> op[r] # "poll" /\ sid[r] = Signal
       /\ op[r] = "poll" => Final(r) \/ closed

(* Every request that will go on, on the stack, in a callable or in the    *)
(* io, is in the phase of the function it goes on with.                    *)
InPhase ==
  /\ \A k \in 1 .. Len(stack) : stack[k].fn \in ReqFn => Phase(stack[k].req, stack[k].fn)
  /\ \A r \in running : next[r] \in {"call2", "poll2"} /\ Phase(r, next[r])
  /\ \A r \in SendSet : next[r] \in {"finish", "poll3"} /\ Phase(r, next[r])
  /\ \A r \in Req : rstate[r] = "none" => Fresh(r)

(* The inductive invariant of what requests go through. *)
ReqInv ==
  /\ TypeOK
  /\ OneContinuation
  /\ InPhase
  /\ RepliesCorrect
  /\ ResultsReleased

-----------------------------------------------------------------------------
(* The stack: n new frames take the place of the m uppermost ones.         *)
Over(n, m) ==
  /\ stack' \in Seq(Frame)
  /\ m <= Len(stack)
  /\ Len(stack') = n + Len(stack) - m
  /\ \A k \in n + 1 .. Len(stack') : stack'[k] = stack[k - n + m]

LEMMA StackFrames ==
  ASSUME TypeOK
  PROVE  /\ Len(stack) \in Nat /\ \A k \in 1 .. Len(stack) : stack[k] \in Frame
         /\ stack # <<>> <=> Len(stack) > 0
         /\ \A f \in Frame :
              /\ f.fn \in ReqFn <=> f.req \in Req
              /\ f.fn \in CtxFn <=> f.req = NoReq
              /\ f.fn \in CtxFn <=> f.fn \notin ReqFn
<1>1. stack \in Seq(Frame)
  BY DEF TypeOK
<1>2. \A f \in Frame :
        \/ f.fn \in ReqFn /\ f.fn \notin CtxFn /\ f.req \in Req /\ f.req # NoReq
        \/ f.fn \in CtxFn /\ f.fn \notin ReqFn /\ f.req = NoReq /\ f.req \notin Req
  BY ServerAssumption DEF Frame, ReqFn, StepFn, CtxFn
<1>3. QED
  BY <1>1, <1>2

LEMMA Popped ==
  ASSUME TypeOK, stack # <<>>, stack' = Pop
  PROVE  Over(0, 1)
<1>1. /\ Pop \in Seq(Frame) /\ Len(Pop) = Len(stack) - 1 /\ Len(stack) \in Nat \ {0}
      /\ \A k \in 1 .. Len(stack) - 1 : Pop[k] = stack[k + 1]
  BY PopType DEF TypeOK, Pop
<1>2. QED
  BY <1>1 DEF Over

LEMMA OnePushed ==
  ASSUME TypeOK, stack # <<>>, NEW f \in Frame, stack' = <<f>> \o Pop
  PROVE  Over(1, 1) /\ stack'[1] = f
<1>1. /\ Pop \in Seq(Frame) /\ Len(Pop) = Len(stack) - 1 /\ Len(stack) \in Nat \ {0}
      /\ \A k \in 1 .. Len(stack) - 1 : Pop[k] = stack[k + 1]
  BY PopType DEF TypeOK, Pop
<1>2. /\ stack' \in Seq(Frame) /\ Len(stack') = Len(Pop) + 1 /\ stack'[1] = f
      /\ \A k \in 1 .. Len(Pop) : stack'[k + 1] = Pop[k]
  BY <1>1, PushType
<1>3. ASSUME NEW k \in 2 .. Len(stack') PROVE stack'[k] = stack[k]
  <2>1. k - 1 \in 1 .. Len(Pop)
    BY <1>1, <1>2
  <2>2. stack'[(k - 1) + 1] = Pop[k - 1] /\ Pop[k - 1] = stack[(k - 1) + 1]
    BY <2>1, <1>1, <1>2
  <2>3. QED
    BY <2>2
<1>4. QED
  BY <1>1, <1>2, <1>3 DEF Over

LEMMA TwoPushed ==
  ASSUME TypeOK, stack # <<>>, NEW f \in Frame, NEW g \in Frame, stack' = <<f, g>> \o Pop
  PROVE  Over(2, 1) /\ stack'[1] = f /\ stack'[2] = g
<1>1. /\ Pop \in Seq(Frame) /\ Len(Pop) = Len(stack) - 1 /\ Len(stack) \in Nat \ {0}
      /\ \A k \in 1 .. Len(stack) - 1 : Pop[k] = stack[k + 1]
  BY PopType DEF TypeOK, Pop
<1>2. /\ stack' \in Seq(Frame) /\ Len(stack') = Len(Pop) + 2 /\ stack'[1] = f /\ stack'[2] = g
      /\ \A k \in 1 .. Len(Pop) : stack'[k + 2] = Pop[k]
  BY <1>1, PushTwoType
<1>3. ASSUME NEW k \in 3 .. Len(stack') PROVE stack'[k] = stack[k - 1]
  <2>1. k - 2 \in 1 .. Len(Pop)
    BY <1>1, <1>2
  <2>2. stack'[(k - 2) + 2] = Pop[k - 2] /\ Pop[k - 2] = stack[(k - 2) + 1]
    BY <2>1, <1>1, <1>2
  <2>3. QED
    BY <2>2
<1>4. QED
  BY <1>1, <1>2, <1>3 DEF Over

LEMMA OneAdded ==
  ASSUME TypeOK, NEW f \in Frame, stack' = <<f>> \o stack
  PROVE  Over(1, 0) /\ stack'[1] = f
<1>1. /\ stack' \in Seq(Frame) /\ Len(stack') = Len(stack) + 1 /\ stack'[1] = f
      /\ \A k \in 1 .. Len(stack) : stack'[k + 1] = stack[k]
  BY PushType DEF TypeOK
<1>2. Len(stack) \in Nat
  BY StackFrames
<1>3. ASSUME NEW k \in 2 .. Len(stack') PROVE stack'[k] = stack[k - 1]
  <2>1. k - 1 \in 1 .. Len(stack) /\ (k - 1) + 1 = k
    BY <1>1, <1>2
  <2>2. QED
    BY <1>1, <2>1
<1>4. QED
  BY <1>1, <1>2, <1>3 DEF Over

LEMMA Entered ==
  ASSUME TypeOK, stack = <<>>, NEW f \in Frame, stack' = <<f>>
  PROVE  Over(1, 0) /\ stack'[1] = f
<1>1. stack' \in Seq(Frame) /\ Len(stack') = 1 /\ stack'[1] = f /\ Len(stack) = 0
  OBVIOUS
<1>2. QED
  BY <1>1 DEF Over

(* A frame of the new stack is one of the n or lies where it lay.          *)
LEMMA OverFrames ==
  ASSUME TypeOK, NEW n \in Nat, NEW m \in {0, 1}, Over(n, m), NEW k \in 1 .. Len(stack')
  PROVE  \/ k \in 1 .. n
         \/ /\ k > n /\ k - n + m \in m + 1 .. Len(stack)
            /\ stack'[k] = stack[k - n + m]
BY StackFrames DEF Over

-----------------------------------------------------------------------------
(* Requests. *)

(* What RepliesCorrect says of one request. *)
Replied(r) ==
  /\ \A k \in 1 .. Len(resp[r]) :
       resp[r][k].sid = sid[r] /\ (resp[r][k].flip => k = Len(resp[r]))
  /\ op[r] # "poll" => Len(resp[r]) <= 1
  /\ op[r] = "close" => resp[r] = <<>>
  /\ rstate[r] = "freed" =>
       /\ resp[r] = <<>> <=> op[r] # "poll" /\ sid[r] = Signal
       /\ op[r] = "poll" => Final(r) \/ closed

(* What the invariant says of a request that is not on the stack. *)
ReqOK(r) ==
  /\ r \in running =>
       next[r] \in {"call2", "poll2"} /\ Phase(r, next[r]) /\ r \in Live /\ r \notin SendSet
  /\ r \in SendSet => next[r] \in {"finish", "poll3"} /\ Phase(r, next[r]) /\ r \in Live
  /\ rstate[r] = "none" => Fresh(r)
  /\ Replied(r)
  /\ due[r] => onFinish[r] /\ rstate[r] # "freed"

SameReq(r) ==
  /\ op'[r] = op[r] /\ sid'[r] = sid[r] /\ flip'[r] = flip[r] /\ rejected'[r] = rejected[r]
  /\ onFinish'[r] = onFinish[r] /\ due'[r] = due[r] /\ next'[r] = next[r] /\ resp'[r] = resp[r]
  /\ rstate'[r] = rstate[r]
  /\ r \in running' <=> r \in running
  /\ r \in SendSet' <=> r \in SendSet

LEMMA PhaseKept ==
  ASSUME NEW r, NEW fn, SameReq(r), closed => closed', Phase(r, fn)
  PROVE  Phase(r, fn)'
BY DEF SameReq, Phase, Fresh, Final

LEMMA OneReq ==
  ASSUME ReqInv, NEW r \in Req
  PROVE  ReqOK(r)
BY DEF ReqInv, ReqOK, OneContinuation, InPhase, RepliesCorrect, Replied, ResultsReleased

LEMMA ReqKept ==
  ASSUME NEW r \in Req, ReqOK(r), SameReq(r), closed => closed'
  PROVE  ReqOK(r)'
<1>1. \A fn : Phase(r, fn) => Phase(r, fn)'
  BY PhaseKept
<1>2. Replied(r)'
  BY DEF ReqOK, Replied, SameReq, Final
<1>3. r \in Live' <=> r \in Live
  BY DEF SameReq, Live
<1>4. Fresh(r)' <=> Fresh(r)
  BY DEF SameReq, Fresh
<1>5. (r \in running)' <=> r \in running
  BY DEF SameReq
<1>6. (Phase(r, next[r]) => Phase(r, next[r])') /\ next'[r] = next[r]
  <2>1. next'[r] = next[r]
    BY DEF SameReq
  <2> DEFINE fn == next[r]
  <2>2. Phase(r, next[r]) => Phase(r, next[r])'
    BY <2>1 DEF SameReq, Phase, Fresh, Final
  <2>3. QED
    BY <2>1, <2>2
<1>7. QED
  BY <1>2, <1>3, <1>4, <1>5, <1>6 DEF ReqOK, SameReq

(* A step of one request, or of none, keeps the invariant of all of them,  *)
(* when it keeps that of the one.                                          *)
LEMMA KeepReq ==
  ASSUME ReqInv, TypeOK', NEW n \in Nat, NEW m \in {0, 1}, Over(n, m),
         NEW r \in Req \cup {NoReq},
         \A k \in m + 1 .. Len(stack) : stack[k].fn \in ReqFn => stack[k].req # r,
         \A k \in 1 .. n : stack'[k].fn \in ReqFn =>
           /\ stack'[k].req = r
           /\ \A fn \in ReqFn : stack'[k].fn = fn => Phase(r, fn)'
           /\ r \in Live' /\ r \notin running' /\ r \notin SendSet'
           /\ \A j \in 1 .. n : stack'[j].fn \in ReqFn => j = k,
         \A x \in Req \ {r} : SameReq(x),
         closed => closed',
         r \in Req => ReqOK(r)',
         \A j, k \in 1 .. Len(sendQ') : j # k => sendQ'[j] # sendQ'[k]
  PROVE  ReqInv'
<1>1. TypeOK /\ OneContinuation /\ InPhase
  BY DEF ReqInv
<1>2. ASSUME NEW x \in Req PROVE ReqOK(x)'
  <2>1. CASE x = r
    BY <2>1
  <2>2. CASE x # r
    BY <2>2, OneReq, ReqKept
  <2>3. QED
    BY <2>1, <2>2
<1>3. running' \subseteq Req /\ SendSet' \subseteq Req
  <2>1. running' \subseteq Req /\ sendQ' \in Seq(Req)
    BY DEF TypeOK
  <2>2. \A k \in 1 .. Len(sendQ') : sendQ'[k] \in Req
    BY <2>1
  <2>3. QED
    BY <2>1, <2>2 DEF SendSet
<1>4. ASSUME NEW k \in 1 .. Len(stack'), stack'[k].fn \in ReqFn
      PROVE  \/ k \in 1 .. n /\ stack'[k].req = r
             \/ \E i \in m + 1 .. Len(stack) :
                  k > n /\ k = i + n - m /\ stack'[k] = stack[i] /\ stack[i].req # r
  <2>1. CASE k \in 1 .. n
    BY <1>4, <2>1
  <2>2. CASE k > n /\ k - n + m \in m + 1 .. Len(stack) /\ stack'[k] = stack[k - n + m]
    BY <1>1, <1>4, <2>2, StackFrames
  <2>3. QED
    BY <1>1, <2>1, <2>2, OverFrames
<1>5. ASSUME NEW k \in 1 .. Len(stack'), stack'[k].fn \in ReqFn
      PROVE  /\ stack'[k].req \in Live' /\ stack'[k].req \notin running' \cup SendSet'
             /\ Phase(stack[k].req, stack[k].fn)'
  <2>1. CASE k \in 1 .. n /\ stack'[k].req = r
    BY <1>5, <2>1
  <2>2. ASSUME NEW i \in m + 1 .. Len(stack), k > n, stack'[k] = stack[i], stack[i].req # r
        PROVE  /\ stack'[k].req \in Live' /\ stack'[k].req \notin running' \cup SendSet'
               /\ Phase(stack[k].req, stack[k].fn)'
    <3>1. i \in 1 .. Len(stack) /\ stack[i].fn \in ReqFn
      BY <1>5, <2>2
    <3>2. /\ stack[i].req \in Req /\ stack[i].req \in Live
          /\ stack[i].req \notin running /\ stack[i].req \notin SendSet
      BY <1>1, <3>1 DEF OneContinuation, Live
    <3>3. Phase(stack[i].req, stack[i].fn)
      BY <1>1, <3>1 DEF InPhase
    <3> DEFINE x == stack[i].req
               fn == stack[i].fn
    <3>4. SameReq(x) /\ x \in Req
      BY <2>2, <3>2
    <3> HIDE DEF x, fn
    <3>5. x \in Live' /\ x \notin running' /\ x \notin SendSet'
      BY <3>2, <3>4 DEF SameReq, Live, x
    <3>6. op'[x] = op[x] /\ sid'[x] = sid[x] /\ flip'[x] = flip[x] /\ rejected'[x] = rejected[x]
          /\ due'[x] = due[x] /\ resp'[x] = resp[x]
      BY <3>4 DEF SameReq
    <3>7. stack'[k].req = x /\ stack'[k].fn = fn
      BY <2>2 DEF x, fn
    <3>8. Phase(x, fn)
      BY <3>3 DEF x, fn
    <3>9. Phase(stack[k].req, stack[k].fn)'
      BY <3>6, <3>7, <3>8 DEF Phase, Fresh, Final
    <3>10. QED
      BY <3>5, <3>7, <3>9
  <2>3. QED
    BY <1>4, <1>5, <2>1, <2>2
<1>6. ASSUME NEW k \in 1 .. Len(stack'), stack'[k].fn \in ReqFn,
             NEW j \in 1 .. Len(stack'), stack'[j].req = stack'[k].req
      PROVE  j = k
  <2>1. stack'[j].fn \in ReqFn
    <3>1. stack'[j] \in Frame /\ stack'[k] \in Frame
      BY DEF Over
    <3>2. QED
      BY <1>1, <1>6, <3>1, StackFrames
  <2>2. CASE k \in 1 .. n /\ j \in 1 .. n
    BY <1>6, <2>1, <2>2
  <2>3. CASE k > n /\ j > n
    <3>1. PICK i \in m + 1 .. Len(stack) : k = i + n - m /\ stack'[k] = stack[i]
      BY <1>4, <1>6, <2>3
    <3>2. PICK h \in m + 1 .. Len(stack) : j = h + n - m /\ stack'[j] = stack[h]
      BY <1>4, <2>1, <2>3
    <3>3. i \in 1 .. Len(stack) /\ h \in 1 .. Len(stack) /\ stack[h].req = stack[i].req
          /\ stack[i].fn \in ReqFn
      BY <1>6, <3>1, <3>2
    <3>4. h = i
      BY <1>1, <3>3 DEF OneContinuation
    <3>5. QED
      BY <3>1, <3>2, <3>4
  <2>4. CASE k \in 1 .. n /\ j > n
    <3>1. stack'[k].req = r /\ stack'[j].req # r
      BY <1>4, <1>6, <2>1, <2>4
    <3>2. QED
      BY <1>6, <3>1
  <2>5. CASE k > n /\ j \in 1 .. n
    <3>1. stack'[k].req # r /\ stack'[j].req = r
      BY <1>4, <1>6, <2>1, <2>5
    <3>2. QED
      BY <1>6, <3>1
  <2>6. QED
    BY <2>2, <2>3, <2>4, <2>5
<1>7. OneContinuation'
  <2>1. running' \cup SendSet' \subseteq Live' /\ running' \cap SendSet' = {}
    BY <1>2, <1>3 DEF ReqOK
  <2>2. QED
    BY <1>5, <1>6, <2>1 DEF OneContinuation
<1>8. InPhase'
  BY <1>2, <1>3, <1>5 DEF InPhase, ReqOK
<1>9. RepliesCorrect' /\ ResultsReleased'
  BY <1>2 DEF ReqOK, Replied, RepliesCorrect, ResultsReleased
<1>10. QED
  BY <1>7, <1>8, <1>9 DEF ReqInv

LEMMA NoneChanges ==
  ASSUME UNCHANGED <<op, sid, flip, rejected, onFinish, due, next, resp, rstate, running, sendQ>>
  PROVE  \A x : SameReq(x)
BY DEF SameReq, SendSet

(* A step that changes no request: its new frames are the context's.       *)
LEMMA CtxOnly ==
  ASSUME ReqInv, TypeOK', NEW n \in Nat, NEW m \in {0, 1}, Over(n, m),
         \A k \in 1 .. n : stack'[k].fn \notin ReqFn,
         UNCHANGED <<op, sid, flip, rejected, onFinish, due, next, resp, rstate, running, sendQ>>,
         closed => closed'
  PROVE  ReqInv'
<1>1. \A k \in m + 1 .. Len(stack) : stack[k].fn \in ReqFn => stack[k].req # NoReq
  <2>1. \A k \in 1 .. Len(stack) : stack[k].fn \in ReqFn => stack[k].req # NoReq
    BY StackFrames, ServerAssumption DEF ReqInv
  <2>2. \A k \in m + 1 .. Len(stack) : k \in 1 .. Len(stack)
    BY StackFrames DEF ReqInv
  <2>3. QED
    BY <2>1, <2>2
<1>2. \A x : SameReq(x)
  BY NoneChanges
<1>3. \A j, k \in 1 .. Len(sendQ') : j # k => sendQ'[j] # sendQ'[k]
  BY DEF ReqInv, OneContinuation
<1>4. NoReq \notin Req
  BY ServerAssumption
<1>5. QED
  BY <1>1, <1>2, <1>3, <1>4, KeepReq

(* What the invariant says of the request whose function runs.             *)
LEMMA TopReq ==
  ASSUME ReqInv, NEW fn \in ReqFn, NEW r \in Req, At(fn), stack[1].req = r
  PROVE  /\ stack # <<>> /\ Len(stack) \in Nat /\ 1 \in 1 .. Len(stack)
         /\ r \in Live /\ r \notin running /\ r \notin SendSet
         /\ Phase(r, fn) /\ ReqOK(r)
         /\ \A k \in 1 + 1 .. Len(stack) : stack[k].fn \in ReqFn => stack[k].req # r
<1>1. stack # <<>> /\ stack[1].fn = fn
  BY DEF At
<1>2. Len(stack) \in Nat /\ 1 \in 1 .. Len(stack)
  BY <1>1, StackFrames DEF ReqInv
<1>3. /\ r \in Live \ (running \cup SendSet)
      /\ \A j \in 1 .. Len(stack) : j # 1 => stack[j].req # r
  BY <1>1, <1>2 DEF ReqInv, OneContinuation
<1>4. Phase(r, fn)
  BY <1>1, <1>2 DEF ReqInv, InPhase
<1>5. \A k \in 2 .. Len(stack) : k \in 1 .. Len(stack) /\ k # 1
  BY <1>2
<1>6. QED
  BY <1>1, <1>2, <1>3, <1>4, <1>5, OneReq

(* A step of the request r that goes on to another function of it at once  *)
(* and changes no request.                                                 *)
LEMMA GoesOn ==
  ASSUME ReqInv, TypeOK', NEW r \in Req, NEW fn \in ReqFn, At(fn), stack[1].req = r,
         NEW to \in ReqFn,
         \/ stack' = <<F(to, r)>> \o Pop
         \/ \E cf \in CtxFn : stack' = <<C(cf), F(to, r)>> \o Pop,
         Phase(r, to)',
         UNCHANGED <<op, sid, flip, rejected, onFinish, due, next, resp, rstate, running, sendQ>>,
         closed => closed'
  PROVE  ReqInv'
<1>1. /\ stack # <<>> /\ r \in Live /\ r \notin running /\ r \notin SendSet /\ ReqOK(r)
      /\ \A k \in 1 + 1 .. Len(stack) : stack[k].fn \in ReqFn => stack[k].req # r
  BY TopReq
<1>2. TypeOK
  BY DEF ReqInv
<1>3. F(to, r) \in Frame /\ \A cf \in CtxFn : C(cf) \in Frame /\ C(cf).fn \notin ReqFn
  BY FrameType DEF CtxFn, C, ReqFn, StepFn
<1>4. F(to, r).fn = to /\ F(to, r).req = r
  BY DEF F
<1>5. \A x : SameReq(x)
  BY NoneChanges
<1>6. r \in Live' /\ r \notin running' /\ r \notin SendSet' /\ ReqOK(r)'
  BY <1>1, <1>5, ReqKept DEF SameReq, Live
<1>7. \A j, k \in 1 .. Len(sendQ') : j # k => sendQ'[j] # sendQ'[k]
  BY DEF ReqInv, OneContinuation
<1>8. CASE stack' = <<F(to, r)>> \o Pop
  <2>1. Over(1, 1) /\ stack'[1] = F(to, r)
    BY <1>1, <1>2, <1>3, <1>8, OnePushed
  <2>2. \A k \in 1 .. 1 : stack'[k].fn \in ReqFn =>
           /\ stack'[k].req = r
           /\ \A f \in ReqFn : stack'[k].fn = f => Phase(r, f)'
           /\ r \in Live' /\ r \notin running' /\ r \notin SendSet'
           /\ \A j \in 1 .. 1 : stack'[j].fn \in ReqFn => j = k
    BY <2>1, <1>4, <1>6
  <2>3. QED
    BY <1>1, <1>5, <1>6, <1>7, <2>1, <2>2, KeepReq
<1>9. ASSUME NEW cf \in CtxFn, stack' = <<C(cf), F(to, r)>> \o Pop PROVE ReqInv'
  <2>1. Over(2, 1) /\ stack'[1] = C(cf) /\ stack'[2] = F(to, r)
    BY <1>1, <1>2, <1>3, <1>9, TwoPushed
  <2>2. \A k \in 1 .. 2 : stack'[k].fn \in ReqFn =>
           /\ stack'[k].req = r
           /\ \A f \in ReqFn : stack'[k].fn = f => Phase(r, f)'
           /\ r \in Live' /\ r \notin running' /\ r \notin SendSet'
           /\ \A j \in 1 .. 2 : stack'[j].fn \in ReqFn => j = k
    <3>1. \A k \in 1 .. 2 : stack'[k].fn \in ReqFn => k = 2
      BY <2>1, <1>3
    <3>2. QED
      BY <2>1, <3>1, <1>4, <1>6
  <2>3. QED
    BY <1>1, <1>5, <1>6, <1>7, <2>1, <2>2, KeepReq
<1>10. QED
  BY <1>8, <1>9

(* The queue of the io. *)
LEMMA SendLast ==
  ASSUME sendQ \in Seq(Req), NEW r \in Req, r \notin SendSet, sendQ' = Append(sendQ, r),
         \A j, k \in 1 .. Len(sendQ) : j # k => sendQ[j] # sendQ[k]
  PROVE  /\ SendSet' = SendSet \cup {r}
         /\ \A j, k \in 1 .. Len(sendQ') : j # k => sendQ'[j] # sendQ'[k]
<1>1. /\ Len(sendQ) \in Nat /\ Len(sendQ') = Len(sendQ) + 1 /\ sendQ'[Len(sendQ) + 1] = r
      /\ \A k \in 1 .. Len(sendQ) : sendQ'[k] = sendQ[k]
  OBVIOUS
<1>2. \A k \in 1 .. Len(sendQ') : k \in 1 .. Len(sendQ) \/ k = Len(sendQ) + 1
  BY <1>1
<1>3. \A k \in 1 .. Len(sendQ) : sendQ[k] # r
  BY DEF SendSet
<1>4. \A j, k \in 1 .. Len(sendQ') : j # k => sendQ'[j] # sendQ'[k]
  BY <1>1, <1>2, <1>3
<1>5. SendSet' = {sendQ'[k] : k \in 1 .. Len(sendQ')}
  BY DEF SendSet
<1>6. \A k \in 1 .. Len(sendQ) : k \in 1 .. Len(sendQ')
  BY <1>1
<1>7. Len(sendQ) + 1 \in 1 .. Len(sendQ')
  BY <1>1
<1>8. ASSUME NEW x PROVE x \in SendSet' <=> x \in SendSet \cup {r}
  BY <1>1, <1>2, <1>5, <1>6, <1>7 DEF SendSet
<1>9. QED
  BY <1>4, <1>8

LEMMA SendFirst ==
  ASSUME sendQ \in Seq(Req), sendQ # <<>>, sendQ' = Tail(sendQ),
         \A j, k \in 1 .. Len(sendQ) : j # k => sendQ[j] # sendQ[k]
  PROVE  /\ sendQ[1] \in SendSet /\ sendQ[1] \in Req
         /\ SendSet' = SendSet \ {sendQ[1]}
         /\ \A j, k \in 1 .. Len(sendQ') : j # k => sendQ'[j] # sendQ'[k]
<1>1. /\ Len(sendQ) \in Nat \ {0} /\ Len(sendQ') = Len(sendQ) - 1 /\ sendQ[1] \in Req
      /\ \A k \in 1 .. Len(sendQ) - 1 : sendQ'[k] = sendQ[k + 1]
  OBVIOUS
<1>2. \A k \in 1 .. Len(sendQ') :
        k + 1 \in 1 .. Len(sendQ) /\ k + 1 # 1 /\ sendQ'[k] = sendQ[k + 1]
  BY <1>1
<1>3. \A k \in 1 .. Len(sendQ) : k = 1 \/ (k - 1 \in 1 .. Len(sendQ') /\ sendQ'[k - 1] = sendQ[k])
  BY <1>1
<1>4. ASSUME NEW j \in 1 .. Len(sendQ'), NEW k \in 1 .. Len(sendQ'), j # k
      PROVE  sendQ'[j] # sendQ'[k]
  <2>1. j + 1 # k + 1
    BY <1>4
  <2>2. QED
    BY <1>2, <2>1
<1>5. SendSet' = {sendQ'[k] : k \in 1 .. Len(sendQ')}
  BY DEF SendSet
<1>6. 1 \in 1 .. Len(sendQ)
  BY <1>1
<1>7. \A k \in 1 .. Len(sendQ') : sendQ'[k] # sendQ[1]
  BY <1>2, <1>6
<1>8. ASSUME NEW x PROVE x \in SendSet' <=> x \in SendSet \ {sendQ[1]}
  <2>1. ASSUME x \in SendSet' PROVE x \in SendSet \ {sendQ[1]}
    <3>1. PICK k \in 1 .. Len(sendQ') : x = sendQ'[k]
      BY <1>5, <2>1
    <3>2. QED
      BY <1>2, <1>7, <3>1 DEF SendSet
  <2>2. ASSUME x \in SendSet, x # sendQ[1] PROVE x \in SendSet'
    <3>1. PICK k \in 1 .. Len(sendQ) : x = sendQ[k]
      BY <2>2 DEF SendSet
    <3>2. k - 1 \in 1 .. Len(sendQ') /\ sendQ'[k - 1] = x
      BY <1>3, <2>2, <3>1
    <3>3. QED
      BY <1>5, <3>2
  <2>3. QED
    BY <2>1, <2>2
<1>9. QED
  BY <1>1, <1>4, <1>6, <1>8 DEF SendSet

(* Calling: the callable keeps the request. *)
LEMMA InvokeKeeps ==
  ASSUME ReqInv, TypeOK', NEW r \in Req, NEW fn \in {"call1", "poll1", "poll3Tail"},
         At(fn), stack[1].req = r,
         NEW cont \in {"call2", "poll2"}, cont = (IF fn = "call1" THEN "call2" ELSE "poll2"),
         fn = "poll3Tail" => ~rejected[r],
         Invoke(r, cont, due[r] /\ (fn = "poll3Tail" => ~onFinish[r])),
         UNCHANGED <<ctxVars, poolVars, ioVars, headVars, flip, resp>>
  PROVE  ReqInv'
<1>1. {"call1", "poll1", "poll3Tail", "call2", "poll2"} \subseteq ReqFn
  BY DEF ReqFn, StepFn
<1>2. /\ stack # <<>> /\ Len(stack) \in Nat /\ 1 \in 1 .. Len(stack)
      /\ r \in Live /\ r \notin running /\ r \notin SendSet /\ Phase(r, fn) /\ ReqOK(r)
      /\ \A k \in 1 + 1 .. Len(stack) : stack[k].fn \in ReqFn => stack[k].req # r
  BY <1>1, TopReq
<1>3. TypeOK
  BY DEF ReqInv
<1>4. \A x \in Req \ {r} : SameReq(x)
  BY <1>3 DEF SameReq, Invoke, TypeOK, ioVars, headVars, SendSet
<1>5. \A j, k \in 1 .. Len(sendQ') : j # k => sendQ'[j] # sendQ'[k]
  BY DEF ReqInv, OneContinuation, ioVars
<1>6. /\ closed' = closed /\ SendSet' = SendSet /\ op' = op /\ sid' = sid /\ flip' = flip
      /\ resp' = resp /\ rstate' = rstate
  BY DEF ctxVars, ioVars, headVars, SendSet
<1>7. next'[r] = cont
  BY <1>3 DEF Invoke, TypeOK
<1>8. Phase(r, cont)'
  <2>1. CASE fn = "call1"
    BY <1>2, <1>6, <2>1 DEF Phase, Fresh, First
  <2>2. CASE fn = "poll1"
    <3>1. resp'[r] = <<>> /\ op'[r] = "poll" /\ ~flip'[r]
      BY <1>2, <1>6, <2>2 DEF Phase, Fresh, First
    <3>2. \A k \in 1 .. Len(resp'[r]) : ~resp'[r][k].flip
      BY <3>1
    <3>3. QED
      BY <2>2, <3>1, <3>2 DEF Phase, First
  <2>3. CASE fn = "poll3Tail"
    <3>1. op'[r] = "poll" /\ ~flip'[r] /\ ~Final(r)
      BY <1>2, <1>3, <1>6, <2>3 DEF Phase
    <3>2. \A k \in 1 .. Len(resp[r]) : ~resp[r][k].flip
      BY <1>2, <3>1 DEF ReqOK, Replied, Final
    <3>3. QED
      BY <1>6, <2>3, <3>1, <3>2 DEF Phase, First
  <2>4. QED
    BY <2>1, <2>2, <2>3
<1>9. due'[r] => onFinish'[r]
  <2>1. ~(due[r] /\ (fn = "poll3Tail" => ~onFinish[r]))
    BY <1>2 DEF Phase, Fresh, First, ReqOK
  <2>2. PICK h \in BOOLEAN :
          /\ onFinish' = [onFinish EXCEPT ![r] = h]
          /\ due' = [due EXCEPT ![r] = h \/ (due[r] /\ (fn = "poll3Tail" => ~onFinish[r]))]
    BY DEF Invoke
  <2>3. QED
    BY <1>3, <2>1, <2>2 DEF TypeOK
<1>10. Replied(r)'
  BY <1>2, <1>6 DEF ReqOK, Replied, Final
<1>11. r \in Live'
  BY <1>2, <1>6 DEF Live
<1>12. running' = running \cup {r} /\ stack' = <<C("foreign")>> \o Pop
  BY DEF Invoke
<1>13. C("foreign") \in Frame /\ C("foreign").fn \notin ReqFn
  BY FrameType DEF CtxFn, C, ReqFn, StepFn
<1>14. Over(1, 1) /\ stack'[1] = C("foreign")
  BY <1>2, <1>3, <1>12, <1>13, OnePushed
<1>15. \A k \in 1 .. 1 : stack'[k].fn \notin ReqFn
  BY <1>13, <1>14
<1>16. ReqOK(r)'
  BY <1>2, <1>6, <1>7, <1>8, <1>9, <1>10, <1>11 DEF ReqOK, Live
<1>17. QED
  BY <1>2, <1>4, <1>5, <1>6, <1>14, <1>15, <1>16, KeepReq

LEMMA AppendOne ==
  ASSUME NEW T, NEW q \in Seq(T), NEW a \in T
  PROVE  /\ Len(q) \in Nat /\ Len(Append(q, a)) = Len(q) + 1
         /\ Append(q, a)[Len(q) + 1] = a /\ Append(q, a) # <<>>
         /\ \A k \in 1 .. Len(q) : Append(q, a)[k] = q[k]
OBVIOUS

(* Answering: the answer goes to the io; a closed context answers nothing  *)
(* and forgets the request.                                                *)
LEMMA AnswerKeeps ==
  ASSUME ReqInv, TypeOK', NEW r \in Req, NEW fn \in {"call2", "poll2"},
         At(fn), stack[1].req = r, fn = "call2" => sid[r] # Signal,
         NEW cont \in {"finish", "poll3"}, cont = (IF fn = "call2" THEN "finish" ELSE "poll3"),
         WriteResult(r, cont),
         UNCHANGED <<ctxVars, poolVars, receiving, recvErr, headVars, rejected, onFinish,
                     running, due>>
  PROVE  ReqInv'
<1>1. {"call2", "poll2", "finish", "poll3"} \subseteq ReqFn
  BY DEF ReqFn, StepFn
<1>2. /\ stack # <<>> /\ Len(stack) \in Nat /\ 1 \in 1 .. Len(stack)
      /\ r \in Live /\ r \notin running /\ r \notin SendSet /\ Phase(r, fn) /\ ReqOK(r)
      /\ \A k \in 1 + 1 .. Len(stack) : stack[k].fn \in ReqFn => stack[k].req # r
  BY <1>1, TopReq
<1>3. TypeOK /\ \A j, k \in 1 .. Len(sendQ) : j # k => sendQ[j] # sendQ[k]
  BY DEF ReqInv, OneContinuation
<1>4. /\ closed' = closed /\ op' = op /\ sid' = sid /\ rejected' = rejected /\ rstate' = rstate
      /\ running' = running /\ due' = due /\ onFinish' = onFinish
  BY DEF ctxVars, headVars
<1>5. /\ ~flip[r] /\ op[r] # "close" /\ (fn = "call2" => resp[r] = <<>> /\ op[r] # "poll")
      /\ (fn = "poll2" => op[r] = "poll" /\ \A k \in 1 .. Len(resp[r]) : ~resp[r][k].flip)
  BY <1>2 DEF Phase
<1>6. next'[r] = cont /\ flip'[r] = rejected[r]
  BY <1>3, <1>5 DEF WriteResult, TypeOK
<1>7. r \in Live'
  BY <1>2, <1>4 DEF Live
<1>8. CASE closed
  <2>1. stack' = Pop /\ resp' = resp /\ sendQ' = sendQ
    BY <1>8 DEF WriteResult
  <2>2. Over(0, 1)
    BY <1>2, <1>3, <2>1, Popped
  <2>3. SendSet' = SendSet
    BY <2>1 DEF SendSet
  <2>4. \A x \in Req \ {r} : SameReq(x)
    BY <1>3, <1>4, <2>1, <2>3 DEF SameReq, WriteResult, TypeOK
  <2>5. Replied(r)'
    BY <1>2, <1>4, <2>1 DEF ReqOK, Replied, Final
  <2>6. ReqOK(r)'
    BY <1>2, <1>4, <2>3, <2>5 DEF ReqOK, Live
  <2>7. QED
    BY <1>2, <1>3, <1>4, <2>1, <2>2, <2>4, <2>6, KeepReq
<1>9. CASE ~closed
  <2> DEFINE T == [sid : Sid \cup {Signal}, flip : BOOLEAN]
             a == [sid |-> sid[r], flip |-> rejected[r]]
             q == resp[r]
  <2>1. q \in Seq(T) /\ a \in T /\ resp \in [Req -> Seq(T)]
    BY <1>3 DEF TypeOK
  <2>2. resp' = [resp EXCEPT ![r] = Append(q, a)]
    <3>1. (IF rejected[r] THEN ~flip[r] ELSE flip[r]) = rejected[r]
      BY <1>3, <1>5 DEF TypeOK
    <3>2. QED
      BY <1>9, <3>1, Zenon DEF WriteResult
  <2>3. a.sid = sid[r] /\ a.flip = rejected[r]
    OBVIOUS
  <2> HIDE DEF T, a, q
  <2>4. resp'[r] = Append(q, a)
    BY <2>1, <2>2
  <2>5. /\ Len(q) \in Nat /\ Len(resp'[r]) = Len(q) + 1 /\ resp'[r][Len(q) + 1] = a
        /\ \A k \in 1 .. Len(q) : resp'[r][k] = q[k]
        /\ resp'[r] # <<>>
    BY <2>1, <2>4, AppendOne
  <2>6. Final(r)' = rejected[r]
    BY <2>3, <2>5 DEF Final
  <2>7. Replied(r)'
    <3>1. \A k \in 1 .. Len(q) : q[k].sid = sid[r] /\ ~q[k].flip
      BY <1>2, <1>5 DEF ReqOK, Replied, q
    <3>2. \A k \in 1 .. Len(resp'[r]) :
            resp'[r][k].sid = sid[r] /\ (resp'[r][k].flip => k = Len(resp'[r]))
      <4>1. \A k \in 1 .. Len(resp'[r]) : k \in 1 .. Len(q) \/ k = Len(q) + 1
        BY <2>5
      <4>2. QED
        BY <2>3, <2>5, <3>1, <4>1
    <3>3. op[r] # "poll" => Len(resp'[r]) <= 1
      <4>1. op[r] # "poll" => Len(q) = 0
        BY <1>5 DEF q
      <4>2. QED
        BY <2>5, <4>1
    <3>4. rstate'[r] # "freed"
      BY <1>7 DEF Live
    <3>5. QED
      BY <1>4, <1>5, <3>2, <3>3, <3>4 DEF Replied
  <2>8. Phase(r, cont)'
    BY <1>1, <1>4, <1>5, <1>6, <2>5, <2>6 DEF Phase, First
  <2>9. sendQ' = Append(sendQ, r) /\ stack' = <<C("foreign")>> \o Pop
    BY <1>9 DEF WriteResult
  <2>10. QED
    <3>0. C("foreign") \in Frame /\ C("foreign").fn \notin ReqFn
      BY FrameType DEF CtxFn, C, ReqFn, StepFn
    <3>1. Over(1, 1) /\ stack'[1] = C("foreign")
      BY <1>2, <1>3, <2>9, <3>0, OnePushed
    <3>6. \A k \in 1 .. 1 : stack'[k].fn \notin ReqFn
      BY <3>0, <3>1
    <3>2. /\ SendSet' = SendSet \cup {r}
          /\ \A j, k \in 1 .. Len(sendQ') : j # k => sendQ'[j] # sendQ'[k]
      BY <1>2, <1>3, <2>9, SendLast DEF TypeOK
    <3>3. \A x \in Req \ {r} : SameReq(x)
      BY <1>3, <1>4, <2>1, <2>2, <3>2 DEF SameReq, WriteResult, TypeOK
    <3>4. ReqOK(r)'
      <4>1. r \notin running' /\ r \in SendSet' /\ rstate'[r] = "live"
        BY <1>2, <1>4, <3>2 DEF Live
      <4>2. due'[r] => onFinish'[r] /\ rstate'[r] # "freed"
        BY <1>2, <1>4 DEF ReqOK
      <4>3. Phase(r, next[r])'
        BY <1>6, <2>8 DEF Phase, Fresh, Final
      <4>4. QED
        BY <1>6, <1>7, <2>7, <4>1, <4>2, <4>3 DEF ReqOK
    <3>5. QED
      BY <1>2, <1>4, <3>1, <3>2, <3>3, <3>4, <3>6, KeepReq
<1>10. QED
  BY <1>8, <1>9

LEMMA ReqInvStep ==
  ASSUME IInv, ReqInv, [Next]_vars
  PROVE  ReqInv'
<1>1. TypeOK' /\ TypeOK
  BY StepInv DEF IInv
<1>2. /\ \A fn \in CtxFn : C(fn) \in Frame /\ C(fn).fn = fn /\ C(fn).fn \notin ReqFn
      /\ \A fn \in ReqFn, r \in Req : F(fn, r) \in Frame
      /\ \A fn, r : F(fn, r).fn = fn /\ F(fn, r).req = r
  BY FrameType DEF CtxFn, ReqFn, StepFn, C, F
<1>3. {"step1", "step2", "close", "closeRefs", "ioClose", "onClosed", "delete", "deleteTail",
        "foreign"} \subseteq CtxFn
  BY DEF CtxFn
<1>4. /\ First \subseteq ReqFn
      /\ {"call2", "poll2", "poll3", "finish", "finishTail", "poll3Tail", "freeRef1", "freeSlot"}
           \subseteq ReqFn
      /\ StepFn \subseteq ReqFn
  BY DEF First, ReqFn, StepFn
<1>5. \A j, k \in 1 .. Len(sendQ) : j # k => sendQ[j] # sendQ[k]
  BY DEF ReqInv, OneContinuation
(* Steps of the context. *)
<1>6. ASSUME stack # <<>>, closed => closed',
             UNCHANGED <<op, sid, flip, rejected, onFinish, due, next, resp, rstate, running, sendQ>>,
             \/ stack' = Pop
             \/ \E fn \in CtxFn : stack' = <<C(fn)>> \o Pop
             \/ \E fn, gn \in CtxFn : stack' = <<C(fn), C(gn)>> \o Pop
      PROVE  ReqInv'
  <2>1. CASE stack' = Pop
    <3>1. Over(0, 1)
      BY <1>1, <1>6, <2>1, Popped
    <3>2. QED
      BY <1>1, <1>6, <3>1, CtxOnly
  <2>2. ASSUME NEW fn \in CtxFn, stack' = <<C(fn)>> \o Pop PROVE ReqInv'
    <3>1. Over(1, 1) /\ stack'[1] = C(fn)
      BY <1>1, <1>2, <1>6, <2>2, OnePushed
    <3>2. \A k \in 1 .. 1 : stack'[k].fn \notin ReqFn
      BY <1>2, <3>1
    <3>3. QED
      BY <1>1, <1>6, <3>1, <3>2, CtxOnly
  <2>3. ASSUME NEW fn \in CtxFn, NEW gn \in CtxFn, stack' = <<C(fn), C(gn)>> \o Pop PROVE ReqInv'
    <3>1. Over(2, 1) /\ stack'[1] = C(fn) /\ stack'[2] = C(gn)
      BY <1>1, <1>2, <1>6, <2>3, TwoPushed
    <3>2. \A k \in 1 .. 2 : stack'[k].fn \notin ReqFn
      BY <1>2, <3>1
    <3>3. QED
      BY <1>1, <1>6, <3>1, <3>2, CtxOnly
  <2>4. QED
    BY <1>6, <2>1, <2>2, <2>3
<1>7. CASE Step1 \/ Step2End \/ Delete \/ ServerClose \/ DeleteTail
  <2>1. stack # <<>> /\ (closed => closed')
        /\ UNCHANGED <<op, sid, flip, rejected, onFinish, due, next, resp, rstate, running, sendQ>>
    BY <1>7 DEF Step1, Step2End, Delete, ServerClose, DeleteTail, At, ctxVars, ioVars, headVars,
                bodyVars
  <2>2. \/ stack' = Pop \/ stack' = <<C("foreign")>> \o Pop \/ stack' = <<C("close")>> \o Pop
        \/ stack' = <<C("close"), C("deleteTail")>> \o Pop
        \/ stack' = <<C("foreign"), C("closeRefs")>> \o Pop
    BY <1>7 DEF Step1, Step2End, Delete, ServerClose, DeleteTail
  <2>3. QED
    BY <1>3, <1>6, <2>1, <2>2
<1>30. CASE CloseRefs \/ ForeignReturns
  <2>1. stack # <<>> /\ (closed => closed')
        /\ UNCHANGED <<op, sid, flip, rejected, onFinish, due, next, resp, rstate, running, sendQ>>
    BY <1>30 DEF CloseRefs, ForeignReturns, Foreign, At, ctxVars, ioVars, headVars, bodyVars
  <2>2. stack' = Pop \/ stack' = <<C("ioClose"), C("onClosed")>> \o Pop
    BY <1>30 DEF CloseRefs, ForeignReturns
  <2>3. QED
    BY <1>3, <1>6, <2>1, <2>2
<1>8. CASE OnClosed
  <2>1. stack # <<>> /\ (closed => closed')
        /\ UNCHANGED <<op, sid, flip, rejected, onFinish, due, next, resp, rstate, running, sendQ>>
    BY <1>8 DEF OnClosed, At, ctxVars, ioVars, headVars, bodyVars
  <2>2. Pop \in Seq(Frame)
    BY <1>1, <2>1, PopType DEF TypeOK, Pop
  <2>3. stack' = Pop \/ stack' = <<C("delete")>> \o Pop
    BY <1>8, <2>2 DEF OnClosed
  <2>4. QED
    BY <1>3, <1>6, <2>1, <2>3
(* An event that runs a function of the context. *)
<1>31. CASE IoReceived
  <2>1. /\ stack' = <<C("step2")>> \o stack /\ closed' = closed
        /\ UNCHANGED <<op, sid, flip, rejected, onFinish, due, next, resp, rstate, running, sendQ>>
    BY <1>31 DEF IoReceived, ctxVars, headVars, bodyVars
  <2>2. Over(1, 0) /\ stack'[1] = C("step2")
    BY <1>1, <1>2, <1>3, <2>1, OneAdded
  <2>3. \A k \in 1 .. 1 : stack'[k].fn \notin ReqFn
    BY <1>2, <1>3, <2>2
  <2>4. QED
    BY <1>1, <2>1, <2>2, <2>3, CtxOnly
<1>9. CASE OwnerCalls
  <2>1. PICK fn \in CtxFn : stack' = <<C(fn)>>
    BY <1>9, <1>3 DEF OwnerCalls
  <2>2. stack = <<>> /\ (closed => closed')
        /\ UNCHANGED <<op, sid, flip, rejected, onFinish, due, next, resp, rstate, running, sendQ>>
    BY <1>9 DEF OwnerCalls, AtEventLoop, ctxVars, ioVars, headVars, bodyVars
  <2>3. Over(1, 0) /\ stack'[1] = C(fn)
    BY <1>1, <1>2, <2>1, <2>2, Entered
  <2>4. \A k \in 1 .. 1 : stack'[k].fn \notin ReqFn
    BY <1>2, <2>3
  <2>5. QED
    BY <1>1, <2>2, <2>3, <2>4, CtxOnly
(* A request goes on in the same thread. *)
<1>10. ASSUME NEW r \in Req, GetFunc1(r) \/ GetInfo1(r) PROVE ReqInv'
  <2>1. PICK fn \in {"getFunc1", "getInfo1"} : At(fn) /\ stack[1].req = r
    BY <1>10 DEF GetFunc1, GetInfo1
  <2>2. /\ stack' = <<F("call2", r)>> \o Pop /\ closed' = closed
        /\ UNCHANGED <<op, sid, flip, rejected, onFinish, due, next, resp, rstate, running, sendQ>>
    BY <1>10 DEF GetFunc1, GetInfo1, ctxVars, ioVars, headVars, bodyVars
  <2>3. fn \in ReqFn
    BY <1>4 DEF First
  <2>4. Phase(r, fn)
    BY <2>1, <2>3, TopReq
  <2>5. Phase(r, "call2")'
    BY <2>2, <2>4 DEF Phase, Fresh, First
  <2>6. QED
    BY <1>1, <1>4, <2>1, <2>2, <2>3, <2>5, GoesOn
<1>32. ASSUME NEW r \in Req, FreeRef1(r) \/ FreeSlot(r) PROVE ReqInv'
  <2>1. PICK fn \in {"freeRef1", "freeSlot"} : At(fn) /\ stack[1].req = r
    BY <1>32 DEF FreeRef1, FreeSlot
  <2>2. closed' = closed
        /\ UNCHANGED <<op, sid, flip, rejected, onFinish, due, next, resp, rstate, running, sendQ>>
    BY <1>32 DEF FreeRef1, FreeSlot, ctxVars, ioVars, headVars, bodyVars
  <2>3. PICK to \in {"call2", "freeRef1", "freeSlot"} :
          stack' = <<F(to, r)>> \o Pop \/ stack' = <<C("foreign"), F(to, r)>> \o Pop
    BY <1>32 DEF FreeRef1, FreeSlot
  <2>4. fn \in ReqFn /\ to \in ReqFn
    BY <1>4
  <2>5. Phase(r, fn)
    BY <2>1, <2>4, TopReq
  <2>6. Phase(r, to)'
    BY <2>2, <2>5 DEF Phase, Fresh, First
  <2>7. \/ stack' = <<F(to, r)>> \o Pop
        \/ \E cf \in CtxFn : stack' = <<C(cf), F(to, r)>> \o Pop
    BY <1>3, <2>3
  <2>8. QED
    BY <1>1, <2>1, <2>2, <2>4, <2>6, <2>7, GoesOn
<1>11. ASSUME NEW r \in Req, Call2(r) PROVE ReqInv'
  <2>1. At("call2") /\ stack[1].req = r
    BY <1>11 DEF Call2
  <2>2. Phase(r, "call2")
    BY <1>4, <2>1, TopReq
  <2>3. CASE sid[r] = Signal
    <3>1. ~flip[r]
      BY <2>2 DEF Phase
    <3>2. /\ stack' = <<F("finish", r)>> \o Pop /\ closed' = closed
          /\ UNCHANGED <<op, sid, flip, rejected, onFinish, due, next, resp, rstate, running, sendQ>>
      BY <1>11, <2>3, <3>1 DEF Call2, ctxVars, headVars
    <3>3. Phase(r, "finish")'
      BY <2>2, <2>3, <3>2 DEF Phase, First
    <3>4. QED
      BY <1>1, <1>4, <2>1, <3>2, <3>3, GoesOn
  <2>4. CASE sid[r] # Signal
    <3>1. WriteResult(r, "finish") /\ UNCHANGED <<ctxVars, poolVars, receiving, recvErr, headVars,
                                                  rejected, onFinish, running, due>>
      BY <1>11, <2>4 DEF Call2
    <3>2. QED
      BY <1>1, <2>1, <2>4, <3>1, AnswerKeeps
  <2>5. QED
    BY <2>3, <2>4
<1>12. ASSUME NEW r \in Req, Poll2(r) PROVE ReqInv'
  BY <1>1, <1>12, AnswerKeeps DEF Poll2
<1>13. ASSUME NEW r \in Req, Call1(r) PROVE ReqInv'
  <2>1. /\ At("call1") /\ stack[1].req = r
        /\ UNCHANGED <<ctxVars, poolVars, ioVars, headVars, flip, resp>>
        /\ Invoke(r, "call2", due[r])
    BY <1>13 DEF Call1
  <2>2. (due[r] /\ ("call1" = "poll3Tail" => ~onFinish[r])) = due[r]
    BY <1>1 DEF TypeOK
  <2>3. Invoke(r, "call2", due[r] /\ ("call1" = "poll3Tail" => ~onFinish[r]))
    BY <2>1, <2>2, Zenon
  <2>4. QED
    BY <1>1, <2>1, <2>3, InvokeKeeps
<1>14. ASSUME NEW r \in Req, Poll1(r) PROVE ReqInv'
  <2>1. /\ At("poll1") /\ stack[1].req = r
        /\ UNCHANGED <<ctxVars, poolVars, ioVars, headVars, flip, resp>>
        /\ Invoke(r, "poll2", due[r])
    BY <1>14 DEF Poll1
  <2>2. (due[r] /\ ("poll1" = "poll3Tail" => ~onFinish[r])) = due[r]
    BY <1>1 DEF TypeOK
  <2>3. Invoke(r, "poll2", due[r] /\ ("poll1" = "poll3Tail" => ~onFinish[r]))
    BY <2>1, <2>2, Zenon
  <2>4. QED
    BY <1>1, <2>1, <2>3, InvokeKeeps
<1>15. ASSUME NEW r \in Req, Poll3Again(r) PROVE ReqInv'
  <2>1. /\ At("poll3Tail") /\ stack[1].req = r /\ ~rejected[r]
        /\ UNCHANGED <<ctxVars, poolVars, ioVars, headVars, flip, resp>>
        /\ Invoke(r, "poll2", due[r] /\ ~onFinish[r])
    BY <1>15 DEF Poll3Again
  <2>2. (due[r] /\ ("poll3Tail" = "poll3Tail" => ~onFinish[r])) = (due[r] /\ ~onFinish[r])
    BY <1>1 DEF TypeOK
  <2>3. Invoke(r, "poll2", due[r] /\ ("poll3Tail" = "poll3Tail" => ~onFinish[r]))
    BY <2>1, <2>2, Zenon
  <2>4. QED
    BY <1>1, <2>1, <2>3, InvokeKeeps
<1>16. ASSUME NEW r \in Req, Close1(r) PROVE ReqInv'
  <2>1. stack # <<>> /\ closed' = closed /\ stack' = <<C("close")>> \o Pop
        /\ UNCHANGED <<op, sid, flip, rejected, onFinish, due, next, resp, rstate, running, sendQ>>
    BY <1>16 DEF Close1, At, ctxVars, ioVars, headVars, bodyVars
  <2>2. QED
    BY <1>3, <1>6, <2>1
<1>17. ASSUME NEW r \in Req, NEW fn \in {"poll3", "finish"}, NEW to \in ReqFn,
              At(fn), stack[1].req = r, to = (IF fn = "poll3" THEN "poll3Tail" ELSE "finishTail"),
              stack' = (IF sendErr THEN <<C("close")>> ELSE <<>>) \o <<F(to, r)>> \o Pop,
              UNCHANGED <<ctxVars, poolVars, ioVars, headVars, bodyVars>>
       PROVE  ReqInv'
  <2>1. stack # <<>> /\ fn \in ReqFn
    BY <1>4, <1>17 DEF At
  <2>2. Pop \in Seq(Frame)
    BY <1>1, <2>1, PopType DEF TypeOK, Pop
  <2>3. \/ stack' = <<F(to, r)>> \o Pop
        \/ \E cf \in CtxFn : stack' = <<C(cf), F(to, r)>> \o Pop
    <3>1. stack' = <<F(to, r)>> \o Pop \/ stack' = <<C("close"), F(to, r)>> \o Pop
      BY <1>17, <2>2
    <3>2. QED
      BY <1>3, <3>1
  <2>4. /\ closed' = closed
        /\ UNCHANGED <<op, sid, flip, rejected, onFinish, due, next, resp, rstate, running, sendQ>>
    BY <1>17 DEF ctxVars, ioVars, headVars, bodyVars
  <2>5. Phase(r, fn)
    BY <1>17, <2>1, TopReq
  <2>6. Phase(r, to)'
    BY <1>17, <2>4, <2>5 DEF Phase, First, Final
  <2>7. QED
    BY <1>1, <1>17, <2>1, <2>3, <2>4, <2>6, GoesOn
<1>18. ASSUME NEW r \in Req, Poll3(r) PROVE ReqInv'
  BY <1>4, <1>17, <1>18 DEF Poll3
<1>19. ASSUME NEW r \in Req, Finish(r) PROVE ReqInv'
  BY <1>4, <1>17, <1>19 DEF Finish
<1>20. ASSUME NEW r \in Req, Poll3Finish(r) PROVE ReqInv'
  <2>1. /\ At("poll3Tail") /\ stack[1].req = r
        /\ stack' = <<F("finish", r)>> \o Pop /\ closed' = closed
        /\ UNCHANGED <<op, sid, flip, rejected, onFinish, due, next, resp, rstate, running, sendQ>>
    BY <1>20 DEF Poll3Finish, ctxVars, ioVars, headVars, bodyVars
  <2>2. At("poll3Tail") /\ stack[1].req = r /\ (rejected[r] \/ closed)
    BY <1>20 DEF Poll3Finish
  <2>3. Phase(r, "poll3Tail")
    BY <1>4, <2>2, TopReq
  <2>4. Phase(r, "finish")'
    BY <2>1, <2>2, <2>3 DEF Phase, First, Final
  <2>5. QED
    BY <1>1, <1>4, <2>1, <2>2, <2>4, GoesOn
(* The end of a request, and the beginning of one. *)
<1>21. ASSUME NEW r \in Req, FinishTail(r) PROVE ReqInv'
  <2>1. At("finishTail") /\ stack[1].req = r /\ stack' = Pop
    BY <1>21 DEF FinishTail
  <2>2. /\ stack # <<>> /\ r \in Live /\ r \notin running /\ r \notin SendSet /\ ReqOK(r)
        /\ Phase(r, "finishTail")
        /\ \A k \in 1 + 1 .. Len(stack) : stack[k].fn \in ReqFn => stack[k].req # r
    BY <1>4, <2>1, TopReq
  <2>3. Over(0, 1)
    BY <1>1, <2>1, <2>2, Popped
  <2>4. /\ due' = [due EXCEPT ![r] = @ /\ ~onFinish[r]]
        /\ rstate' = [rstate EXCEPT ![r] = "freed"]
        /\ UNCHANGED <<closed, op, sid, flip, rejected, onFinish, next, resp, running, sendQ>>
    BY <1>21 DEF FinishTail, ioVars
  <2>5. SendSet' = SendSet
    BY <2>4 DEF SendSet
  <2>6. \A x \in Req \ {r} : SameReq(x)
    BY <1>1, <2>4, <2>5 DEF SameReq, TypeOK
  <2>7. ReqOK(r)'
    <3>1. ~due'[r]
      BY <1>1, <2>2, <2>4 DEF ReqOK, TypeOK
    <3>2. rstate'[r] = "freed"
      BY <1>1, <2>4 DEF TypeOK
    <3>3. Replied(r)'
      BY <2>2, <2>4 DEF ReqOK, Replied, Phase, Final
    <3>4. QED
      BY <2>2, <2>4, <2>5, <3>1, <3>2, <3>3 DEF ReqOK
  <2>8. QED
    BY <1>1, <1>5, <2>2, <2>3, <2>4, <2>6, <2>7, KeepReq
<1>22. ASSUME NEW r \in Req, Step2Packet(r) PROVE ReqInv'
  <2>1. PICK o \in Op, s \in Sid \cup {Signal}, i \in Index :
          /\ op' = [op EXCEPT ![r] = o] /\ sid' = [sid EXCEPT ![r] = s]
          /\ idx' = [idx EXCEPT ![r] = i] /\ next' = [next EXCEPT ![r] = Handler(o)]
          /\ stack' = <<F(Handler(o), r), C("step1")>> \o Pop
          /\ o # "other"
    BY <1>22 DEF Step2Packet, ClientSends
  <2>2. /\ stack # <<>> /\ rstate[r] = "none" /\ rstate' = [rstate EXCEPT ![r] = "live"]
        /\ UNCHANGED <<closed, flip, rejected, onFinish, running, resp, due, sendQ>>
    BY <1>22 DEF Step2Packet, At, ioVars
  <2>3. /\ Handler(o) \in First /\ Handler(o) \in ReqFn
        /\ (Handler(o) = "close1" <=> o = "close") /\ (Handler(o) = "poll1" <=> o = "poll")
    BY <1>4, <2>1 DEF Handler, Op, First
  <2>4. /\ Over(2, 1) /\ stack'[1] = F(Handler(o), r) /\ stack'[2] = C("step1")
    BY <1>1, <1>2, <1>3, <2>1, <2>2, <2>3, TwoPushed
  <2>5. r \notin Live /\ r \notin running /\ r \notin SendSet /\ ReqOK(r) /\ Fresh(r)
    BY <2>2, OneReq DEF Live, ReqInv, OneContinuation, ReqOK
  <2>6. \A k \in 1 + 1 .. Len(stack) : stack[k].fn \in ReqFn => stack[k].req # r
    <3>1. \A k \in 1 .. Len(stack) : stack[k].fn \in ReqFn => stack[k].req # r
      BY <2>5 DEF ReqInv, OneContinuation
    <3>2. Len(stack) \in Nat
      BY <1>1, StackFrames
    <3>3. QED
      BY <3>1, <3>2
  <2>7. SendSet' = SendSet
    BY <2>2 DEF SendSet
  <2>8. \A x \in Req \ {r} : SameReq(x)
    BY <1>1, <2>1, <2>2, <2>7 DEF SameReq, TypeOK
  <2>9. op'[r] = o /\ sid'[r] = s /\ rstate'[r] = "live" /\ Fresh(r)'
    BY <1>1, <2>1, <2>2, <2>5 DEF TypeOK, Fresh
  <2>10. r \in Live' /\ r \notin running' /\ r \notin SendSet'
    BY <2>2, <2>5, <2>7, <2>9 DEF Live
  <2>11. Phase(r, Handler(o))'
    <3> DEFINE h == Handler(o)
    <3>1. h \notin {"call2", "poll2", "poll3", "poll3Tail", "finish", "finishTail"}
      BY <2>3 DEF First
    <3> HIDE DEF h
    <3>2. h \in First /\ (h = "close1" <=> o = "close") /\ (h = "poll1" <=> o = "poll")
      BY <2>3 DEF h
    <3>3. Phase(r, h)'
      BY <2>9, <3>1, <3>2 DEF Phase
    <3>4. QED
      BY <3>3 DEF h, Phase, Handler, Fresh, Final
  <2>12. ReqOK(r)'
    <3>1. resp'[r] = <<>> /\ Len(resp'[r]) = 0
      BY <2>9 DEF Fresh
    <3>2. Replied(r)'
      BY <2>9, <3>1 DEF Replied
    <3>3. QED
      BY <2>9, <2>10, <3>2 DEF ReqOK, Fresh
  <2>13. \A k \in 1 .. 2 : stack'[k].fn \in ReqFn =>
           /\ stack'[k].req = r
           /\ \A f \in ReqFn : stack'[k].fn = f => Phase(r, f)'
           /\ r \in Live' /\ r \notin running' /\ r \notin SendSet'
           /\ \A j \in 1 .. 2 : stack'[j].fn \in ReqFn => j = k
    <3>1. \A k \in 1 .. 2 : stack'[k].fn \in ReqFn => k = 1
      BY <1>2, <1>3, <2>4
    <3>2. stack'[1].fn = Handler(o) /\ stack'[1].req = r
      BY <1>2, <2>4
    <3>3. QED
      BY <2>10, <2>11, <3>1, <3>2
  <2>14. QED
    BY <1>1, <1>5, <2>2, <2>4, <2>6, <2>8, <2>12, <2>13, KeepReq
(* The io gives a request back, and a callable does. *)
<1>23. ASSUME NEW m \in {0, 1}, Over(1, m), sendQ # <<>>, sendQ' = Tail(sendQ),
              stack'[1] = F(next[sendQ[1]], sendQ[1]), closed => closed',
              UNCHANGED <<op, sid, flip, rejected, onFinish, due, next, resp, rstate, running>>
       PROVE  ReqInv'
  <2>0. PICK r \in Req : r = sendQ[1]
    BY <1>1, <1>23 DEF TypeOK
  <2>1. /\ r \in SendSet /\ r \in Req
        /\ SendSet' = SendSet \ {r}
        /\ \A j, k \in 1 .. Len(sendQ') : j # k => sendQ'[j] # sendQ'[k]
    BY <1>1, <1>5, <1>23, <2>0, SendFirst DEF TypeOK
  <2>2. stack'[1].fn = next[r] /\ stack'[1].req = r
    BY <1>2, <1>23, <2>0
  <2>3. ReqOK(r) /\ r \in Live /\ r \notin running /\ Phase(r, next[r])
    BY <2>1, OneReq DEF ReqOK
  <2>4. \A x \in Req \ {r} : SameReq(x)
    BY <1>23, <2>1 DEF SameReq
  <2>5. Replied(r)'
    BY <1>23, <2>3 DEF ReqOK, Replied, Final
  <2>6. r \in Live' /\ r \notin running' /\ r \notin SendSet'
    BY <1>23, <2>1, <2>3 DEF Live
  <2>7. ReqOK(r)'
    BY <1>23, <2>3, <2>5, <2>6 DEF ReqOK, Live
  <2>8. \A f \in ReqFn : next[r] = f => Phase(r, f)'
    BY <1>23, <2>3 DEF Phase, Fresh, Final
  <2>9. \A k \in m + 1 .. Len(stack) : stack[k].fn \in ReqFn => stack[k].req # r
    <3>1. \A k \in 1 .. Len(stack) : stack[k].fn \in ReqFn => stack[k].req # r
      BY <2>1 DEF ReqInv, OneContinuation
    <3>2. Len(stack) \in Nat
      BY <1>1, StackFrames
    <3>3. QED
      BY <3>1, <3>2
  <2>10. \A k \in 1 .. 1 : stack'[k].fn \in ReqFn =>
           /\ stack'[k].req = r
           /\ \A f \in ReqFn : stack'[k].fn = f => Phase(r, f)'
           /\ r \in Live' /\ r \notin running' /\ r \notin SendSet'
           /\ \A j \in 1 .. 1 : stack'[j].fn \in ReqFn => j = k
    BY <2>2, <2>6, <2>8
  <2>11. QED
    BY <1>1, <1>23, <2>1, <2>4, <2>7, <2>9, <2>10, KeepReq
<1>24. sendQ # <<>> => F(next[sendQ[1]], sendQ[1]) \in Frame
  <2>1. sendQ # <<>> => sendQ[1] \in Req /\ next[sendQ[1]] \in ReqFn
    BY <1>1, <1>4 DEF TypeOK
  <2>2. QED
    BY <1>2, <2>1
<1>25. CASE IoSent
  <2>1. /\ sendQ # <<>> /\ sendQ' = Tail(sendQ) /\ closed' = closed
        /\ stack' = <<F(next[sendQ[1]], sendQ[1])>> \o stack
        /\ UNCHANGED <<op, sid, flip, rejected, onFinish, due, next, resp, rstate, running>>
    BY <1>25 DEF IoSent, ctxVars, headVars, bodyVars
  <2>2. Over(1, 0) /\ stack'[1] = F(next[sendQ[1]], sendQ[1])
    BY <1>1, <1>24, <2>1, OneAdded
  <2>3. QED
    BY <1>23, <2>1, <2>2
<1>26. CASE IoClose
  <2>1. /\ stack # <<>> /\ closed' = closed
        /\ UNCHANGED <<op, sid, flip, rejected, onFinish, due, next, resp, rstate, running>>
    BY <1>26 DEF IoClose, At, ctxVars, headVars, bodyVars
  <2>2. CASE (stack' = Pop \/ stack' = <<C("foreign")>> \o Pop) /\ sendQ' = sendQ
    BY <1>3, <1>6, <2>1, <2>2
  <2>3. CASE stack' = <<C("step2")>> \o stack /\ sendQ' = sendQ
    <3>1. Over(1, 0) /\ stack'[1] = C("step2")
      BY <1>1, <1>2, <1>3, <2>3, OneAdded
    <3>2. \A k \in 1 .. 1 : stack'[k].fn \notin ReqFn
      BY <1>2, <1>3, <3>1
    <3>3. QED
      BY <1>1, <2>1, <2>3, <3>1, <3>2, CtxOnly
  <2>4. CASE sendQ # <<>> /\ sendQ' = Tail(sendQ) /\ stack' = <<F(next[sendQ[1]], sendQ[1])>> \o stack
    <3>1. Over(1, 0) /\ stack'[1] = F(next[sendQ[1]], sendQ[1])
      BY <1>1, <1>24, <2>4, OneAdded
    <3>2. QED
      BY <1>23, <2>1, <2>4, <3>1
  <2>5. QED
    BY <1>26, <2>2, <2>3, <2>4 DEF IoClose
<1>27. ASSUME NEW r \in Req, CallableReturns(r) PROVE ReqInv'
  <2>1. /\ r \in running /\ running' = running \ {r} /\ closed' = closed
        /\ stack' = <<F(next[r], r)>> \o stack
        /\ \E err \in BOOLEAN : rejected' = [rejected EXCEPT ![r] = err]
        /\ UNCHANGED <<op, sid, flip, onFinish, due, next, resp, rstate, sendQ>>
    BY <1>27 DEF CallableReturns, Outcomes, ctxVars, ioVars, headVars
  <2>2. /\ ReqOK(r) /\ r \in Live /\ r \notin SendSet /\ Phase(r, next[r])
        /\ next[r] \in {"call2", "poll2"} /\ next[r] \in ReqFn
    BY <1>4, <2>1, OneReq DEF ReqOK
  <2>3. Over(1, 0) /\ stack'[1] = F(next[r], r)
    BY <1>1, <1>2, <2>1, <2>2, OneAdded
  <2>4. SendSet' = SendSet
    BY <2>1 DEF SendSet
  <2>5. \A x \in Req \ {r} : SameReq(x)
    BY <1>1, <2>1, <2>4 DEF SameReq, TypeOK
  <2>6. Replied(r)'
    BY <2>1, <2>2 DEF ReqOK, Replied, Final
  <2>7. r \in Live' /\ r \notin running' /\ r \notin SendSet'
    BY <2>1, <2>2, <2>4 DEF Live
  <2>8. ReqOK(r)'
    BY <2>1, <2>2, <2>6, <2>7 DEF ReqOK, Live
  <2>9. \A f \in ReqFn : next[r] = f => Phase(r, f)'
    BY <2>1, <2>2 DEF Phase, First
  <2>10. \A k \in 0 + 1 .. Len(stack) : stack[k].fn \in ReqFn => stack[k].req # r
    <3>1. \A k \in 1 .. Len(stack) : stack[k].fn \in ReqFn => stack[k].req # r
      BY <2>1 DEF ReqInv, OneContinuation
    <3>2. QED
      BY <3>1
  <2>11. \A k \in 1 .. 1 : stack'[k].fn \in ReqFn =>
           /\ stack'[k].req = r
           /\ \A f \in ReqFn : stack'[k].fn = f => Phase(r, f)'
           /\ r \in Live' /\ r \notin running' /\ r \notin SendSet'
           /\ \A j \in 1 .. 1 : stack'[j].fn \in ReqFn => j = k
    BY <1>2, <2>3, <2>7, <2>9
  <2>12. QED
    BY <1>1, <1>5, <2>1, <2>3, <2>5, <2>8, <2>10, <2>11, KeepReq
<1>28. CASE UNCHANGED vars
  <2>1. Over(0, 0)
    BY <1>1, <1>28, StackFrames DEF Over, vars, TypeOK
  <2>2. QED
    BY <1>1, <1>28, <2>1, CtxOnly DEF vars, ctxVars, ioVars, headVars, bodyVars
<1>29. QED
  BY <1>7, <1>8, <1>9, <1>10, <1>11, <1>12, <1>13, <1>14, <1>15, <1>16, <1>18, <1>19, <1>20,
     <1>21, <1>22, <1>25, <1>26, <1>27, <1>28, <1>30, <1>31, <1>32 DEF Next, Step, CtxStep, ReqStep

LEMMA ReqInvInit == Init => ReqInv
<1> SUFFICES ASSUME Init PROVE ReqInv
  OBVIOUS
<1>1. TypeOK
  BY InitInv DEF IInv
<1>2. /\ running = {} /\ sendQ = <<>> /\ Len(sendQ) = 0 /\ Len(stack) = 1
      /\ stack[1].fn = "step1" /\ "step1" \notin ReqFn
  BY DEF Init, C, ReqFn, StepFn
<1>3. SendSet = {}
  BY <1>2 DEF SendSet
<1>4. OneContinuation
  BY <1>2, <1>3 DEF OneContinuation
<1>5. \A r \in Req : rstate[r] = "none" /\ resp[r] = <<>> /\ Len(resp[r]) = 0 /\ ~flip[r] /\ ~due[r]
                     /\ op[r] = "getInfo"
  BY DEF Init
<1>6. InPhase
  BY <1>2, <1>3, <1>5 DEF InPhase, Fresh
<1>7. RepliesCorrect /\ ResultsReleased
  BY <1>5 DEF RepliesCorrect, ResultsReleased
<1>8. QED
  BY <1>1, <1>4, <1>6, <1>7 DEF ReqInv

LEMMA SpecReqInv == Spec => [](IInv /\ ReqInv)
<1>1. Init => IInv /\ ReqInv
  BY InitInv, ReqInvInit
<1>2. (IInv /\ ReqInv) /\ [Next]_vars => (IInv /\ ReqInv)'
  BY StepInv, ReqInvStep
<1>3. QED
  BY <1>1, <1>2, PTL DEF Spec

(* A request is waited for in one place: nothing that a callable, the io   *)
(* and the stack do in any order makes two of them go on with it (the      *)
(* next_step of server.c).                                                 *)
THEOREM ServerOneContinuation == Spec => []OneContinuation
<1>1. ReqInv => OneContinuation
  BY DEF ReqInv
<1>2. QED
  BY <1>1, SpecReqInv, PTL

(* Every reply carries its request's session, the error bit ends a poll,   *)
(* and what is finished was answered (_pxprpc__writeResult and its         *)
(* callers), for any number of requests, rounds and failed sends.          *)
THEOREM ServerRepliesCorrect == Spec => []RepliesCorrect
<1>1. ReqInv => RepliesCorrect
  BY DEF ReqInv
<1>2. QED
  BY <1>1, SpecReqInv, PTL

(* What a callable attached is released before its next round and before   *)
(* the request's memory goes (on_finish in _pxprpc__stepPoll3 and          *)
(* _pxprpc__finishRequest).                                                *)
THEOREM ServerResultsReleased == Spec => []ResultsReleased
<1>1. ReqInv => ResultsReleased
  BY DEF ReqInv
<1>2. QED
  BY <1>1, SpecReqInv, PTL

-----------------------------------------------------------------------------
(* The context's memory. *)

(* A close request is alive: nothing finishes it. *)
LiveClose == \E r \in Live : op[r] = "close"

(* What a request runs after its callable. *)
Late == {"call2", "poll2", "poll3", "poll3Tail", "finish", "finishTail"}

(* Frames that close and delete are not made of. *)
Plain(f) == f.fn \in ReqFn \cup {"step1", "foreign"}

(* What may be left on the stack when the creator's reference goes.        *)
Calm(f) == IF SyncIo /\ DeleteInOnClosed THEN Plain(f) ELSE f.fn \in Late

(* On its way to delete, or to a close in which the owner will delete.     *)
Ending(f) == Deleting(f) \/ (DeleteInOnClosed /\ ~closed /\ f.fn = "close")

(* Below such a frame lies nothing else, unless a close request keeps the  *)
(* context alive.                                                          *)
BelowDelete ==
  \A k \in 1 .. Len(stack) : Ending(stack[k]) =>
    \A j \in k + 1 .. Len(stack) : Calm(stack[j]) \/ LiveClose

(* The frames of a close that has not reached io->close. *)
Shutting == {"closeRefs", "ioClose"}

(* The context is closed before its creator's reference goes, and then the *)
(* io receives no more.                                                    *)
ClosedFirst ==
  /\ closed /\ receiving => \E k \in 1 .. Len(stack) : stack[k].fn \in Shutting
  /\ \A k \in 1 .. Len(stack) : stack[k].fn \in Shutting => closed
  /\ \A k \in 1 .. Len(stack) : stack[k].fn = "deleteTail" =>
       closed \/ (k = 2 /\ stack[1].fn = "close")
  /\ ~owner => closed

(* The close that a failed send begins with. *)
Closes(k) ==
  stack[k].fn = "close" /\ k = 1 /\ Len(stack) > 1 /\ stack[2].fn \in ReqFn

(* Without its creator's reference nothing else begins on the context.     *)
AfterDelete ==
  ~owner /\ ~LiveClose => \A k \in 1 .. Len(stack) : Calm(stack[k]) \/ Closes(k)

(* Until the context is closed, close and delete are on top or nowhere.    *)
OpenStack ==
  DeleteInOnClosed /\ ~closed => \A k \in 2 .. Len(stack) : Plain(stack[k])

(* An io that completes from the event loop reports errors there: no frame *)
(* lies below the function that closes the context for them.               *)
AsyncErrors ==
  ~SyncIo =>
    /\ \A k \in 1 .. Len(stack) : stack[k].fn = "step2" => Len(stack) = 1
    /\ ~closed /\ sendErr =>
         /\ stack # <<>>
         /\ \/ stack[1].fn \in {"finish", "poll3"} /\ Len(stack) = 1
            \/ stack[1].fn = "close"

DeleteInv == BelowDelete /\ ClosedFirst /\ AfterDelete /\ OpenStack

(* The inductive invariant of the context's memory. *)
MemInv == IInv /\ ReqInv /\ DeleteInv /\ AsyncErrors

LEMMA LiveCloseStays ==
  ASSUME ReqInv, [Next]_vars, LiveClose
  PROVE  LiveClose'
<1>1. PICK c \in Req : rstate[c] = "live" /\ op[c] = "close"
  BY DEF LiveClose, Live
<1>2. TypeOK
  BY DEF ReqInv
<1>3. CASE UNCHANGED <<rstate, op>>
  BY <1>1, <1>3 DEF LiveClose, Live
<1>4. ASSUME NEW r \in Req, Step2Packet(r) PROVE LiveClose'
  <2>1. PICK o \in Op : op' = [op EXCEPT ![r] = o]
    BY <1>4 DEF Step2Packet
  <2>2. rstate[r] = "none" /\ rstate' = [rstate EXCEPT ![r] = "live"]
    BY <1>4 DEF Step2Packet
  <2>3. c # r /\ rstate'[c] = "live" /\ op'[c] = "close"
    BY <1>1, <1>2, <2>1, <2>2 DEF TypeOK
  <2>4. QED
    BY <2>3 DEF LiveClose, Live
<1>5. ASSUME NEW r \in Req, FinishTail(r) PROVE LiveClose'
  <2>1. At("finishTail") /\ stack[1].req = r /\ "finishTail" \in ReqFn
    BY <1>5 DEF FinishTail, ReqFn
  <2>2. op[r] # "close"
    BY <2>1, TopReq DEF Phase
  <2>3. rstate' = [rstate EXCEPT ![r] = "freed"] /\ op' = op
    BY <1>5 DEF FinishTail
  <2>4. c # r /\ rstate'[c] = "live" /\ op'[c] = "close"
    BY <1>1, <1>2, <2>2, <2>3 DEF TypeOK
  <2>5. QED
    BY <2>4 DEF LiveClose, Live
<1>6. ASSUME NEW r \in Req,
             \/ Call1(r) \/ Call2(r) \/ GetFunc1(r) \/ FreeRef1(r) \/ FreeSlot(r)
             \/ GetInfo1(r) \/ Close1(r) \/ Poll1(r) \/ Poll2(r) \/ Poll3(r) \/ Poll3Finish(r) \/ Poll3Again(r) \/ Finish(r)
             \/ CallableReturns(r)
      PROVE  UNCHANGED <<rstate, op>>
  BY <1>6 DEF Call1, Call2, GetFunc1, FreeRef1, FreeSlot, GetInfo1, Close1, Poll1, Poll2, Poll3,
              Poll3Finish, Poll3Again, Finish, CallableReturns, headVars
<1>7. CASE CtxStep \/ IoReceived \/ IoSent \/ OwnerCalls \/ UNCHANGED vars
  BY <1>3, <1>7 DEF CtxStep, Step1, Step2End, ServerClose, CloseRefs, IoClose, OnClosed, Delete,
                    DeleteTail, ForeignReturns,
                    IoReceived, IoSent, OwnerCalls, vars, headVars
<1>8. QED
  BY <1>3, <1>4, <1>5, <1>6, <1>7 DEF Next, Step, ReqStep

(* A frame that a step leaves on the stack.                                *)
LEMMA FrameStays ==
  ASSUME TypeOK, NEW n \in Nat, NEW m \in {0, 1}, Over(n, m), NEW k \in m + 1 .. Len(stack)
  PROVE  k - m + n \in 1 .. Len(stack') /\ stack'[k - m + n] = stack[k]
<1>1. Len(stack) \in Nat /\ Len(stack') = n + Len(stack) - m
  BY StackFrames DEF Over
<1>2. k - m + n \in n + 1 .. Len(stack') /\ (k - m + n) - n + m = k
  BY <1>1
<1>3. stack'[k - m + n] = stack[(k - m + n) - n + m]
  BY <1>2 DEF Over
<1>4. QED
  BY <1>1, <1>2, <1>3

(* A step other than the delete itself.                                    *)
LEMMA KeepMem ==
  ASSUME TypeOK, DeleteInv, NEW n \in Nat, NEW m \in {0, 1}, Over(n, m),
         closed => closed', LiveClose => LiveClose', owner' = owner,
         \A k \in 1 .. n : Ending(stack[k])' =>
           /\ \A j \in k + 1 .. n : Calm(stack[j])' \/ LiveClose'
           /\ \A j \in m + 1 .. Len(stack) : Calm(stack[j]) \/ LiveClose',
         ~owner /\ ~LiveClose' => \A k \in 1 .. n : Calm(stack[k])' \/ Closes(k)',
         stack # <<>> /\ stack[1].fn = "close" => closed' /\ m = 1,
         \A k \in 1 .. n : stack'[k].fn = "deleteTail" =>
           closed' \/ (k = 2 /\ stack'[1].fn = "close"),
         \A k \in 1 .. n : stack'[k].fn \in Shutting => closed',
         closed' /\ receiving' => \E k \in 1 .. Len(stack') : stack'[k].fn \in Shutting,
         DeleteInOnClosed /\ ~closed' =>
           /\ \A k \in 2 .. n : Plain(stack[k])'
           /\ m = 1 \/ stack = <<>> \/ Plain(stack[1])
  PROVE  DeleteInv'
<1>0. BelowDelete /\ ClosedFirst /\ AfterDelete /\ OpenStack
  BY DEF DeleteInv
<1>1. Len(stack) \in Nat /\ Len(stack') \in Nat /\ Len(stack') = n + Len(stack) - m
  BY StackFrames DEF Over
<1>2. ASSUME NEW k \in 1 .. Len(stack'), k > n
      PROVE  /\ k - n + m \in m + 1 .. Len(stack) /\ k - n + m \in 1 .. Len(stack)
             /\ stack'[k] = stack[k - n + m]
  <2>1. k \notin 1 .. n
    BY <1>2
  <2>2. k - n + m \in m + 1 .. Len(stack) /\ stack'[k] = stack[k - n + m]
    BY <1>2, <2>1, OverFrames
  <2>3. k - n + m \in 1 .. Len(stack)
    BY <1>1, <2>2
  <2>4. QED
    BY <2>2, <2>3
<1>3. BelowDelete'
  <2> SUFFICES ASSUME NEW k \in 1 .. Len(stack'), Ending(stack[k])',
                      NEW j \in k + 1 .. Len(stack')
               PROVE  Calm(stack[j])' \/ LiveClose'
    BY DEF BelowDelete
  <2>1. CASE k \in 1 .. n /\ j \in 1 .. n
    BY <2>1
  <2>2. CASE k \in 1 .. n /\ j > n
    <3>0. j \in 1 .. Len(stack') /\ j > n
      BY <1>1, <2>2
    <3>1. PICK i \in m + 1 .. Len(stack) : stack'[j] = stack[i]
      BY <1>2, <3>0
    <3>2. Calm(stack[i]) \/ LiveClose'
      BY <2>2
    <3>3. QED
      BY <3>1, <3>2 DEF Calm, Plain
  <2>3. CASE k > n
    <3>1. j \in 1 .. Len(stack') /\ j > n /\ k < j
      BY <1>1, <2>3
    <3>2. /\ stack'[k] = stack[k - n + m] /\ k - n + m \in 1 .. Len(stack)
          /\ stack'[j] = stack[j - n + m] /\ j - n + m \in 1 .. Len(stack)
      BY <1>2, <2>3, <3>1
    <3>3. k - n + m < j - n + m
      BY <1>1, <3>1
    <3>4. PICK h \in 1 .. Len(stack), i \in 1 .. Len(stack) :
            /\ h = k - n + m /\ i = j - n + m
            /\ stack'[k] = stack[h] /\ stack'[j] = stack[i]
      BY <3>2
    <3>5. i \in h + 1 .. Len(stack)
      BY <1>1, <3>3, <3>4
    <3>6. Ending(stack[h])
      BY <3>4 DEF Ending, Deleting
    <3>7. Calm(stack[i]) \/ LiveClose
      BY <1>0, <3>5, <3>6 DEF BelowDelete
    <3>8. QED
      BY <3>4, <3>7 DEF Calm, Plain
  <2>4. QED
    BY <1>1, <2>1, <2>2, <2>3
<1>4. ClosedFirst'
  <2>1. ASSUME NEW k \in 1 .. Len(stack'), stack'[k].fn = "deleteTail"
        PROVE  closed' \/ (k = 2 /\ stack'[1].fn = "close")
    <3>1. CASE k \in 1 .. n
      BY <2>1, <3>1
    <3>2. CASE k > n
      <4>1. stack[k - n + m].fn = "deleteTail" /\ k - n + m \in 1 .. Len(stack)
        BY <1>2, <2>1, <3>2
      <4>2. stack # <<>>
        BY <4>1, StackFrames
      <4>3. closed \/ stack[1].fn = "close"
        BY <1>0, <4>1 DEF ClosedFirst
      <4>4. QED
        BY <4>2, <4>3
    <3>3. QED
      BY <3>1, <3>2
  <2>2. ASSUME NEW k \in 1 .. Len(stack'), stack'[k].fn \in Shutting PROVE closed'
    <3>1. CASE k \in 1 .. n
      BY <2>2, <3>1
    <3>2. CASE k > n
      <4>1. stack[k - n + m].fn \in Shutting /\ k - n + m \in 1 .. Len(stack)
        BY <1>2, <2>2, <3>2
      <4>2. QED
        BY <1>0, <4>1 DEF ClosedFirst
    <3>3. QED
      BY <3>1, <3>2
  <2>3. ~owner' => closed'
    BY <1>0 DEF ClosedFirst
  <2>4. QED
    BY <2>1, <2>2, <2>3 DEF ClosedFirst, Shutting
<1>5. AfterDelete'
  <2> SUFFICES ASSUME ~owner, ~LiveClose', NEW k \in 1 .. Len(stack')
               PROVE  Calm(stack[k])' \/ Closes(k)'
    BY DEF AfterDelete
  <2>1. CASE k \in 1 .. n
    BY <2>1
  <2>2. CASE k > n
    <3>1. PICK i \in m + 1 .. Len(stack) : stack'[k] = stack[i] /\ i \in 1 .. Len(stack)
      BY <1>2, <2>2
    <3>2. Calm(stack[i]) \/ Closes(i)
      BY <1>0, <3>1 DEF AfterDelete
    <3>3. ~Closes(i)
      <4>1. stack # <<>>
        BY <3>1, StackFrames
      <4>2. Closes(i) => i = 1 /\ stack[1].fn = "close"
        BY DEF Closes
      <4>3. i = 1 => m = 0
        BY <3>1
      <4>4. QED
        BY <4>1, <4>2, <4>3
    <3>4. QED
      BY <3>1, <3>2, <3>3 DEF Calm, Plain
  <2>3. QED
    BY <1>1, <2>1, <2>2
<1>6. OpenStack'
  <2> SUFFICES ASSUME DeleteInOnClosed, ~closed', NEW k \in 2 .. Len(stack')
               PROVE  Plain(stack[k])'
    BY DEF OpenStack
  <2>1. CASE k <= n
    BY <2>1
  <2>2. CASE k > n
    <3>1. /\ stack'[k] = stack[k - n + m] /\ k - n + m \in 1 .. Len(stack)
          /\ k - n + m \in m + 1 .. Len(stack)
      BY <1>1, <1>2, <2>2
    <3>2. PICK i \in 1 .. Len(stack) : i \in m + 1 .. Len(stack) /\ stack'[k] = stack[i]
      BY <3>1
    <3>3. CASE i = 1
      <4>1. m = 0 /\ stack # <<>>
        BY <3>2, <3>3, StackFrames
      <4>2. QED
        BY <3>2, <3>3, <4>1 DEF Plain
    <3>4. CASE i # 1
      <4>1. i \in 2 .. Len(stack)
        BY <1>1, <3>2, <3>4
      <4>2. Plain(stack[i])
        BY <1>0, <4>1 DEF OpenStack
      <4>3. QED
        BY <3>2, <4>2 DEF Plain
    <3>5. QED
      BY <3>3, <3>4
  <2>3. QED
    BY <1>1, <2>1, <2>2
<1>7. QED
  BY <1>3, <1>4, <1>5, <1>6 DEF DeleteInv

(* Steps outside close and delete.                                         *)
LEMMA QuietStep ==
  ASSUME MemInv, NEW n \in {0, 1, 2}, NEW m \in {0, 1}, Over(n, m),
         \A k \in 1 .. n : Plain(stack[k])',
         ~owner /\ ~LiveClose /\ ~(SyncIo /\ DeleteInOnClosed) =>
           \A k \in 1 .. n : stack'[k].fn \in Late,
         owner' = owner, closed' = closed, LiveClose => LiveClose',
         closed /\ receiving' => receiving,
         IF m = 1 THEN stack # <<>> /\ stack[1].fn \notin Shutting \cup {"close"}
         ELSE stack = <<>> \/ stack[1].fn = "foreign"
  PROVE  DeleteInv'
<1>1. TypeOK /\ DeleteInv /\ ClosedFirst /\ n \in Nat
  BY DEF MemInv, IInv, DeleteInv
<1>2. \A k \in 1 .. n : /\ ~Ending(stack[k])' /\ stack'[k].fn # "deleteTail"
                        /\ stack'[k].fn \notin Shutting
  BY DEF Plain, Ending, Deleting, Shutting, ReqFn, StepFn
<1>3. ~owner /\ ~LiveClose' => \A k \in 1 .. n : Calm(stack[k])'
  BY DEF Calm
<1>4. ~(stack # <<>> /\ stack[1].fn = "close")
  OBVIOUS
<1>5. ASSUME closed', receiving' PROVE \E k \in 1 .. Len(stack') : stack'[k].fn \in Shutting
  <2>1. PICK k \in 1 .. Len(stack) : stack[k].fn \in Shutting
    BY <1>1, <1>5 DEF ClosedFirst
  <2>2. k \in m + 1 .. Len(stack)
    <3>1. Len(stack) \in Nat
      BY <1>1, StackFrames
    <3>2. m = 1 => k # 1
      BY <2>1
    <3>3. QED
      BY <3>1, <3>2
  <2>3. k - m + n \in 1 .. Len(stack') /\ stack'[k - m + n] = stack[k]
    BY <1>1, <2>2, FrameStays
  <2>4. QED
    BY <2>1, <2>3
<1>6. m = 1 \/ stack = <<>> \/ Plain(stack[1])
  BY DEF Plain
<1>7. \A k \in 2 .. n : Plain(stack[k])'
  OBVIOUS
<1>8. QED
  BY <1>1, <1>2, <1>3, <1>4, <1>5, <1>6, <1>7, KeepMem

LEMMA DeleteInvStep ==
  ASSUME MemInv, [Next]_vars
  PROVE  DeleteInv'
<1>1. /\ TypeOK /\ ReqInv /\ OneDelete /\ DeleteInv /\ AsyncErrors
      /\ BelowDelete /\ ClosedFirst /\ AfterDelete /\ OpenStack
      /\ closed \in BOOLEAN /\ owner \in BOOLEAN /\ receiving \in BOOLEAN
      /\ stack \in Seq(Frame)
  BY DEF MemInv, IInv, TypeOK, DeleteInv
<1>2. LiveClose => LiveClose'
  BY <1>1, LiveCloseStays
<1>3. /\ \A fn \in CtxFn : C(fn) \in Frame
      /\ \A fn : C(fn).fn = fn /\ C(fn).req = NoReq
      /\ \A fn \in ReqFn, r \in Req : F(fn, r) \in Frame
      /\ \A fn, r : F(fn, r).fn = fn /\ F(fn, r).req = r
  BY FrameType DEF C, F
<1>4. {"step1", "step2", "close", "closeRefs", "ioClose", "onClosed", "delete", "deleteTail",
        "foreign"} = CtxFn
  BY DEF CtxFn
<1>5. /\ First \subseteq ReqFn /\ StepFn \subseteq ReqFn /\ Late \subseteq ReqFn
      /\ {"freeRef1", "freeSlot"} \subseteq ReqFn
      /\ ReqFn \cap CtxFn = {}
  BY DEF First, Late, ReqFn, StepFn, CtxFn
<1>6. Len(stack) \in Nat /\ (stack # <<>> => 1 \in 1 .. Len(stack))
  BY <1>1, StackFrames
(* With a frame of close, delete or step2 on top, the creator has its      *)
(* reference.                                                              *)
<1>7. ASSUME stack # <<>>, stack[1].fn \in CtxFn \ {"close", "step1", "foreign"}
      PROVE  owner \/ LiveClose'
  <2>1. ~Calm(stack[1]) /\ ~Closes(1)
    BY <1>4, <1>5, <1>7 DEF Calm, Plain, Closes
  <2>2. QED
    BY <1>1, <1>2, <1>6, <1>7, <2>1 DEF AfterDelete
(* What a quiet step may begin when the creator's reference has gone.      *)
<1> DEFINE Rest(f) == ~owner /\ ~LiveClose /\ ~(SyncIo /\ DeleteInOnClosed) => f.fn \in Late
<1>8. ASSUME stack # <<>>, ~owner, ~LiveClose, ~(SyncIo /\ DeleteInOnClosed)
      PROVE  closed /\ (stack[1].fn \in Late \/ stack[1].fn = "close")
  BY <1>1, <1>6, <1>8 DEF AfterDelete, ClosedFirst, Calm, Closes
<1>9. ASSUME stack # <<>>, stack[1].fn \notin Shutting \cup {"close"}, owner' = owner, closed' = closed,
             closed /\ receiving' => receiving, stack' = Pop
      PROVE  DeleteInv'
  <2>1. Over(0, 1)
    BY <1>1, <1>9, Popped
  <2>2. PICK n \in {0, 1, 2}, m \in {0, 1} : n = 0 /\ m = 1
    OBVIOUS
  <2>3. \A k \in 1 .. n : FALSE
    BY <2>2
  <2>4. Over(n, m)
    BY <2>1, <2>2
  <2>5. QED
    BY <1>2, <1>9, <2>2, <2>3, <2>4, QuietStep
<1>10. ASSUME stack # <<>>, stack[1].fn \notin Shutting \cup {"close"}, owner' = owner, closed' = closed,
              closed /\ receiving' => receiving,
              NEW f \in Frame, Plain(f), Rest(f), stack' = <<f>> \o Pop
       PROVE  DeleteInv'
  <2>1. Over(1, 1) /\ stack'[1] = f
    BY <1>1, <1>10, OnePushed
  <2>2. PICK n \in {0, 1, 2}, m \in {0, 1} : n = 1 /\ m = 1
    OBVIOUS
  <2>3. \A k \in 1 .. n : stack'[k] = f
    BY <2>1, <2>2
  <2>4. Over(n, m)
    BY <2>1, <2>2
  <2>5. \A k \in 1 .. n : Plain(stack[k])'
    BY <1>10, <2>3 DEF Plain
  <2>6. ~owner /\ ~LiveClose /\ ~(SyncIo /\ DeleteInOnClosed) => \A k \in 1 .. n : stack'[k].fn \in Late
    BY <1>10, <2>3
  <2>7. QED
    BY <1>2, <1>10, <2>2, <2>4, <2>5, <2>6, QuietStep
<1>11. ASSUME stack # <<>>, stack[1].fn \notin Shutting \cup {"close"}, owner' = owner, closed' = closed,
              closed /\ receiving' => receiving,
              NEW f \in Frame, Plain(f), Rest(f), NEW g \in Frame, Plain(g), Rest(g),
              stack' = <<f, g>> \o Pop
       PROVE  DeleteInv'
  <2>1. Over(2, 1) /\ stack'[1] = f /\ stack'[2] = g
    BY <1>1, <1>11, TwoPushed
  <2>2. PICK n \in {0, 1, 2}, m \in {0, 1} : n = 2 /\ m = 1
    OBVIOUS
  <2>3. \A k \in 1 .. n : stack'[k] = f \/ stack'[k] = g
    BY <2>1, <2>2
  <2>4. Over(n, m)
    BY <2>1, <2>2
  <2>5. \A k \in 1 .. n : Plain(stack[k])'
    BY <1>11, <2>3 DEF Plain
  <2>6. ~owner /\ ~LiveClose /\ ~(SyncIo /\ DeleteInOnClosed) => \A k \in 1 .. n : stack'[k].fn \in Late
    BY <1>11, <2>3
  <2>7. QED
    BY <1>2, <1>11, <2>2, <2>4, <2>5, <2>6, QuietStep
<1>12. ASSUME stack = <<>> \/ stack[1].fn = "foreign", owner' = owner, closed' = closed,
              receiving' = receiving, NEW f \in Frame, Plain(f), Rest(f), stack' = <<f>> \o stack
       PROVE  DeleteInv'
  <2>1. Over(1, 0) /\ stack'[1] = f
    BY <1>1, <1>12, OneAdded
  <2>2. PICK n \in {0, 1, 2}, m \in {0, 1} : n = 1 /\ m = 0
    OBVIOUS
  <2>3. \A k \in 1 .. n : stack'[k] = f
    BY <2>1, <2>2
  <2>4. Over(n, m)
    BY <2>1, <2>2
  <2>5. \A k \in 1 .. n : Plain(stack[k])'
    BY <1>12, <2>3 DEF Plain
  <2>6. ~owner /\ ~LiveClose /\ ~(SyncIo /\ DeleteInOnClosed) => \A k \in 1 .. n : stack'[k].fn \in Late
    BY <1>12, <2>3
  <2>7. QED
    BY <1>2, <1>12, <2>2, <2>4, <2>5, <2>6, QuietStep
<1>13. /\ C("foreign") \in Frame /\ C("step1") \in Frame
       /\ Plain(C("foreign")) /\ Plain(C("step1"))
       /\ \A fn \in ReqFn, r \in Req : Plain(F(fn, r))
       /\ \A fn \in Late, r \in Req : F(fn, r) \in Frame /\ Plain(F(fn, r)) /\ Rest(F(fn, r))
  BY <1>3, <1>4, <1>5 DEF Plain
<1> HIDE DEF Rest
<1>14. owner => \A f : Rest(f)
  BY DEF Rest
<1>15. ~closed => \A f : Rest(f)
  BY <1>1 DEF Rest, ClosedFirst
(* Steps of requests. *)
<1>16. ASSUME NEW r \in Req,
              \/ Call1(r) \/ GetFunc1(r) \/ FreeRef1(r) \/ FreeSlot(r) \/ GetInfo1(r) \/ Poll1(r)
              \/ Poll3Again(r)
       PROVE  DeleteInv'
  <2>1. /\ stack # <<>> /\ UNCHANGED <<owner, closed, receiving>>
        /\ stack[1].fn \in {"call1", "getFunc1", "freeRef1", "freeSlot", "getInfo1", "poll1", "poll3Tail"}
        /\ stack[1].fn = "poll3Tail" => ~closed
    BY <1>16 DEF Call1, GetFunc1, FreeRef1, FreeSlot, GetInfo1, Poll1, Poll3Again, At, ctxVars,
                 ioVars
  <2>2. stack[1].fn \notin Shutting \cup {"close"}
    BY <2>1 DEF Shutting
  <2>3. \A f : Rest(f)
    <3>1. owner \/ LiveClose \/ (SyncIo /\ DeleteInOnClosed)
      BY <1>8, <2>1 DEF Late
    <3>2. QED
      BY <3>1 DEF Rest
  <2>4. \/ stack' = <<C("foreign")>> \o Pop
        \/ \E fn \in {"call2", "freeRef1"} : stack' = <<F(fn, r)>> \o Pop
        \/ stack' = <<C("foreign"), F("freeSlot", r)>> \o Pop
    BY <1>16 DEF Call1, GetFunc1, FreeRef1, FreeSlot, GetInfo1, Poll1, Poll3Again, Invoke
  <2>5. CASE stack' = <<C("foreign")>> \o Pop
    BY <1>10, <1>13, <2>1, <2>2, <2>3, <2>5
  <2>6. ASSUME NEW fn \in {"call2", "freeRef1"}, stack' = <<F(fn, r)>> \o Pop PROVE DeleteInv'
    <3>1. fn \in ReqFn
      BY <1>5 DEF Late
    <3>2. F(fn, r) \in Frame /\ Plain(F(fn, r))
      BY <1>3, <1>13, <3>1
    <3>3. QED
      BY <1>10, <2>1, <2>2, <2>3, <2>6, <3>2
  <2>7. CASE stack' = <<C("foreign"), F("freeSlot", r)>> \o Pop
    <3>1. F("freeSlot", r) \in Frame /\ Plain(F("freeSlot", r))
      BY <1>3, <1>5, <1>13
    <3>2. QED
      BY <1>11, <1>13, <2>1, <2>2, <2>3, <2>7, <3>1
  <2>8. QED
    BY <2>4, <2>5, <2>6, <2>7
<1>17. ASSUME NEW r \in Req, Call2(r) \/ Poll2(r) \/ Poll3Finish(r) \/ FinishTail(r)
       PROVE  DeleteInv'
  <2>1. stack # <<>> /\ stack[1].fn \in Late /\ UNCHANGED <<owner, closed, receiving>>
    BY <1>17 DEF Call2, Poll2, Poll3Finish, FinishTail, At, ctxVars, ioVars, Late
  <2>2. stack[1].fn \notin Shutting \cup {"close"}
    BY <2>1 DEF Shutting, Late
  <2>3. \/ stack' = Pop \/ stack' = <<F("finish", r)>> \o Pop
        \/ ~closed /\ stack' = <<C("foreign")>> \o Pop
    BY <1>17 DEF Call2, Poll2, Poll3Finish, FinishTail, WriteResult
  <2>4. CASE stack' = Pop
    BY <1>9, <2>1, <2>2, <2>4
  <2>5. CASE stack' = <<F("finish", r)>> \o Pop
    <3>1. F("finish", r) \in Frame /\ Plain(F("finish", r)) /\ Rest(F("finish", r))
      BY <1>13 DEF Late
    <3>2. QED
      BY <1>10, <2>1, <2>2, <2>5, <3>1
  <2>6. CASE ~closed /\ stack' = <<C("foreign")>> \o Pop
    BY <1>10, <1>13, <1>15, <2>1, <2>2, <2>6
  <2>7. QED
    BY <2>3, <2>4, <2>5, <2>6
<1>18. ASSUME NEW r \in Req, Poll3(r) \/ Finish(r) PROVE DeleteInv'
  <2>1. PICK fn \in {"finishTail", "poll3Tail"} :
          stack' = (IF sendErr THEN <<C("close")>> ELSE <<>>) \o <<F(fn, r)>> \o Pop
    BY <1>18 DEF Poll3, Finish
  <2>2. stack # <<>> /\ stack[1].fn \in {"poll3", "finish"} /\ UNCHANGED <<owner, closed, receiving>>
    BY <1>18 DEF Poll3, Finish, At, ctxVars, ioVars
  <2>3. F(fn, r) \in Frame /\ F(fn, r).fn \in Late /\ Plain(F(fn, r)) /\ Rest(F(fn, r))
    BY <1>3, <1>13 DEF Late
  <2>4. Pop \in Seq(Frame) /\ stack[1].fn \notin Shutting \cup {"close"}
    BY <1>1, <2>2, PopType DEF Pop, Shutting
  <2>5. CASE ~sendErr
    <3>1. stack' = <<F(fn, r)>> \o Pop
      BY <2>1, <2>4, <2>5
    <3>2. QED
      BY <1>10, <2>2, <2>3, <2>4, <3>1
  <2>6. CASE sendErr
    <3>1. stack' = <<C("close"), F(fn, r)>> \o Pop
      BY <2>1, <2>4, <2>6
    <3>2. Over(2, 1) /\ stack'[1] = C("close") /\ stack'[2] = F(fn, r)
      BY <1>1, <1>3, <1>4, <2>2, <2>3, <3>1, TwoPushed
    <3>3. stack'[2].fn \in Late /\ stack'[1].fn = "close" /\ stack'[2].fn \in ReqFn
      BY <1>3, <1>5, <2>3, <3>2
    <3>4. \A k \in 1 .. 2 : k = 1 \/ k = 2
      OBVIOUS
    <3>5. Calm(stack[2])' /\ Plain(stack[2])' /\ ~Ending(stack[2])'
          /\ stack'[2].fn \notin Shutting /\ stack'[2].fn # "deleteTail"
      BY <1>5, <3>3 DEF Calm, Plain, Ending, Deleting, Late, Shutting
    <3>6. Len(stack') > 1
      <4>1. Len(stack') = 2 + Len(stack) - 1
        BY <3>2 DEF Over
      <4>2. QED
        BY <1>6, <2>2, <4>1
    <3>7. Closes(1)'
      BY <3>3, <3>6 DEF Closes
    <3>8. ASSUME Ending(stack[1])', NEW j \in 1 + 1 .. Len(stack) PROVE Calm(stack[j]) \/ LiveClose'
      <4>1. DeleteInOnClosed /\ ~closed
        BY <2>2, <3>3, <3>8 DEF Ending, Deleting
      <4>2. CASE SyncIo
        <5>1. Plain(stack[j])
          BY <1>1, <3>8, <4>1 DEF OpenStack
        <5>2. QED
          BY <4>1, <4>2, <5>1 DEF Calm
      <4>3. CASE ~SyncIo
        <5>1. Len(stack) = 1
          BY <1>1, <2>2, <2>6, <4>1, <4>3 DEF AsyncErrors
        <5>2. QED
          BY <3>8, <5>1
      <4>4. QED
        BY <4>2, <4>3
    <3>9. \A k \in 1 .. 2 : Ending(stack[k])' =>
            /\ \A j \in k + 1 .. 2 : Calm(stack[j])' \/ LiveClose'
            /\ \A j \in 1 + 1 .. Len(stack) : Calm(stack[j]) \/ LiveClose'
      <4>1. \A k \in 1 .. 2 : Ending(stack[k])' => k = 1
        BY <3>4, <3>5
      <4>2. \A j \in 1 + 1 .. 2 : Calm(stack[j])'
        BY <3>5
      <4>3. QED
        BY <3>8, <4>1, <4>2
    <3>10. \A k \in 1 .. 2 : Calm(stack[k])' \/ Closes(k)'
      BY <3>4, <3>5, <3>7
    <3>11. \A k \in 1 .. 2 : stack'[k].fn # "deleteTail" /\ stack'[k].fn \notin Shutting
      BY <3>3, <3>4, <3>5 DEF Shutting
    <3>12. ~(stack # <<>> /\ stack[1].fn = "close")
      BY <2>2
    <3>13. \A k \in 2 .. 2 : Plain(stack[k])'
      BY <3>5
    <3>14. ASSUME closed', receiving' PROVE \E k \in 1 .. Len(stack') : stack'[k].fn \in Shutting
      <4>1. PICK k \in 1 .. Len(stack) : stack[k].fn \in Shutting
        BY <1>1, <2>2, <3>14 DEF ClosedFirst
      <4>2. k \in 1 + 1 .. Len(stack)
        BY <1>6, <2>4, <4>1
      <4>3. k - 1 + 2 \in 1 .. Len(stack') /\ stack'[k - 1 + 2] = stack[k]
        BY <1>1, <3>2, <4>2, FrameStays
      <4>4. QED
        BY <4>1, <4>3
    <3>15. QED
      BY <1>1, <1>2, <2>2, <3>2, <3>9, <3>10, <3>11, <3>12, <3>13, <3>14, KeepMem
  <2>7. QED
    BY <2>5, <2>6
<1>19. ASSUME NEW r \in Req, Close1(r) PROVE DeleteInv'
  <2>1. /\ stack # <<>> /\ stack[1].fn = "close1" /\ stack' = <<C("close")>> \o Pop
        /\ At("close1") /\ stack[1].req = r
        /\ UNCHANGED <<owner, closed, receiving, rstate, op>>
    BY <1>19 DEF Close1, At, ctxVars, ioVars, headVars
  <2>2. op[r] = "close" /\ r \in Live
    BY <1>1, <1>5, <2>1, TopReq DEF First, Phase
  <2>3. LiveClose'
    BY <2>1, <2>2 DEF LiveClose, Live
  <2>4. Over(1, 1) /\ stack'[1] = C("close")
    BY <1>1, <1>3, <1>4, <2>1, OnePushed
  <2>5. \A k \in 1 .. 1 : stack'[k].fn # "deleteTail" /\ stack'[k].fn \notin Shutting
    BY <1>3, <2>4 DEF Shutting
  <2>6. ~(stack # <<>> /\ stack[1].fn = "close")
    BY <2>1
  <2>7. ASSUME closed', receiving' PROVE \E k \in 1 .. Len(stack') : stack'[k].fn \in Shutting
    <3>1. PICK k \in 1 .. Len(stack) : stack[k].fn \in Shutting
      BY <1>1, <2>1, <2>7 DEF ClosedFirst
    <3>2. k \in 1 + 1 .. Len(stack)
      BY <1>6, <2>1, <3>1 DEF Shutting
    <3>3. k - 1 + 1 \in 1 .. Len(stack') /\ stack'[k - 1 + 1] = stack[k]
      BY <1>1, <2>4, <3>2, FrameStays
    <3>4. QED
      BY <3>1, <3>3
  <2>8. \A k \in 2 .. 1 : FALSE
    OBVIOUS
  <2>9. QED
    BY <1>1, <1>2, <2>1, <2>3, <2>4, <2>5, <2>6, <2>7, <2>8, KeepMem
<1>20. ASSUME NEW r \in Req, Step2Packet(r) PROVE DeleteInv'
  <2>1. PICK o \in Op : stack' = <<F(Handler(o), r), C("step1")>> \o Pop
    BY <1>20 DEF Step2Packet
  <2>2. stack # <<>> /\ stack[1].fn = "step2" /\ ~closed /\ UNCHANGED <<owner, closed, receiving>>
    BY <1>20 DEF Step2Packet, At, ioVars
  <2>3. Handler(o) \in ReqFn
    BY <1>5, HandlerType
  <2>4. F(Handler(o), r) \in Frame /\ Plain(F(Handler(o), r))
    BY <1>3, <1>13, <2>3
  <2>5. QED
    BY <1>11, <1>13, <1>15, <2>1, <2>2, <2>4 DEF Shutting
(* A close on its way to io->close stays on the stack. *)
<1>21. ASSUME NEW n \in Nat, NEW m \in {0, 1}, Over(n, m), closed, receiving,
              m = 1 => stack[1].fn \notin Shutting
       PROVE  \E k \in 1 .. Len(stack') : stack'[k].fn \in Shutting
  <2>1. PICK k \in 1 .. Len(stack) : stack[k].fn \in Shutting
    BY <1>1, <1>21 DEF ClosedFirst
  <2>2. k \in m + 1 .. Len(stack)
    <3>1. m = 1 => k # 1
      BY <1>21, <2>1
    <3>2. QED
      BY <1>6, <3>1
  <2>3. k - m + n \in 1 .. Len(stack') /\ stack'[k - m + n] = stack[k]
    BY <1>1, <1>21, <2>2, FrameStays
  <2>4. QED
    BY <2>1, <2>3
(* Steps of the context. *)
<1>22. CASE Step1
  <2>1. stack # <<>> /\ stack[1].fn = "step1" /\ UNCHANGED <<owner, closed>>
    BY <1>22 DEF Step1, At, ctxVars
  <2>2. stack[1].fn \notin Shutting \cup {"close"}
    BY <2>1 DEF Shutting
  <2>3. CASE closed
    <3>1. stack' = Pop /\ receiving' = receiving
      BY <1>22, <2>3 DEF Step1
    <3>2. QED
      BY <1>9, <2>1, <2>2, <3>1
  <2>4. CASE ~closed
    <3>1. stack' = <<C("foreign")>> \o Pop
      BY <1>22, <2>4 DEF Step1
    <3>2. QED
      BY <1>10, <1>13, <1>15, <2>1, <2>2, <2>4, <3>1
  <2>5. QED
    BY <2>3, <2>4
<1>23. CASE ForeignReturns
  <2>1. /\ stack # <<>> /\ stack[1].fn = "foreign" /\ stack' = Pop
        /\ UNCHANGED <<owner, closed, receiving>>
    BY <1>23 DEF ForeignReturns, Foreign, ctxVars, ioVars
  <2>2. stack[1].fn \notin Shutting \cup {"close"}
    BY <2>1 DEF Shutting
  <2>3. QED
    BY <1>9, <2>1, <2>2
<1>24. CASE Step2End
  <2>1. stack # <<>> /\ stack[1].fn = "step2" /\ UNCHANGED <<owner, closed, receiving>>
    BY <1>24 DEF Step2End, At, ctxVars, ioVars
  <2>2. stack[1].fn \notin Shutting \cup {"close"}
    BY <2>1 DEF Shutting
  <2>3. CASE closed
    BY <1>9, <1>24, <2>1, <2>2, <2>3 DEF Step2End
  <2>4. CASE ~closed
    <3>1. stack' = <<C("close")>> \o Pop
      BY <1>24, <2>4 DEF Step2End
    <3>2. Over(1, 1) /\ stack'[1] = C("close")
      BY <1>1, <1>3, <1>4, <2>1, <3>1, OnePushed
    <3>3. \A k \in 1 .. 1 : stack'[k].fn # "deleteTail" /\ stack'[k].fn \notin Shutting
      BY <1>3, <3>2 DEF Shutting
    <3>4. ~(stack # <<>> /\ stack[1].fn = "close")
      BY <2>1
    <3>5. owner
      BY <1>1, <2>4 DEF ClosedFirst
    <3>6. ASSUME DeleteInOnClosed, NEW j \in 1 + 1 .. Len(stack) PROVE Calm(stack[j])
      <4>1. CASE SyncIo
        <5>1. Plain(stack[j])
          BY <1>1, <2>4, <3>6 DEF OpenStack
        <5>2. QED
          BY <3>6, <4>1, <5>1 DEF Calm
      <4>2. CASE ~SyncIo
        <5>1. Len(stack) = 1
          BY <1>1, <1>6, <2>1, <4>2 DEF AsyncErrors
        <5>2. QED
          BY <3>6, <5>1
      <4>3. QED
        BY <4>1, <4>2
    <3>7. \A k \in 1 .. 1 : Ending(stack[k])' =>
            /\ \A j \in k + 1 .. 1 : Calm(stack[j])' \/ LiveClose'
            /\ \A j \in 1 + 1 .. Len(stack) : Calm(stack[j]) \/ LiveClose'
      <4>1. Ending(stack[1])' => DeleteInOnClosed
        BY <1>3, <3>2 DEF Ending, Deleting
      <4>2. \A k \in 1 .. 1 : k = 1 /\ \A j \in k + 1 .. 1 : FALSE
        OBVIOUS
      <4>3. QED
        BY <3>6, <4>1, <4>2
    <3>8. \A k \in 2 .. 1 : FALSE
      OBVIOUS
    <3>9. QED
      BY <1>1, <1>2, <2>1, <2>4, <3>2, <3>3, <3>4, <3>5, <3>7, <3>8, KeepMem
  <2>5. QED
    BY <2>3, <2>4
<1>25. CASE ServerClose
  <2>1. /\ stack # <<>> /\ stack[1].fn = "close" /\ UNCHANGED <<owner, receiving>>
    BY <1>25 DEF ServerClose, At, ioVars
  <2>2. stack[1].fn \notin Shutting
    BY <2>1 DEF Shutting
  <2>3. CASE closed
    <3>1. stack' = Pop /\ closed' = closed
      BY <1>25, <2>3 DEF ServerClose
    <3>2. Over(0, 1)
      BY <1>1, <2>1, <3>1, Popped
    <3>3. \A k \in 1 .. 0 : FALSE
      OBVIOUS
    <3>4. closed' /\ receiving' => \E k \in 1 .. Len(stack') : stack'[k].fn \in Shutting
      BY <1>21, <2>1, <2>2, <2>3, <3>2
    <3>5. QED
      BY <1>1, <1>2, <2>1, <2>3, <3>1, <3>2, <3>3, <3>4, KeepMem
  <2>4. CASE ~closed
    <3>1. stack' = <<C("foreign"), C("closeRefs")>> \o Pop /\ closed'
      BY <1>25, <2>4 DEF ServerClose
    <3>2. Over(2, 1) /\ stack'[1] = C("foreign") /\ stack'[2] = C("closeRefs")
      BY <1>1, <1>3, <1>4, <2>1, <3>1, TwoPushed
    <3>3. \A k \in 1 .. 2 : k = 1 \/ k = 2
      OBVIOUS
    <3>4. \A k \in 1 .. 2 : stack'[k].fn # "deleteTail"
      BY <1>3, <3>2, <3>3
    <3>5. owner
      BY <1>1, <2>4 DEF ClosedFirst
    <3>6. ASSUME DeleteInOnClosed PROVE \A j \in 1 + 1 .. Len(stack) : Calm(stack[j]) \/ LiveClose'
      <4>1. Ending(stack[1])
        BY <2>1, <2>4, <3>6 DEF Ending
      <4>2. QED
        BY <1>1, <1>2, <1>6, <2>1, <4>1 DEF BelowDelete
    <3>7. \A k \in 1 .. 2 : Ending(stack[k])' =>
            /\ \A j \in k + 1 .. 2 : Calm(stack[j])' \/ LiveClose'
            /\ \A j \in 1 + 1 .. Len(stack) : Calm(stack[j]) \/ LiveClose'
      <4>1. ~Ending(stack[1])'
        BY <1>3, <3>2 DEF Ending, Deleting
      <4>2. Ending(stack[2])' => DeleteInOnClosed
        BY <1>3, <3>2 DEF Ending, Deleting
      <4>3. \A j \in 2 + 1 .. 2 : FALSE
        OBVIOUS
      <4>4. QED
        BY <3>3, <3>6, <4>1, <4>2, <4>3
    <3>8. stack'[2].fn \in Shutting
      BY <1>3, <3>2 DEF Shutting
    <3>9. 2 \in 1 .. Len(stack')
      <4>1. Len(stack') = 2 + Len(stack) - 1
        BY <3>2 DEF Over
      <4>2. QED
        BY <1>6, <2>1, <4>1
    <3>10. QED
      BY <1>1, <1>2, <2>1, <3>1, <3>2, <3>4, <3>5, <3>7, <3>8, <3>9, KeepMem
  <2>5. QED
    BY <2>3, <2>4
<1>26. CASE CloseRefs
  <2>1. /\ stack # <<>> /\ stack[1].fn = "closeRefs" /\ UNCHANGED <<owner, closed, receiving>>
        /\ stack' = <<C("ioClose"), C("onClosed")>> \o Pop
    BY <1>26 DEF CloseRefs, At, ctxVars, ioVars
  <2>2. Over(2, 1) /\ stack'[1] = C("ioClose") /\ stack'[2] = C("onClosed")
    BY <1>1, <1>3, <1>4, <2>1, TwoPushed
  <2>3. \A k \in 1 .. 2 : k = 1 \/ k = 2
    OBVIOUS
  <2>4. closed
    BY <1>1, <1>6, <2>1 DEF ClosedFirst, Shutting
  <2>5. owner \/ LiveClose'
    BY <1>4, <1>7, <2>1
  <2>6. \A k \in 1 .. 2 : stack'[k].fn # "deleteTail"
    BY <1>3, <2>2, <2>3
  <2>7. ASSUME DeleteInOnClosed PROVE \A j \in 1 + 1 .. Len(stack) : Calm(stack[j]) \/ LiveClose'
    <3>1. Ending(stack[1])
      BY <2>1, <2>7 DEF Ending, Deleting
    <3>2. QED
      BY <1>1, <1>2, <1>6, <2>1, <3>1 DEF BelowDelete
  <2>8. \A k \in 1 .. 2 : Ending(stack[k])' =>
          /\ \A j \in k + 1 .. 2 : Calm(stack[j])' \/ LiveClose'
          /\ \A j \in 1 + 1 .. Len(stack) : Calm(stack[j]) \/ LiveClose'
    <3>1. ~Ending(stack[1])'
      BY <1>3, <2>2 DEF Ending, Deleting
    <3>2. Ending(stack[2])' => DeleteInOnClosed
      BY <1>3, <2>2 DEF Ending, Deleting
    <3>3. \A j \in 2 + 1 .. 2 : FALSE
      OBVIOUS
    <3>4. QED
      BY <2>3, <2>7, <3>1, <3>2, <3>3
  <2>9. stack'[1].fn \in Shutting
    BY <1>3, <2>2 DEF Shutting
  <2>10. 1 \in 1 .. Len(stack')
    <3>1. Len(stack') = 2 + Len(stack) - 1
      BY <2>2 DEF Over
    <3>2. QED
      BY <1>6, <2>1, <3>1
  <2>11. ~(stack # <<>> /\ stack[1].fn = "close")
    BY <2>1
  <2>12. QED
    BY <1>1, <1>2, <2>1, <2>2, <2>4, <2>5, <2>6, <2>8, <2>9, <2>10, <2>11, KeepMem
(* A step that begins at most one frame, and that no close.                *)
<1>27. ASSUME NEW n \in {0, 1}, NEW m \in {0, 1}, Over(n, m), UNCHANGED <<owner, closed>>, ~receiving',
              n = 1 => stack'[1].fn \in ReqFn \cup {"step2", "foreign"},
              owner \/ LiveClose', closed \/ stack = <<>> \/ stack[1].fn = "foreign",
              ~(stack # <<>> /\ stack[1].fn = "close")
       PROVE  DeleteInv'
  <2>1. \A k \in 1 .. n : k = 1 /\ n = 1
    BY <1>27
  <2>2. \A k \in 1 .. n : stack'[k].fn \in ReqFn \cup {"step2", "foreign"}
    BY <1>27, <2>1
  <2>3. \A k \in 1 .. n : /\ ~Ending(stack[k])' /\ stack'[k].fn # "deleteTail"
                          /\ stack'[k].fn \notin Shutting
    BY <2>2 DEF Ending, Deleting, Shutting, ReqFn, StepFn
  <2>4. \A k \in 2 .. n : FALSE
    BY <1>27
  <2>5. closed \/ stack = <<>> \/ Plain(stack[1])
    BY <1>27 DEF Plain
  <2>6. n \in Nat
    BY <1>27
  <2>7. QED
    BY <1>1, <1>2, <1>27, <2>3, <2>4, <2>5, <2>6, KeepMem
<1>28. CASE IoClose
  <2>1. stack # <<>> /\ stack[1].fn = "ioClose" /\ UNCHANGED <<owner, closed>> /\ ~receiving'
    BY <1>28 DEF IoClose, At, ctxVars
  <2>2. closed
    BY <1>1, <1>6, <2>1 DEF ClosedFirst, Shutting
  <2>3. owner \/ LiveClose'
    BY <1>4, <1>7, <2>1
  <2>4. \/ stack' = Pop \/ stack' = <<C("foreign")>> \o Pop \/ stack' = <<C("step2")>> \o stack
        \/ sendQ # <<>> /\ stack' = <<F(next[sendQ[1]], sendQ[1])>> \o stack
    BY <1>28 DEF IoClose
  <2>5. PICK zero \in {0, 1}, one \in {0, 1} : zero = 0 /\ one = 1
    OBVIOUS
  <2>6. CASE stack' = Pop
    <3>1. Over(zero, one)
      BY <1>1, <2>1, <2>5, <2>6, Popped
    <3>2. QED
      BY <1>27, <2>1, <2>2, <2>3, <2>5, <3>1
  <2>7. CASE stack' = <<C("foreign")>> \o Pop
    <3>1. Over(1, 1) /\ stack'[1] = C("foreign")
      BY <1>1, <1>13, <2>1, <2>7, OnePushed
    <3>2. Over(one, one) /\ stack'[1].fn = "foreign"
      BY <1>3, <2>5, <3>1
    <3>3. QED
      BY <1>27, <2>1, <2>2, <2>3, <2>5, <3>2
  <2>8. CASE stack' = <<C("step2")>> \o stack
    <3>1. Over(1, 0) /\ stack'[1] = C("step2")
      BY <1>1, <1>3, <1>4, <2>8, OneAdded
    <3>2. Over(one, zero) /\ stack'[1].fn = "step2"
      BY <1>3, <2>5, <3>1
    <3>3. QED
      BY <1>27, <2>1, <2>2, <2>3, <2>5, <3>2
  <2>9. CASE sendQ # <<>> /\ stack' = <<F(next[sendQ[1]], sendQ[1])>> \o stack
    <3>1. sendQ[1] \in Req
      BY <1>1, <2>9 DEF TypeOK
    <3>2. next[sendQ[1]] \in ReqFn
      BY <1>1, <1>5, <3>1 DEF TypeOK
    <3>3. Over(1, 0) /\ stack'[1] = F(next[sendQ[1]], sendQ[1])
      BY <1>1, <1>3, <2>9, <3>1, <3>2, OneAdded
    <3>4. Over(one, zero) /\ stack'[1].fn \in ReqFn
      BY <1>3, <2>5, <3>2, <3>3
    <3>5. QED
      BY <1>27, <2>1, <2>2, <2>3, <2>5, <3>4
  <2>10. QED
    BY <2>4, <2>6, <2>7, <2>8, <2>9
<1>29. CASE IoReceived
  <2>1. /\ stack = <<>> \/ stack[1].fn = "foreign"
        /\ receiving /\ ~receiving' /\ stack' = <<C("step2")>> \o stack
        /\ UNCHANGED <<owner, closed>>
    BY <1>29 DEF IoReceived, IoRuns, AtEventLoop, Foreign, ctxVars
  <2>2. PICK zero \in {0, 1}, one \in {0, 1} : zero = 0 /\ one = 1
    OBVIOUS
  <2>3. Over(1, 0) /\ stack'[1] = C("step2")
    BY <1>1, <1>3, <1>4, <2>1, OneAdded
  <2>4. Over(one, zero) /\ stack'[1].fn = "step2"
    BY <1>3, <2>2, <2>3
  <2>5. owner \/ LiveClose'
    <3>1. CASE ~owner /\ ~LiveClose
      <4>1. PICK k \in 1 .. Len(stack) : stack[k].fn \in Shutting
        BY <1>1, <2>1, <3>1 DEF ClosedFirst
      <4>2. ~Calm(stack[k]) /\ ~Closes(k)
        BY <1>4, <1>5, <4>1 DEF Calm, Plain, Closes, Shutting
      <4>3. QED
        BY <1>1, <3>1, <4>2 DEF AfterDelete
    <3>2. QED
      BY <1>2, <3>1
  <2>6. ~(stack # <<>> /\ stack[1].fn = "close")
    BY <2>1
  <2>7. QED
    BY <1>27, <2>1, <2>2, <2>4, <2>5, <2>6
<1>30. CASE OnClosed
  <2>1. stack # <<>> /\ stack[1].fn = "onClosed" /\ UNCHANGED <<owner, closed, receiving>>
    BY <1>30 DEF OnClosed, At, ctxVars, ioVars
  <2>2. Pop \in Seq(Frame) /\ stack[1].fn \notin Shutting \cup {"close"}
    BY <1>1, <2>1, PopType DEF Pop, Shutting
  <2>3. CASE ~DeleteInOnClosed
    <3>1. stack' = Pop
      BY <1>30, <2>2, <2>3 DEF OnClosed
    <3>2. QED
      BY <1>9, <2>1, <2>2, <3>1
  <2>4. CASE DeleteInOnClosed
    <3>1. stack' = <<C("delete")>> \o Pop
      BY <1>30, <2>4 DEF OnClosed
    <3>2. Over(1, 1) /\ stack'[1] = C("delete")
      BY <1>1, <1>3, <1>4, <2>1, <3>1, OnePushed
    <3>3. Deleting(stack[1])
      BY <2>1, <2>4 DEF Deleting
    <3>4. closed /\ owner
      BY <1>1, <1>6, <2>1, <2>4, <3>3 DEF OneDelete
    <3>5. \A j \in 1 + 1 .. Len(stack) : Calm(stack[j]) \/ LiveClose'
      <4>1. Ending(stack[1])
        BY <3>3 DEF Ending
      <4>2. QED
        BY <1>1, <1>2, <1>6, <2>1, <4>1 DEF BelowDelete
    <3>6. \A k \in 1 .. 1 : k = 1 /\ \A j \in k + 1 .. 1 : FALSE
      OBVIOUS
    <3>7. \A k \in 1 .. 1 : stack'[k].fn # "deleteTail" /\ stack'[k].fn \notin Shutting
      BY <1>3, <3>2, <3>6 DEF Shutting
    <3>8. closed' /\ receiving' => \E k \in 1 .. Len(stack') : stack'[k].fn \in Shutting
      BY <1>21, <2>1, <2>2, <3>2
    <3>9. ~(stack # <<>> /\ stack[1].fn = "close")
      BY <2>1
    <3>10. QED
      BY <1>1, <1>2, <2>1, <3>2, <3>4, <3>5, <3>6, <3>7, <3>8, <3>9, KeepMem
  <2>5. QED
    BY <2>3, <2>4
<1>31. CASE Delete
  <2>1. /\ stack # <<>> /\ stack[1].fn = "delete" /\ UNCHANGED <<owner, closed, receiving>>
        /\ stack' = <<C("close"), C("deleteTail")>> \o Pop
    BY <1>31 DEF Delete, At, ctxVars, ioVars
  <2>2. Over(2, 1) /\ stack'[1] = C("close") /\ stack'[2] = C("deleteTail")
    BY <1>1, <1>3, <1>4, <2>1, TwoPushed
  <2>3. \A k \in 1 .. 2 : k = 1 \/ k = 2
    OBVIOUS
  <2>4. Deleting(stack[1])
    BY <2>1 DEF Deleting
  <2>5. owner /\ (DeleteInOnClosed => closed)
    BY <1>1, <1>6, <2>1, <2>4 DEF OneDelete
  <2>6. \A j \in 1 + 1 .. Len(stack) : Calm(stack[j]) \/ LiveClose'
    <3>1. Ending(stack[1])
      BY <2>4 DEF Ending
    <3>2. QED
      BY <1>1, <1>2, <1>6, <2>1, <3>1 DEF BelowDelete
  <2>7. ~Ending(stack[1])'
    BY <1>3, <2>1, <2>2, <2>5 DEF Ending, Deleting
  <2>8. \A j \in 2 + 1 .. 2 : FALSE
    OBVIOUS
  <2>9. \A k \in 1 .. 2 : Ending(stack[k])' =>
          /\ \A j \in k + 1 .. 2 : Calm(stack[j])' \/ LiveClose'
          /\ \A j \in 1 + 1 .. Len(stack) : Calm(stack[j]) \/ LiveClose'
    BY <2>3, <2>6, <2>7, <2>8
  <2>10. \A k \in 1 .. 2 : stack'[k].fn \notin Shutting
    BY <1>3, <2>2, <2>3 DEF Shutting
  <2>11. \A k \in 1 .. 2 : stack'[k].fn = "deleteTail" =>
           closed' \/ (k = 2 /\ stack'[1].fn = "close")
    BY <1>3, <2>2, <2>3
  <2>12. stack[1].fn \notin Shutting /\ ~(stack # <<>> /\ stack[1].fn = "close")
    BY <2>1 DEF Shutting
  <2>13. closed' /\ receiving' => \E k \in 1 .. Len(stack') : stack'[k].fn \in Shutting
    BY <1>21, <2>1, <2>2, <2>12
  <2>14. QED
    BY <1>1, <1>2, <2>1, <2>2, <2>5, <2>9, <2>10, <2>11, <2>12, <2>13, KeepMem
<1>32. CASE DeleteTail
  <2>1. /\ stack # <<>> /\ stack[1].fn = "deleteTail" /\ stack' = Pop /\ ~owner'
        /\ UNCHANGED <<closed, receiving, rstate, op>>
    BY <1>32 DEF DeleteTail, At, ioVars, headVars
  <2>2. Over(0, 1)
    BY <1>1, <2>1, Popped
  <2>3. closed
    BY <1>1, <1>6, <2>1 DEF ClosedFirst
  <2>4. Deleting(stack[1]) /\ Ending(stack[1]) /\ stack[1].fn \notin Shutting
    BY <2>1 DEF Ending, Deleting, Shutting
  <2>5. ASSUME NEW k \in 1 .. Len(stack')
        PROVE  k + 1 \in 1 + 1 .. Len(stack) /\ k + 1 \in 1 .. Len(stack) /\ stack'[k] = stack[k + 1]
    <3>1. k - 0 + 1 \in 1 + 1 .. Len(stack) /\ stack'[k] = stack[k - 0 + 1]
      BY <1>1, <2>2, OverFrames
    <3>2. QED
      BY <1>6, <3>1
  <2>6. BelowDelete'
    <3> SUFFICES ASSUME NEW k \in 1 .. Len(stack'), Ending(stack[k])',
                        NEW j \in k + 1 .. Len(stack')
                 PROVE  Calm(stack[j])' \/ LiveClose'
      BY DEF BelowDelete
    <3>1. j \in 1 .. Len(stack') /\ Len(stack') = Len(stack) - 1
      BY <1>6, <2>2 DEF Over
    <3>2. /\ stack'[k] = stack[k + 1] /\ stack'[j] = stack[j + 1]
          /\ k + 1 \in 1 .. Len(stack) /\ j + 1 \in (k + 1) + 1 .. Len(stack)
      BY <1>6, <2>5, <3>1
    <3>3. Ending(stack[k + 1])
      BY <2>1, <3>2 DEF Ending, Deleting
    <3>4. Calm(stack[j + 1]) \/ LiveClose
      BY <1>1, <3>2, <3>3 DEF BelowDelete
    <3>5. QED
      BY <1>2, <3>2, <3>4 DEF Calm, Plain
  <2>7. ClosedFirst'
    <3>1. closed' /\ receiving' => \E k \in 1 .. Len(stack') : stack'[k].fn \in Shutting
      BY <1>21, <2>1, <2>2, <2>4
    <3>2. QED
      BY <2>1, <2>3, <3>1 DEF ClosedFirst
  <2>8. AfterDelete'
    <3> SUFFICES ASSUME ~LiveClose', NEW k \in 1 .. Len(stack') PROVE Calm(stack[k])'
      BY DEF AfterDelete
    <3>1. Calm(stack[k + 1])
      BY <1>1, <1>2, <1>6, <2>1, <2>4, <2>5 DEF BelowDelete
    <3>2. QED
      BY <2>5, <3>1 DEF Calm, Plain
  <2>9. OpenStack'
    BY <2>1, <2>3 DEF OpenStack
  <2>10. QED
    BY <2>6, <2>7, <2>8, <2>9 DEF DeleteInv
<1>33. CASE OwnerCalls
  <2>1. /\ stack = <<>> /\ owner /\ UNCHANGED <<owner, closed, receiving>>
        /\ \/ stack' = <<C("close")>> /\ ~closed
           \/ stack' = <<C("delete")>> /\ ~DeleteInOnClosed
    BY <1>33 DEF OwnerCalls, AtEventLoop, ctxVars, ioVars
  <2>2. Over(1, 0) /\ stack'[1].fn \in {"close", "delete"}
    BY <1>1, <1>3, <1>4, <2>1, Entered
  <2>3. Len(stack) = 0
    BY <2>1
  <2>4. ~(closed /\ receiving)
    BY <1>1, <2>3 DEF ClosedFirst
  <2>5. \A k \in 1 .. 1 : k = 1 /\ \A j \in k + 1 .. 1 : FALSE
    OBVIOUS
  <2>6. \A j \in 0 + 1 .. Len(stack) : FALSE
    BY <2>3
  <2>7. \A k \in 1 .. 1 : stack'[k].fn # "deleteTail" /\ stack'[k].fn \notin Shutting
    BY <2>2, <2>5 DEF Shutting
  <2>8. \A k \in 2 .. 1 : FALSE
    OBVIOUS
  <2>9. QED
    BY <1>1, <1>2, <2>1, <2>2, <2>4, <2>5, <2>6, <2>7, <2>8, KeepMem
<1>34. CASE IoSent
  <2>1. /\ stack = <<>> \/ stack[1].fn = "foreign"
        /\ sendQ # <<>> /\ stack' = <<F(next[sendQ[1]], sendQ[1])>> \o stack
        /\ UNCHANGED <<owner, closed, receiving>>
    BY <1>34 DEF IoSent, IoRuns, AtEventLoop, Foreign, ctxVars
  <2>2. 1 \in 1 .. Len(sendQ) /\ sendQ[1] \in Req
    BY <1>1, <2>1 DEF TypeOK
  <2>3. next[sendQ[1]] \in Late
    BY <1>1, <2>2 DEF ReqInv, InPhase, SendSet, Late
  <2>4. QED
    BY <1>12, <1>13, <2>1, <2>2, <2>3
<1>35. ASSUME NEW r \in Req, CallableReturns(r) PROVE DeleteInv'
  <2>1. /\ stack = <<>> \/ stack[1].fn = "foreign"
        /\ r \in running /\ stack' = <<F(next[r], r)>> \o stack
        /\ UNCHANGED <<owner, closed, receiving>>
    BY <1>35 DEF CallableReturns, AtEventLoop, Foreign, ctxVars, ioVars
  <2>2. next[r] \in Late
    BY <1>1, <2>1 DEF ReqInv, InPhase, Late
  <2>3. QED
    BY <1>12, <1>13, <2>1, <2>2
<1>36. CASE UNCHANGED vars
  <2>1. UNCHANGED <<stack, owner, closed, receiving, rstate, op>>
    BY <1>36 DEF vars, ctxVars, ioVars, headVars
  <2>2. BelowDelete'
    BY <1>1, <2>1 DEF BelowDelete, Ending, Deleting, Calm, Plain, LiveClose, Live
  <2>3. ClosedFirst'
    BY <1>1, <2>1 DEF ClosedFirst
  <2>4. AfterDelete' /\ OpenStack'
    BY <1>1, <2>1 DEF AfterDelete, Calm, Plain, Closes, LiveClose, Live, OpenStack
  <2>5. QED
    BY <2>2, <2>3, <2>4 DEF DeleteInv
<1>37. QED
  BY <1>16, <1>17, <1>18, <1>19, <1>20, <1>22, <1>23, <1>24, <1>25, <1>26, <1>28, <1>29, <1>30,
     <1>31, <1>32, <1>33, <1>34, <1>35, <1>36 DEF Next, Step, CtxStep, ReqStep

LEMMA AsyncStep ==
  ASSUME MemInv, [Next]_vars
  PROVE  AsyncErrors'
<1> SUFFICES ASSUME ~SyncIo PROVE AsyncErrors'
  BY DEF AsyncErrors
<1>1. /\ TypeOK /\ ReqInv /\ AsyncErrors /\ TypeOK' /\ sendErr \in BOOLEAN
      /\ Len(stack) \in Nat /\ stack \in Seq(Frame) /\ stack' \in Seq(Frame)
  BY StepInv, StackFrames DEF MemInv, IInv, TypeOK
<1>2. /\ \A fn \in CtxFn : C(fn) \in Frame
      /\ \A fn : C(fn).fn = fn /\ C(fn).req = NoReq
      /\ \A fn \in ReqFn, r \in Req : F(fn, r) \in Frame
      /\ \A fn, r : F(fn, r).fn = fn /\ F(fn, r).req = r
  BY FrameType DEF C, F
<1>3. {"step1", "step2", "close", "closeRefs", "ioClose", "onClosed", "delete", "deleteTail",
        "foreign"} = CtxFn
  BY DEF CtxFn
<1>4. /\ StepFn \subseteq ReqFn
      /\ {"call2", "poll2", "poll3", "finish", "finishTail", "poll3Tail", "freeRef1", "freeSlot"}
           \subseteq ReqFn
      /\ "step2" \notin ReqFn
  BY DEF ReqFn, StepFn
(* Only the step2 of a received packet is a new one, and it is alone.      *)
<1>5. ASSUME NEW n \in Nat, Over(n, 1), \A k \in 1 .. n : stack'[k].fn # "step2"
      PROVE  \A k \in 1 .. Len(stack') : stack'[k].fn = "step2" => Len(stack') = 1
  <2> SUFFICES ASSUME NEW k \in 1 .. Len(stack'), stack'[k].fn = "step2" PROVE FALSE
    OBVIOUS
  <2>1. k - n + 1 \in 1 + 1 .. Len(stack) /\ stack'[k] = stack[k - n + 1]
    BY <1>1, <1>5, OverFrames
  <2>2. Len(stack) = 1
    BY <1>1, <2>1 DEF AsyncErrors
  <2>3. QED
    BY <2>1, <2>2
(* An error the io reported is being handled: nothing else runs.           *)
<1>6. ASSUME closed' = closed, sendErr' = sendErr,
             stack = <<>> \/ stack[1].fn \notin {"poll3", "finish", "close"}
      PROVE  ~(~closed' /\ sendErr')
  BY <1>1, <1>6 DEF AsyncErrors
<1>7. ASSUME closed' = closed, sendErr' = sendErr, stack # <<>>,
             stack[1].fn \notin {"poll3", "finish", "close"},
             \/ stack' = Pop
             \/ \E f \in Frame : f.fn # "step2" /\ stack' = <<f>> \o Pop
             \/ \E f, g \in Frame : f.fn # "step2" /\ g.fn # "step2" /\ stack' = <<f, g>> \o Pop
      PROVE  AsyncErrors'
  <2>1. PICK n \in Nat : Over(n, 1) /\ \A k \in 1 .. n : stack'[k].fn # "step2"
    <3>1. CASE stack' = Pop
      <4>1. Over(0, 1) /\ \A k \in 1 .. 0 : FALSE
        BY <1>1, <1>7, <3>1, Popped
      <4>2. QED
        BY <4>1
    <3>2. ASSUME NEW f \in Frame, f.fn # "step2", stack' = <<f>> \o Pop
          PROVE  \E n \in Nat : Over(n, 1) /\ \A k \in 1 .. n : stack'[k].fn # "step2"
      <4>1. Over(1, 1) /\ stack'[1] = f
        BY <1>1, <1>7, <3>2, OnePushed
      <4>2. \A k \in 1 .. 1 : stack'[k].fn # "step2"
        BY <3>2, <4>1
      <4>3. QED
        BY <4>1, <4>2
    <3>3. ASSUME NEW f \in Frame, NEW g \in Frame, f.fn # "step2", g.fn # "step2",
                 stack' = <<f, g>> \o Pop
          PROVE  \E n \in Nat : Over(n, 1) /\ \A k \in 1 .. n : stack'[k].fn # "step2"
      <4>1. Over(2, 1) /\ stack'[1] = f /\ stack'[2] = g
        BY <1>1, <1>7, <3>3, TwoPushed
      <4>2. \A k \in 1 .. 2 : k = 1 \/ k = 2
        OBVIOUS
      <4>3. \A k \in 1 .. 2 : stack'[k].fn # "step2"
        BY <3>3, <4>1, <4>2
      <4>4. QED
        BY <4>1, <4>3
    <3>4. QED
      BY <1>7, <3>1, <3>2, <3>3
  <2>2. QED
    BY <1>5, <1>6, <1>7, <2>1 DEF AsyncErrors
<1>8. CASE Step1 \/ Step2End \/ CloseRefs \/ IoClose \/ Delete \/ DeleteTail \/ ForeignReturns
  <2>1. /\ closed' = closed /\ sendErr' = sendErr /\ stack # <<>>
        /\ stack[1].fn \in {"step1", "step2", "closeRefs", "ioClose", "delete", "deleteTail", "foreign"}
    BY <1>8 DEF Step1, Step2End, CloseRefs, IoClose, Delete, DeleteTail, ForeignReturns, Foreign, At,
                ctxVars, ioVars
  <2>2. \/ stack' = Pop \/ stack' = <<C("close")>> \o Pop \/ stack' = <<C("foreign")>> \o Pop
        \/ stack' = <<C("close"), C("deleteTail")>> \o Pop
        \/ stack' = <<C("ioClose"), C("onClosed")>> \o Pop
    BY <1>8 DEF Step1, Step2End, CloseRefs, IoClose, Delete, DeleteTail, ForeignReturns
  <2>3. \A fn \in {"close", "deleteTail", "foreign", "ioClose", "onClosed"} :
          C(fn) \in Frame /\ C(fn).fn # "step2"
    BY <1>2, <1>3
  <2>4. QED
    BY <1>7, <2>1, <2>2, <2>3
<1>9. CASE OnClosed
  <2>1. closed' = closed /\ sendErr' = sendErr /\ stack # <<>> /\ stack[1].fn = "onClosed"
    BY <1>9 DEF OnClosed, At, ctxVars, ioVars
  <2>2. Pop \in Seq(Frame)
    BY <1>1, <2>1, PopType DEF Pop
  <2>3. stack' = Pop \/ stack' = <<C("delete")>> \o Pop
    BY <1>9, <2>2 DEF OnClosed
  <2>4. C("delete") \in Frame /\ C("delete").fn # "step2"
    BY <1>2, <1>3
  <2>5. QED
    BY <1>7, <2>1, <2>3, <2>4
<1>10. CASE ServerClose
  <2>1. stack # <<>> /\ closed' = TRUE
    BY <1>1, <1>10 DEF ServerClose, At, TypeOK
  <2>2. CASE stack' = Pop
    <3>1. Over(0, 1) /\ \A k \in 1 .. 0 : FALSE
      BY <1>1, <2>1, <2>2, Popped
    <3>2. QED
      BY <1>5, <2>1, <3>1 DEF AsyncErrors
  <2>3. CASE stack' = <<C("foreign"), C("closeRefs")>> \o Pop
    <3>1. Over(2, 1) /\ stack'[1] = C("foreign") /\ stack'[2] = C("closeRefs")
      BY <1>1, <1>2, <1>3, <2>1, <2>3, TwoPushed
    <3>2. \A k \in 1 .. 2 : k = 1 \/ k = 2
      OBVIOUS
    <3>3. \A k \in 1 .. 2 : stack'[k].fn # "step2"
      BY <1>2, <3>1, <3>2
    <3>4. QED
      BY <1>5, <2>1, <3>1, <3>3 DEF AsyncErrors
  <2>4. QED
    BY <1>10, <2>2, <2>3 DEF ServerClose
<1>11. ASSUME NEW r \in Req,
              \/ Call1(r) \/ GetFunc1(r) \/ FreeRef1(r) \/ FreeSlot(r) \/ GetInfo1(r) \/ Close1(r)
              \/ Poll1(r) \/ Poll3Finish(r) \/ Poll3Again(r) \/ FinishTail(r)
       PROVE  AsyncErrors'
  <2>1. /\ closed' = closed /\ sendErr' = sendErr /\ stack # <<>>
        /\ stack[1].fn \in First \cup {"poll3Tail", "finishTail"}
    BY <1>11 DEF Call1, GetFunc1, FreeRef1, FreeSlot, GetInfo1, Close1, Poll1, Poll3Finish, Poll3Again,
                 FinishTail, At, ctxVars, ioVars, First
  <2>2. \/ stack' = Pop \/ \E fn \in {"close", "foreign"} : stack' = <<C(fn)>> \o Pop
        \/ \E fn \in {"call2", "freeRef1", "finish"} : stack' = <<F(fn, r)>> \o Pop
        \/ stack' = <<C("foreign"), F("freeSlot", r)>> \o Pop
    BY <1>11 DEF Call1, GetFunc1, FreeRef1, FreeSlot, GetInfo1, Close1, Poll1, Poll3Finish, Poll3Again,
                 FinishTail, Invoke
  <2>3. /\ \A fn \in {"close", "foreign"} : C(fn) \in Frame /\ C(fn).fn # "step2"
        /\ \A fn \in {"call2", "freeRef1", "freeSlot", "finish"} :
             F(fn, r) \in Frame /\ F(fn, r).fn # "step2"
    BY <1>2, <1>3, <1>4
  <2>4. stack[1].fn \notin {"poll3", "finish", "close"}
    BY <2>1 DEF First
  <2>5. QED
    BY <1>7, <2>1, <2>2, <2>3, <2>4
<1>12. ASSUME NEW r \in Req, Step2Packet(r) PROVE AsyncErrors'
  <2>1. PICK o \in Op : stack' = <<F(Handler(o), r), C("step1")>> \o Pop
    BY <1>12 DEF Step2Packet
  <2>2. /\ closed' = closed /\ sendErr' = sendErr /\ stack # <<>> /\ stack[1].fn = "step2"
    BY <1>12 DEF Step2Packet, At, ioVars
  <2>3. /\ F(Handler(o), r) \in Frame /\ C("step1") \in Frame
        /\ F(Handler(o), r).fn # "step2" /\ C("step1").fn # "step2"
    BY <1>2, <1>3, <1>4, HandlerType
  <2>4. QED
    BY <1>7, <2>1, <2>2, <2>3
(* An answer: the send is pending, or the error of the last one is gone.   *)
<1>13. ASSUME NEW r \in Req, Call2(r) \/ Poll2(r) PROVE AsyncErrors'
  <2>1. /\ closed' = closed /\ stack # <<>> /\ stack[1].fn \in {"call2", "poll2"}
        /\ (closed \/ sendErr' = sendErr \/ sendErr' = FALSE)
    BY <1>13 DEF Call2, Poll2, WriteResult, At, ctxVars
  <2>2. ~(~closed' /\ sendErr')
    BY <1>1, <2>1 DEF AsyncErrors
  <2>3. stack' = Pop \/ \E f \in {F("finish", r), C("foreign")} : stack' = <<f>> \o Pop
    BY <1>13 DEF Call2, Poll2, WriteResult
  <2>4. CASE stack' = Pop
    <3>1. Over(0, 1) /\ \A k \in 1 .. 0 : FALSE
      BY <1>1, <2>1, <2>4, Popped
    <3>2. QED
      BY <1>5, <2>2, <3>1 DEF AsyncErrors
  <2>5. ASSUME NEW f \in {F("finish", r), C("foreign")}, stack' = <<f>> \o Pop PROVE AsyncErrors'
    <3>0. f \in Frame /\ f.fn # "step2"
      BY <1>2, <1>3, <1>4
    <3>1. Over(1, 1) /\ stack'[1] = f
      BY <1>1, <2>1, <2>5, <3>0, OnePushed
    <3>2. \A k \in 1 .. 1 : stack'[k].fn # "step2"
      BY <3>0, <3>1
    <3>3. QED
      BY <1>5, <2>2, <3>1, <3>2 DEF AsyncErrors
  <2>6. QED
    BY <2>3, <2>4, <2>5
<1>14. ASSUME NEW r \in Req, Poll3(r) \/ Finish(r) PROVE AsyncErrors'
  <2>1. PICK fn \in {"finishTail", "poll3Tail"} :
          stack' = (IF sendErr THEN <<C("close")>> ELSE <<>>) \o <<F(fn, r)>> \o Pop
    BY <1>14 DEF Poll3, Finish
  <2>2. stack # <<>> /\ stack[1].fn \in {"poll3", "finish"} /\ UNCHANGED <<closed, sendErr>>
    BY <1>14 DEF Poll3, Finish, At, ctxVars, ioVars
  <2>3. F(fn, r) \in Frame /\ F(fn, r).fn \in ReqFn /\ C("close") \in Frame
    BY <1>2, <1>3, <1>4
  <2>4. Pop \in Seq(Frame)
    BY <1>1, <2>2, PopType DEF Pop
  <2>5. CASE ~sendErr
    <3>1. stack' = <<F(fn, r)>> \o Pop
      BY <2>1, <2>4, <2>5
    <3>2. Over(1, 1) /\ stack'[1] = F(fn, r)
      BY <1>1, <2>2, <2>3, <3>1, OnePushed
    <3>3. \A k \in 1 .. 1 : stack'[k].fn # "step2"
      BY <1>4, <2>3, <3>2
    <3>4. QED
      BY <1>5, <2>2, <2>5, <3>2, <3>3 DEF AsyncErrors
  <2>6. CASE sendErr
    <3>1. stack' = <<C("close"), F(fn, r)>> \o Pop
      BY <2>1, <2>4, <2>6
    <3>2. Over(2, 1) /\ stack'[1] = C("close") /\ stack'[2] = F(fn, r)
      BY <1>1, <2>2, <2>3, <3>1, TwoPushed
    <3>3. \A k \in 1 .. 2 : k = 1 \/ k = 2
      OBVIOUS
    <3>4. \A k \in 1 .. 2 : stack'[k].fn # "step2"
      BY <1>2, <1>4, <2>3, <3>2, <3>3
    <3>5. \A k \in 1 .. Len(stack') : stack'[k].fn = "step2" => Len(stack') = 1
      BY <1>5, <3>2, <3>4
    <3>6. stack'[1].fn = "close"
      BY <1>2, <3>2
    <3>7. Len(stack') = 2 + Len(stack) - 1
      BY <3>2 DEF Over
    <3>8. stack' # <<>>
      BY <1>1, <2>2, <3>7
    <3>9. QED
      BY <3>5, <3>6, <3>8 DEF AsyncErrors
  <2>7. QED
    BY <2>5, <2>6
<1>15. ASSUME NEW f \in Frame, stack = <<>>, stack' = <<f>>, ~(~closed' /\ sendErr')
       PROVE  AsyncErrors'
  <2>1. Len(stack') = 1
    BY <1>15
  <2>2. QED
    BY <1>15, <2>1 DEF AsyncErrors
<1>16. CASE IoReceived \/ OwnerCalls
  <2>1. stack = <<>> /\ closed' = closed /\ sendErr' = sendErr
    BY <1>16 DEF IoReceived, IoRuns, OwnerCalls, AtEventLoop, ctxVars, ioVars
  <2>2. PICK f \in Frame : stack' = <<f>>
    BY <1>2, <1>3, <1>16, <2>1 DEF IoReceived, OwnerCalls
  <2>3. QED
    BY <1>6, <1>15, <2>1, <2>2
<1>17. ASSUME NEW r \in Req, CallableReturns(r) PROVE AsyncErrors'
  <2>1. /\ stack = <<>> \/ (stack # <<>> /\ stack[1].fn = "foreign")
        /\ closed' = closed /\ sendErr' = sendErr /\ stack' = <<F(next[r], r)>> \o stack
    BY <1>17 DEF CallableReturns, AtEventLoop, Foreign, ctxVars, ioVars
  <2>2. F(next[r], r) \in Frame /\ F(next[r], r).fn # "step2"
    BY <1>1, <1>2, <1>4 DEF TypeOK
  <2>3. CASE stack = <<>>
    <3>1. stack' = <<F(next[r], r)>>
      BY <2>1, <2>3
    <3>2. QED
      BY <1>6, <1>15, <2>1, <2>2, <2>3, <3>1
  <2>4. CASE stack # <<>> /\ stack[1].fn = "foreign"
    <3>1. Over(1, 0) /\ stack'[1] = F(next[r], r)
      BY <1>1, <2>1, <2>2, OneAdded
    <3>2. ASSUME NEW k \in 1 .. Len(stack'), stack'[k].fn = "step2" PROVE FALSE
      <4>1. k # 1
        BY <2>2, <3>1, <3>2
      <4>2. k - 1 + 0 \in 0 + 1 .. Len(stack) /\ stack'[k] = stack[k - 1 + 0]
        BY <1>1, <3>1, <4>1, OverFrames
      <4>3. Len(stack) = 1
        BY <1>1, <3>2, <4>2 DEF AsyncErrors
      <4>4. k - 1 + 0 = 1
        BY <4>2, <4>3
      <4>5. QED
        BY <2>4, <3>2, <4>2, <4>4
    <3>3. ~(~closed' /\ sendErr')
      BY <1>6, <2>1, <2>4
    <3>4. QED
      BY <3>2, <3>3 DEF AsyncErrors
  <2>5. QED
    BY <2>1, <2>3, <2>4
(* A failed send: what runs next is the end of a request or of a round.    *)
<1>18. CASE IoSent
  <2>0. stack = <<>> /\ sendQ # <<>> /\ stack' = <<F(next[sendQ[1]], sendQ[1])>> \o stack
    BY <1>18 DEF IoSent, IoRuns, AtEventLoop
  <2>1. stack = <<>> /\ sendQ # <<>> /\ stack' = <<F(next[sendQ[1]], sendQ[1])>>
    BY <2>0
  <2>2. 1 \in 1 .. Len(sendQ)
    BY <1>1, <2>1 DEF TypeOK
  <2>3. sendQ[1] \in SendSet
    BY <2>2 DEF SendSet
  <2>4. next[sendQ[1]] \in {"finish", "poll3"}
    BY <1>1, <2>3 DEF ReqInv, InPhase
  <2>5. Len(stack') = 1 /\ stack'[1].fn \in {"finish", "poll3"} /\ stack' # <<>>
    BY <1>2, <2>1, <2>4
  <2>6. QED
    BY <2>5 DEF AsyncErrors
<1>19. CASE UNCHANGED vars
  BY <1>1, <1>19 DEF AsyncErrors, vars, ctxVars, ioVars
<1>20. QED
  BY <1>8, <1>9, <1>10, <1>11, <1>12, <1>13, <1>14, <1>16, <1>17, <1>18, <1>19
     DEF Next, Step, CtxStep, ReqStep

LEMMA MemInvInit == Init => MemInv
<1> SUFFICES ASSUME Init PROVE MemInv
  OBVIOUS
<1>1. IInv /\ ReqInv
  BY InitInv, ReqInvInit
<1>2. Len(stack) = 1 /\ stack[1].fn = "step1" /\ owner = TRUE /\ ~closed /\ ~sendErr
  BY DEF Init, C
<1>3. \A k \in 1 .. Len(stack) : k = 1
  BY <1>2
<1>4. \A k \in 2 .. Len(stack) : FALSE
  BY <1>2
<1>5. BelowDelete
  BY <1>2, <1>3 DEF BelowDelete, Ending, Deleting
<1>6. ClosedFirst /\ AfterDelete /\ OpenStack
  BY <1>2, <1>3, <1>4 DEF ClosedFirst, Shutting, AfterDelete, OpenStack
<1>7. AsyncErrors
  BY <1>2, <1>3 DEF AsyncErrors
<1>8. QED
  BY <1>1, <1>5, <1>6, <1>7 DEF MemInv, DeleteInv

(* No function of the server runs on a request or on a context whose       *)
(* memory was given back, for any io and any owner, but one: on an io that *)
(* completes inside its calls and with an owner that deletes the context   *)
(* in on_closed (the repository's host on its pipe), the handler that      *)
(* _pxprpc__step2 calls may give back the last reference, and step2 then   *)
(* goes on to _pxprpc__step1.                                              *)
THEOREM ServerNoUseAfterFree == Spec => []NoUseAfterFree
<1>1. Init => MemInv
  BY MemInvInit
<1>2. MemInv /\ [Next]_vars => MemInv'
  <2> SUFFICES ASSUME MemInv, [Next]_vars PROVE MemInv'
    OBVIOUS
  <2>1. IInv' /\ ReqInv'
    BY StepInv, ReqInvStep DEF MemInv
  <2>2. DeleteInv' /\ AsyncErrors'
    BY DeleteInvStep, AsyncStep
  <2>3. QED
    BY <2>1, <2>2 DEF MemInv
<1>3. MemInv => NoUseAfterFree
  <2> SUFFICES ASSUME MemInv, stack # <<>>
               PROVE  /\ stack[1].fn \in ReqFn => rstate[stack[1].req] = "live"
                      /\ freed => SyncIo /\ DeleteInOnClosed /\ stack[1].fn \in {"step1", "foreign"}
    BY DEF NoUseAfterFree
  <2>1. IInv /\ ReqInv /\ TypeOK /\ AfterDelete
    BY DEF MemInv, IInv, DeleteInv
  <2>2. 1 \in 1 .. Len(stack) /\ stack[1] \in Frame
    BY <2>1, StackFrames
  <2>3. stack[1].fn \in ReqFn => stack[1].req \in Live
    BY <2>1, <2>2 DEF ReqInv, OneContinuation
  <2>4. ASSUME freed PROVE SyncIo /\ DeleteInOnClosed /\ stack[1].fn \in {"step1", "foreign"}
    <3>1. ~owner /\ Live = {}
      BY <2>1, <2>4, FS_EmptySet, FS_CardinalityType DEF IInv, TypeOK, RefCountExact
    <3>2. ~LiveClose /\ stack[1].fn \notin ReqFn
      BY <2>3, <3>1 DEF LiveClose
    <3>3. ~Closes(1)
      <4>1. ASSUME Closes(1) PROVE FALSE
        <5>1. 2 \in 1 .. Len(stack) /\ stack[2].fn \in ReqFn
          BY <2>1, <4>1, StackFrames DEF Closes
        <5>2. stack[2].req \in Live
          BY <2>1, <5>1 DEF ReqInv, OneContinuation
        <5>3. QED
          BY <3>1, <5>2
      <4>2. QED
        BY <4>1
    <3>4. Calm(stack[1])
      BY <2>1, <2>2, <3>1, <3>2, <3>3 DEF AfterDelete
    <3>5. Late \subseteq ReqFn
      BY DEF Late, ReqFn, StepFn
    <3>6. QED
      BY <3>2, <3>4, <3>5 DEF Calm, Plain
  <2>5. QED
    BY <2>3, <2>4 DEF Live
<1>4. QED
  BY <1>1, <1>2, <1>3, PTL DEF Spec
=============================================================================
