------------------------ MODULE EventDispatcherProofs ------------------------
(***************************************************************************)
(* Proofs about EventDispatcher for any set of requests, any number of     *)
(* rounds and every choice of what clients do, an event, a free or a call  *)
(* during a send included.                                                 *)
(***************************************************************************)
EXTENDS EventDispatcher, SequenceTheorems, TLAPS

TypeOK ==
  /\ alive \in BOOLEAN /\ closed \in BOOLEAN
  /\ pendingReturn \in Req \cup {NoReq} /\ entering \in Req \cup {NoReq}
  /\ st \in [Req -> {"none", "called", "sending", "finished", "stuck"}]
  /\ poll \in [Req -> BOOLEAN] /\ rejected \in [Req -> BOOLEAN]
  /\ hook \in [Req -> {"ret", "raw"}]
  /\ sendQ \in Seq(Req)

(* A request that waits has the on_finish that clears pendingReturn, and   *)
(* one the handler is about to run for has no answer on its way.           *)
Waits ==
  /\ \A r \in Req : st[r] = "called" => hook[r] = "ret"
  /\ entering # NoReq => st[entering] = "none"

(* The inductive invariant: PointerOwned holds because a handler that      *)
(* finds pendingReturn set replaces the on_finish of both requests.        *)
IInv ==
  /\ TypeOK
  /\ Waits
  /\ PointerOwned

-----------------------------------------------------------------------------
(* The io's queue. *)

LEMMA SendOne ==
  ASSUME NEW q \in Seq(Req), NEW p \in Req
  PROVE  /\ q \o <<p>> \in Seq(Req)
         /\ Len(q \o <<p>>) = Len(q) + 1
         /\ \A k \in 1 .. Len(q) : (q \o <<p>>)[k] = q[k]
         /\ (q \o <<p>>)[Len(q) + 1] = p
OBVIOUS

LEMMA SendTwo ==
  ASSUME NEW q \in Seq(Req), NEW p \in Req, NEW r \in Req
  PROVE  /\ q \o (<<p>> \o <<r>>) \in Seq(Req)
         /\ Len(q \o (<<p>> \o <<r>>)) = Len(q) + 2
         /\ \A k \in 1 .. Len(q) : (q \o (<<p>> \o <<r>>))[k] = q[k]
         /\ (q \o (<<p>> \o <<r>>))[Len(q) + 1] = p
         /\ (q \o (<<p>> \o <<r>>))[Len(q) + 2] = r
<1> DEFINE z == <<p>> \o <<r>>
<1>1. <<p>> \in Seq(Req) /\ Len(<<p>>) = 1 /\ <<p>>[1] = p
  OBVIOUS
<1>2. z \in Seq(Req) /\ Len(z) = 2 /\ z[1] = p /\ z[2] = r
  BY <1>1, SendOne
<1> HIDE DEF z
<1>3. /\ q \o z \in Seq(Req) /\ Len(q \o z) = Len(q) + 2
      /\ \A k \in 1 .. Len(q) : (q \o z)[k] = q[k]
      /\ (q \o z)[Len(q) + 1] = z[1] /\ (q \o z)[Len(q) + 2] = z[2]
  <2>1. PICK n \in Nat : n = Len(q)
    BY LenProperties
  <2>2. /\ q \o z \in Seq(Req) /\ Len(q \o z) = n + 2
        /\ \A k \in 1 .. n + 2 : (q \o z)[k] = IF k <= n THEN q[k] ELSE z[k - n]
    <3>1. /\ q \o z \in Seq(Req) /\ Len(q \o z) = Len(q) + Len(z)
          /\ \A k \in 1 .. Len(q) + Len(z) :
               (q \o z)[k] = IF k <= Len(q) THEN q[k] ELSE z[k - Len(q)]
      BY <1>2, ConcatProperties
    <3>2. Len(q) = n /\ Len(z) = 2
      BY <1>2, <2>1
    <3>3. QED
      BY <3>1, <3>2
  <2>3. /\ n + 1 \in 1 .. n + 2 /\ ~(n + 1 <= n) /\ (n + 1) - n = 1
        /\ n + 2 \in 1 .. n + 2 /\ ~(n + 2 <= n) /\ (n + 2) - n = 2
    BY <2>1
  <2>4. (q \o z)[n + 1] = z[1] /\ (q \o z)[n + 2] = z[2]
    BY <2>2, <2>3
  <2>5. \A k \in 1 .. n : (q \o z)[k] = q[k]
    BY <2>1, <2>2
  <2>6. QED
    BY <2>1, <2>2, <2>4, <2>5
<1>4. QED
  BY <1>2, <1>3 DEF z

LEMMA SentFirst ==
  ASSUME NEW q \in Seq(Req), q # <<>>
  PROVE  /\ Tail(q) \in Seq(Req)
         /\ Len(q) \in Nat \ {0}
         /\ Len(Tail(q)) = Len(q) - 1
         /\ \A k \in 1 .. Len(q) - 1 : Tail(q)[k] = q[k + 1]
         /\ Head(q) = q[1] /\ q[1] \in Req
OBVIOUS

(* Reject keeps the types: whoever it is called for.                       *)
LEMMA RejectOne ==
  ASSUME TypeOK, NEW p \in Req, st[p] \in {"called", "sending", "stuck"},
         NEW c \in BOOLEAN, Reject(p, <<>>, c)
  PROVE  /\ sendQ' \in Seq(Req)
         /\ rejected' = [r \in Req |-> rejected[r] \/ r = p]
         /\ hook' = [r \in Req |-> IF r = p THEN "raw" ELSE hook[r]]
         /\ \E s \in {"finished", "sending", "stuck"} :
              st' = [r \in Req |-> IF r = p THEN s ELSE st[r]]
<1>1. {<<>>[k] : k \in DOMAIN <<>>} = {} /\ <<>> \o <<>> = <<>> /\ <<p>> \o <<>> = <<p>>
  OBVIOUS
<1>2. /\ rejected' = [r \in Req |-> rejected[r] \/ r = p]
      /\ hook' = [r \in Req |-> IF r = p THEN "raw" ELSE hook[r]]
      /\ st' = [r \in Req |-> IF r = p /\ st[p] = "called"
                              THEN IF c THEN "stuck" ELSE "sending"
                              ELSE IF r = p THEN "finished" ELSE st[r]]
  BY <1>1 DEF Reject, Answered
<1>3. \E s \in {"finished", "sending", "stuck"} :
        st' = [r \in Req |-> IF r = p THEN s ELSE st[r]]
  <2>1. CASE st[p] = "called" /\ c
    BY <1>2, <2>1
  <2>2. CASE st[p] = "called" /\ ~c
    BY <1>2, <2>2
  <2>3. CASE st[p] # "called"
    BY <1>2, <2>3
  <2>4. QED
    BY <2>1, <2>2, <2>3
<1>4. sendQ' = sendQ \o <<>> \/ sendQ' = sendQ \o <<p>>
  BY <1>1 DEF Reject, Sends
<1>5. sendQ \in Seq(Req) /\ sendQ \o <<>> = sendQ /\ sendQ \o <<p>> \in Seq(Req)
  BY SendOne DEF TypeOK
<1>6. QED
  BY <1>2, <1>3, <1>4, <1>5

LEMMA RejectTwo ==
  ASSUME TypeOK, NEW p \in Req, st[p] \in {"called", "sending", "stuck"},
         NEW r \in Req, r # p, Reject(p, <<r>>, FALSE)
  PROVE  /\ sendQ' \in Seq(Req)
         /\ rejected' = [x \in Req |-> rejected[x] \/ x \in {p, r}]
         /\ hook' = [x \in Req |-> IF x \in {p, r} THEN "raw" ELSE hook[x]]
         /\ \E s \in {"finished", "sending"} :
              st' = [x \in Req |-> IF x = r THEN "sending" ELSE IF x = p THEN s ELSE st[x]]
<1>1. {<<r>>[k] : k \in DOMAIN <<r>>} = {r} /\ <<>> \o <<r>> = <<r>>
  <2>1. DOMAIN <<r>> = {1} /\ <<r>>[1] = r
    OBVIOUS
  <2>2. <<>> \o <<r>> = <<r>>
    OBVIOUS
  <2>3. QED
    BY <2>1, <2>2
<1>2. /\ rejected' = [x \in Req |-> rejected[x] \/ x \in {p, r}]
      /\ hook' = [x \in Req |-> IF x \in {p, r} THEN "raw" ELSE hook[x]]
      /\ st' = [x \in Req |-> IF x = r \/ (x = p /\ st[p] = "called")
                              THEN "sending"
                              ELSE IF x = p THEN "finished" ELSE st[x]]
  BY <1>1 DEF Reject, Answered
<1>3. \E s \in {"finished", "sending"} :
        st' = [x \in Req |-> IF x = r THEN "sending" ELSE IF x = p THEN s ELSE st[x]]
  <2>1. CASE st[p] = "called"
    BY <1>2, <2>1
  <2>2. CASE st[p] # "called"
    BY <1>2, <2>2
  <2>3. QED
    BY <2>1, <2>2
<1>4. sendQ' = sendQ \o <<r>> \/ sendQ' = sendQ \o (<<p>> \o <<r>>)
  BY <1>1 DEF Reject, Sends
<1>5. sendQ \o <<r>> \in Seq(Req) /\ sendQ \o (<<p>> \o <<r>>) \in Seq(Req)
  BY SendOne, SendTwo DEF TypeOK
<1>6. QED
  BY <1>2, <1>3, <1>4, <1>5

(* An answered request ends: the one that clears pendingReturn is the one  *)
(* it points to.                                                           *)
LEMMA EndsInv ==
  ASSUME IInv, entering = NoReq, NEW r \in Req, st[r] \in {"sending", "stuck"}, Ends(r),
         sendQ' \in Seq(Req), UNCHANGED <<alive, closed, poll, rejected, hook>>
  PROVE  IInv'
<1>1. TypeOK /\ Waits /\ PointerOwned
  BY DEF IInv
<1>2. PICK s \in {"none", "finished"} :
        /\ st' = [st EXCEPT ![r] = s]
        /\ entering' = NoReq \/ (entering' = r /\ s = "none")
  BY DEF Ends
<1>3. /\ hook[r] = "ret" => pendingReturn' = NoReq /\ pendingReturn = r
      /\ hook[r] # "ret" => pendingReturn' = pendingReturn /\ pendingReturn # r
  BY <1>1, DispatcherAssumption DEF Ends, PointerOwned, Unfinished, Is, TypeOK
<1>4. TypeOK'
  BY <1>1, <1>2, <1>3 DEF TypeOK
<1>5. Waits'
  BY <1>1, <1>2 DEF Waits, TypeOK
<1>6. PointerOwned'
  BY <1>1, <1>2, <1>3, DispatcherAssumption DEF PointerOwned, Unfinished, Is, TypeOK
<1>7. QED
  BY <1>4, <1>5, <1>6 DEF IInv

(* ~EventDispatcher, whether the context is closed or not.                 *)
LEMMA DestroyInv ==
  ASSUME IInv, entering = NoReq, NEW c \in BOOLEAN, Destroy(c),
         UNCHANGED <<entering, poll>>, closed' \in BOOLEAN
  PROVE  IInv'
<1>1. TypeOK /\ Waits /\ PointerOwned
  BY DEF IInv
<1>2. alive' = FALSE /\ pendingReturn' = NoReq
  BY DEF Destroy
<1>3. CASE pendingReturn = NoReq
  <2>1. UNCHANGED <<st, rejected, hook, sendQ>>
    BY <1>3 DEF Destroy
  <2>2. TypeOK'
    BY <1>1, <1>2, <2>1 DEF TypeOK
  <2>3. Waits' /\ PointerOwned'
    BY <1>1, <1>2, <1>3, <2>1 DEF Waits, PointerOwned, Unfinished, Is
  <2>4. QED
    BY <2>2, <2>3 DEF IInv
<1>4. CASE pendingReturn # NoReq
  <2>1. PICK p \in Req : p = pendingReturn
    BY <1>1, <1>4 DEF TypeOK
  <2>2. st[p] \in {"called", "sending", "stuck"} /\ Reject(p, <<>>, c)
    BY <1>1, <1>4, <2>1 DEF PointerOwned, Unfinished, Is, Destroy
  <2>3. /\ sendQ' \in Seq(Req)
        /\ rejected' = [r \in Req |-> rejected[r] \/ r = p]
        /\ hook' = [r \in Req |-> IF r = p THEN "raw" ELSE hook[r]]
        /\ \E s \in {"finished", "sending", "stuck"} :
             st' = [r \in Req |-> IF r = p THEN s ELSE st[r]]
    BY <1>1, <2>2, RejectOne
  <2>4. TypeOK'
    BY <1>1, <1>2, <2>3 DEF TypeOK
  <2>5. Waits'
    BY <1>1, <2>3 DEF Waits, TypeOK
  <2>6. PointerOwned'
    BY <1>1, <1>2, <2>1, <2>3 DEF PointerOwned, Unfinished, Is, TypeOK
  <2>7. QED
    BY <2>4, <2>5, <2>6 DEF IInv
<1>5. QED
  BY <1>3, <1>4

-----------------------------------------------------------------------------
LEMMA InitInv == Init => IInv
<1> SUFFICES ASSUME Init PROVE IInv
  OBVIOUS
<1>1. <<>> \in Seq(Req)
  OBVIOUS
<1>2. TypeOK
  BY <1>1 DEF Init, TypeOK
<1>3. Waits /\ PointerOwned
  BY DEF Init, Waits, PointerOwned, Unfinished, Is
<1>4. QED
  BY <1>2, <1>3 DEF IInv

LEMMA StepInv == IInv /\ [Next]_vars => IInv'
<1> SUFFICES ASSUME IInv, [Next]_vars PROVE IInv'
  OBVIOUS
<1>1. TypeOK /\ Waits /\ PointerOwned
  BY DEF IInv
<1>2. ASSUME NEW r \in Req, Call(r) PROVE IInv'
  <2>1. /\ entering' = r /\ poll' \in [Req -> BOOLEAN] /\ st[r] = "none"
        /\ UNCHANGED <<alive, closed, pendingReturn, st, rejected, hook, sendQ>>
    BY <1>1, <1>2 DEF Call, TypeOK, ctxVars
  <2>2. QED
    BY <1>1, <2>1 DEF IInv, TypeOK, Waits, PointerOwned, Unfinished, Is
<1>3. CASE Handle
  <2>1. /\ entering \in Req /\ entering # NoReq /\ alive /\ entering' = NoReq
        /\ st[entering] = "none"
        /\ UNCHANGED <<alive, closed, poll>>
    BY <1>1, <1>3 DEF Handle, TypeOK, Waits, ctxVars
  <2>2. CASE pendingReturn = NoReq
    <3>1. /\ pendingReturn' = entering
          /\ st' = [st EXCEPT ![entering] = "called"]
          /\ hook' = [hook EXCEPT ![entering] = "ret"]
          /\ UNCHANGED <<rejected, sendQ>>
      BY <1>3, <2>2 DEF Handle
    <3>2. TypeOK'
      BY <1>1, <2>1, <3>1 DEF TypeOK
    <3>3. Waits'
      BY <1>1, <2>1, <3>1 DEF Waits, TypeOK
    <3>4. PointerOwned'
      BY <1>1, <2>1, <2>2, <3>1, DispatcherAssumption DEF PointerOwned, Unfinished, Is, TypeOK
    <3>5. QED
      BY <3>2, <3>3, <3>4 DEF IInv
  <2>3. CASE pendingReturn # NoReq
    <3>1. PICK p \in Req, r \in Req : p = pendingReturn /\ r = entering
      BY <1>1, <2>1, <2>3 DEF TypeOK
    <3>2. st[p] \in {"called", "sending", "stuck"} /\ r # p
      BY <1>1, <2>1, <2>3, <3>1 DEF PointerOwned, Unfinished, Is
    <3>3. Reject(p, <<r>>, FALSE) /\ pendingReturn' = NoReq
      BY <1>3, <2>3, <3>1 DEF Handle
    <3>4. /\ sendQ' \in Seq(Req)
          /\ rejected' = [x \in Req |-> rejected[x] \/ x \in {p, r}]
          /\ hook' = [x \in Req |-> IF x \in {p, r} THEN "raw" ELSE hook[x]]
          /\ \E s \in {"finished", "sending"} :
               st' = [x \in Req |-> IF x = r THEN "sending" ELSE IF x = p THEN s ELSE st[x]]
      BY <1>1, <3>2, <3>3, RejectTwo
    <3>5. TypeOK'
      BY <1>1, <2>1, <3>3, <3>4 DEF TypeOK
    <3>6. Waits'
      BY <1>1, <2>1, <3>4 DEF Waits, TypeOK
    <3>7. PointerOwned'
      BY <1>1, <3>1, <3>3, <3>4 DEF PointerOwned, Unfinished, Is, TypeOK
    <3>8. QED
      BY <3>5, <3>6, <3>7 DEF IInv
  <2>4. QED
    BY <2>2, <2>3
<1>4. CASE Emit
  <2>1. PICK p \in Req : p = pendingReturn
    BY <1>1, <1>4 DEF Emit, TypeOK
  <2>2. /\ entering = NoReq /\ p # NoReq /\ alive
        /\ UNCHANGED <<alive, closed, poll, rejected, hook>>
    BY <1>4, <2>1 DEF Emit, AtEventLoop, ctxVars
  <2>3. st[p] \in {"called", "sending", "stuck"} /\ hook[p] = "ret"
    BY <1>1, <2>1, <2>2 DEF PointerOwned, Unfinished, Is
  <2>4. CASE st[p] = "called"
    <3>1. /\ st' = [st EXCEPT ![p] = "sending"] /\ sendQ' = Append(sendQ, p)
          /\ UNCHANGED <<pendingReturn, entering>>
      BY <1>4, <2>1, <2>4 DEF Emit
    <3>2. TypeOK'
      BY <1>1, <2>2, <3>1 DEF TypeOK
    <3>3. Waits' /\ PointerOwned'
      BY <1>1, <2>1, <2>2, <2>3, <3>1 DEF Waits, PointerOwned, Unfinished, Is, TypeOK
    <3>4. QED
      BY <3>2, <3>3 DEF IInv
  <2>5. CASE st[p] # "called"
    <3>1. Ends(p) /\ sendQ' = sendQ
      BY <1>4, <2>1, <2>5 DEF Emit
    <3>2. sendQ' \in Seq(Req)
      BY <1>1, <3>1 DEF TypeOK
    <3>3. QED
      BY <2>2, <2>3, <2>5, <3>1, <3>2, EndsInv
  <2>6. QED
    BY <2>4, <2>5
<1>5. CASE Free
  <2>1. entering = NoReq /\ Destroy(FALSE) /\ UNCHANGED <<closed, entering, poll>>
    BY <1>5 DEF Free, AtEventLoop
  <2>2. closed' \in BOOLEAN
    BY <1>1, <2>1 DEF TypeOK
  <2>3. QED
    BY <2>1, <2>2, DestroyInv
<1>6. CASE Close
  <2>1. entering = NoReq /\ closed' = TRUE /\ UNCHANGED <<entering, poll>>
    BY <1>6 DEF Close, AtEventLoop
  <2>2. CASE alive
    <3>1. Destroy(TRUE)
      BY <1>6, <2>2 DEF Close
    <3>2. QED
      BY <2>1, <3>1, DestroyInv
  <2>3. CASE ~alive
    <3>1. UNCHANGED <<alive, pendingReturn, st, rejected, hook, sendQ>>
      BY <1>6, <2>3 DEF Close
    <3>2. QED
      BY <1>1, <2>1, <3>1 DEF IInv, TypeOK, Waits, PointerOwned, Unfinished, Is
  <2>4. QED
    BY <2>2, <2>3
<1>7. CASE SendDone
  <2>1. /\ sendQ \in Seq(Req) /\ sendQ # <<>> /\ entering = NoReq
        /\ UNCHANGED <<alive, closed, poll, rejected, hook>>
    BY <1>1, <1>7 DEF SendDone, AtEventLoop, TypeOK, ctxVars
  <2>2. Tail(sendQ) \in Seq(Req) /\ Head(sendQ) \in Req
    BY <2>1, SentFirst
  <2>3. PICK r \in Req : r = Head(sendQ)
    BY <2>2
  <2>4. CASE st[r] \in {"sending", "stuck"}
    <3>1. Ends(r) /\ sendQ' = Tail(sendQ)
      BY <1>7, <2>3, <2>4 DEF SendDone
    <3>2. QED
      BY <2>1, <2>2, <2>4, <3>1, EndsInv
  <2>5. CASE st[r] \notin {"sending", "stuck"}
    <3>1. /\ st[r] = "called" /\ st' = [st EXCEPT ![r] = "sending"]
          /\ sendQ' = Append(Tail(sendQ), r) /\ UNCHANGED <<pendingReturn, entering>>
      BY <1>7, <2>3, <2>5 DEF SendDone
    <3>2. sendQ' \in Seq(Req)
      BY <2>2, <3>1
    <3>3. TypeOK'
      BY <1>1, <2>1, <3>1, <3>2 DEF TypeOK
    <3>4. Waits' /\ PointerOwned'
      BY <1>1, <2>1, <3>1 DEF Waits, PointerOwned, Unfinished, Is, TypeOK
    <3>5. QED
      BY <3>3, <3>4 DEF IInv
  <2>6. QED
    BY <2>4, <2>5
<1>8. CASE UNCHANGED vars
  BY <1>1, <1>8 DEF vars, ctxVars, IInv, TypeOK, Waits, PointerOwned, Unfinished, Is
<1>9. QED
  BY <1>2, <1>3, <1>4, <1>5, <1>6, <1>7, <1>8 DEF Next

LEMMA SpecInv == Spec => []IInv
BY InitInv, StepInv, PTL DEF Spec

-----------------------------------------------------------------------------
(* Nobody waits unnoticed, whatever clients do: a call, an event, a free   *)
(* or a close during a send makes requests end early, but it loses no      *)
(* waiting one (EventDispatcher's constructor, emit and destructor).       *)
THEOREM DispatcherWaiterKnown == Spec => []WaiterKnown
<1>1. IInv => WaiterKnown
  BY DispatcherAssumption DEF IInv, Waits, PointerOwned, Unfinished, TypeOK, WaiterKnown, Is
<1>2. QED
  BY <1>1, SpecInv, PTL

(* The on_finish that clears pendingReturn is that of the request it       *)
(* points to, whatever comes while an answer is being sent: none runs on a *)
(* destroyed dispatcher or takes another's place (onFinishPP, reject and   *)
(* the destructor).                                                        *)
THEOREM DispatcherPointerOwned == Spec => []PointerOwned
<1>1. IInv => PointerOwned
  BY DEF IInv
<1>2. QED
  BY <1>1, SpecInv, PTL
=============================================================================
