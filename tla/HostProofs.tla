----------------------------- MODULE HostProofs ------------------------------
(***************************************************************************)
(* What Host's run checks on a small instance - the start of the bridge    *)
(* and the pipe servers - proved for every set of threads, servers, names  *)
(* and requests and every number of connections.                           *)
(***************************************************************************)
EXTENDS Host, SequenceTheorems, FiniteSetTheorems, TLAPS

-----------------------------------------------------------------------------
(* The start of the bridge. *)

StartTypes ==
  /\ rtbloop \in Thread \cup {Nil}
  /\ lastErr \in BOOLEAN /\ overlap \in BOOLEAN /\ lost \in BOOLEAN
  /\ pc \in [Thread -> {"read", "write", "start", "create", "wait", "result", "done"}]
  /\ loop \in [Thread -> {"none", "check", "init", "set", "test", "running", "posted"}]
  /\ err \in [Thread -> BOOLEAN]

(* Unless two threads were in init_and_run at a time: one at most is; the  *)
(* loop is there from the moment its thread set it; and a start leaves no  *)
(* error behind for the next.                                              *)
OneStart ==
  ~overlap =>
    /\ ~lost
    /\ \A t, u \in Starting : t = u
    /\ \A t \in Thread :
         /\ loop[t] = "none" <=> ~(pc[t] \in {"wait", "result"} \/ (pc[t] = "done" /\ ~err[t]))
         /\ loop[t] # "posted"
         /\ loop[t] \in {"test", "running"} <=> rtbloop = t
         /\ loop[t] \in {"check", "init", "set", "test"} => pc[t] = "wait"
         /\ pc[t] = "create" \/ loop[t] \in {"check", "init", "set"} => rtbloop = Nil
         /\ pc[t] \in {"create", "wait"} => ~lastErr
         /\ pc[t] # "done" => ~err[t]

(* Whatever overlaps, as long as no start destroyed a loop: the one that   *)
(* is set was set by the thread that runs it or will, and a thread whose   *)
(* semaphore was posted found one.                                         *)
LoopKept ==
  ~lost =>
    /\ rtbloop # Nil => loop[rtbloop] \in {"test", "running"}
    /\ \A t \in Thread :
         /\ pc[t] \in {"read", "write", "start", "create"} => loop[t] = "none"
         /\ loop[t] = "running" => rtbloop = t
         /\ loop[t] = "posted" => rtbloop # Nil
         /\ pc[t] = "result" => loop[t] \in {"running", "posted"}
         /\ pc[t] = "done" /\ ~err[t] => rtbloop # Nil /\ uvloop = rtbloop

StartInv == StartTypes /\ OneStart /\ LoopKept

-----------------------------------------------------------------------------
(* The accepts. *)

AcceptTypes ==
  /\ mem \in [Server -> {"none", "live", "freed"}]
  /\ waiting \in [Server -> BOOLEAN]
  /\ newConn \in [Server -> Req \cup {Nil}]
  /\ accepting \in Seq(Server) /\ reentered \subseteq Server
  /\ connected \in [Server -> Seq(Nat)] /\ handed \in [Server -> Seq(Nat)]
  /\ arrived \in [Server -> Nat]
  /\ used \subseteq Req
  /\ answers \in [Req -> Nat]

(* A queue holds the connections that came last, and nothing behind its    *)
(* first was handed out yet: that one only inside an accept's newConn, on a *)
(* server that was served.                                                 *)
Turn(x) == IF Inside(x) > 0 /\ connected[x] # <<>> THEN 1 ELSE 0
QueueExact(x) ==
  /\ \A k \in 1 .. Len(connected[x]) : connected[x][k] = arrived[x] - Len(connected[x]) + k
  /\ \A k \in 1 .. Len(handed[x]) : handed[x][k] <= arrived[x] - Len(connected[x]) + Turn(x)
  /\ Inside(x) > 0 => mem[x] # "none"

(* An accept waits at one live server, and was not answered.               *)
AcceptsWait ==
  /\ \A r \in Req : r \notin used =>
       answers[r] = 0 /\ \A x \in Server : newConn[x] # r
  /\ \A x \in Server :
       /\ waiting[x] => newConn[x] \in Req /\ mem[x] # "none"
  /\ \A x, y \in Server :
       waiting[x] /\ waiting[y] /\ newConn[x] = newConn[y] => x = y

AcceptInv ==
  /\ AcceptTypes
  /\ AcceptsWait
  /\ \A x \in Server : QueueExact(x)
  /\ ConnectionsHanded

-----------------------------------------------------------------------------
(* The registry. *)

Entries == [name : Name, owner : Server \cup {Static}, wrapped : BOOLEAN, atHead : BOOLEAN]

ListTypes ==
  /\ list \in Seq(Entries)
  /\ mem \in [Server -> {"none", "live", "freed"}]
  /\ s \in [Server -> Name \cup {Nil}]

(* An entry lies in a server that served its name; the name of a live      *)
(* server is one; an entry outlives its server as the head only.           *)
EntriesExact ==
  /\ \A k \in DOMAIN list :
       /\ list[k].owner \in Server =>
            mem[list[k].owner] # "none" /\ s[list[k].owner] = list[k].name
       /\ Freed(list[k].owner) => list[k].atHead
  /\ \A x \in Server : mem[x] = "live" => s[x] \in Name

RegistryInv == ListTypes /\ EntriesExact /\ RegistryExact

IInv == StartInv /\ AcceptInv /\ RegistryInv


-----------------------------------------------------------------------------
(* Proofs about the start. *)

LEMMA StartTypesStep ==
  ASSUME StartTypes, Next
  PROVE  StartTypes'
<1>1. ASSUME NEW t \in Thread, ReadInited(t) \/ WriteInited(t) \/ StartLoop(t) \/ CreateLoop(t)
      PROVE  StartTypes'
  BY <1>1 DEF StartTypes, ReadInited, WriteInited, StartLoop, CreateLoop, Goto
<1>2. ASSUME NEW t \in Thread, LoopCheck(t) \/ LoopInit(t) \/ LoopSet(t) \/ LoopTest(t)
      PROVE  StartTypes'
  BY <1>2, HostAssumption DEF StartTypes, LoopCheck, LoopInit, LoopSet, LoopTest
<1>3. ASSUME NEW t \in Thread, Started(t) \/ Result(t) \/ Runnable(t)
      PROVE  StartTypes'
  BY <1>3 DEF StartTypes, Started, Result, Runnable, Goto
<1>4. ASSUME UNCHANGED startVars PROVE StartTypes'
  BY <1>4 DEF StartTypes, startVars
<1>5. QED
  BY <1>1, <1>2, <1>3, <1>4 DEF Next, StartNext

LEMMA OneStartStep ==
  ASSUME StartInv, Next
  PROVE  OneStart'
<1>1. StartTypes /\ OneStart /\ StartTypes' /\ Nil \notin Thread
  BY StartTypesStep, HostAssumption DEF StartInv
<1>2. ASSUME UNCHANGED <<rtbloop, lastErr, pc, loop, err, uvloop, overlap, lost>>
      PROVE  OneStart'
  BY <1>1, <1>2 DEF OneStart, Starting
<1>3. ASSUME NEW t \in Thread, ReadInited(t) PROVE OneStart'
  BY <1>1, <1>3 DEF OneStart, Starting, StartTypes, ReadInited, Goto
<1>4. ASSUME NEW t \in Thread, WriteInited(t) PROVE OneStart'
  BY <1>1, <1>4 DEF OneStart, Starting, StartTypes, WriteInited, Goto
<1>5. ASSUME NEW t \in Thread, StartLoop(t) PROVE OneStart'
  <2>1. CASE rtbloop # Nil
    BY <1>1, <1>5, <2>1 DEF OneStart, Starting, StartTypes, StartLoop, Goto
  <2>2. CASE rtbloop = Nil
    <3> SUFFICES ASSUME ~overlap' PROVE OneStart'
      BY DEF OneStart
    <3>1. /\ pc[t] = "start" /\ pc'[t] = "create" /\ lastErr' = FALSE /\ ~overlap
          /\ \A u \in Thread : u # t => pc'[u] = pc[u]
          /\ \A u \in Thread : pc[u] \notin {"create", "wait", "result"}
          /\ UNCHANGED <<rtbloop, loop, err, uvloop, lost>>
      BY <1>1, <1>5, <2>2 DEF Starting, StartTypes, StartLoop, Goto
    <3>2. \A u \in Thread : pc'[u] \in {"create", "wait", "result"} => u = t
      BY <3>1
    <3>3. \A u, v \in Starting' : u = v
      BY <3>2 DEF Starting
    <3>4. ASSUME NEW u \in Thread
          PROVE  /\ loop'[u] = "none" <=>
                      ~(pc'[u] \in {"wait", "result"} \/ (pc'[u] = "done" /\ ~err'[u]))
                 /\ loop'[u] # "posted"
                 /\ loop'[u] \in {"test", "running"} <=> rtbloop' = u
                 /\ loop'[u] \in {"check", "init", "set", "test"} => pc'[u] = "wait"
                 /\ pc'[u] = "create" \/ loop'[u] \in {"check", "init", "set"} => rtbloop' = Nil
                 /\ pc'[u] \in {"create", "wait"} => ~lastErr'
                 /\ pc'[u] # "done" => ~err'[u]
      BY <1>1, <2>2, <3>1 DEF OneStart
    <3>5. ~lost'
      BY <1>1, <3>1 DEF OneStart
    <3>6. QED
      BY <3>3, <3>4, <3>5 DEF OneStart
  <2>3. QED
    BY <2>1, <2>2
<1>6. ASSUME NEW t \in Thread, CreateLoop(t) PROVE OneStart'
  <2> SUFFICES ASSUME ~overlap' PROVE OneStart'
    BY DEF OneStart
  <2>1. /\ pc[t] = "create" /\ pc'[t] = "wait" /\ loop'[t] = "check"
        /\ \A u \in Thread : u # t => pc'[u] = pc[u] /\ loop'[u] = loop[u]
        /\ UNCHANGED <<rtbloop, lastErr, err, uvloop, overlap, lost>>
    BY <1>1, <1>6 DEF StartTypes, CreateLoop, Goto
  <2>2. \A u \in Thread : pc[u] \in {"create", "wait", "result"} => u = t
    BY <1>1, <2>1 DEF OneStart, Starting
  <2>3. \A u, v \in Starting' : u = v
    BY <2>1, <2>2 DEF Starting
  <2>4. rtbloop = Nil
    BY <1>1, <2>1 DEF OneStart
  <2>5. ~lastErr
    BY <1>1, <2>1 DEF OneStart
  <2>6. QED
    BY <1>1, <2>1, <2>3, <2>4, <2>5 DEF OneStart
<1>7. ASSUME NEW t \in Thread, LoopCheck(t) PROVE OneStart'
  BY <1>1, <1>7 DEF OneStart, Starting, StartTypes, LoopCheck
<1>8. ASSUME NEW t \in Thread, LoopInit(t) PROVE OneStart'
  BY <1>1, <1>8 DEF OneStart, Starting, StartTypes, LoopInit
<1>9. ASSUME NEW t \in Thread, LoopSet(t) PROVE OneStart'
  BY <1>1, <1>9 DEF OneStart, Starting, StartTypes, LoopSet
<1>10. ASSUME NEW t \in Thread, LoopTest(t) PROVE OneStart'
  <2> SUFFICES ASSUME ~overlap' PROVE OneStart'
    BY DEF OneStart
  <2>1. ~overlap /\ loop[t] = "test" /\ rtbloop = t /\ pc[t] = "wait" /\ ~lastErr
    BY <1>1, <1>10 DEF OneStart, LoopTest
  <2>2. /\ loop'[t] = "running" /\ \A u \in Thread : u # t => loop'[u] = loop[u]
        /\ lost' = lost
        /\ UNCHANGED <<rtbloop, lastErr, pc, err, uvloop>>
    BY <1>1, <1>10, <2>1 DEF LoopTest, StartTypes
  <2>3. QED
    BY <1>1, <2>1, <2>2 DEF OneStart, Starting
<1>11. ASSUME NEW t \in Thread, Started(t) PROVE OneStart'
  BY <1>1, <1>11 DEF OneStart, Starting, StartTypes, Started, Goto
<1>12. ASSUME NEW t \in Thread, Result(t) PROVE OneStart'
  BY <1>1, <1>12 DEF OneStart, Starting, StartTypes, Result, Goto
<1>13. ASSUME NEW t \in Thread, Runnable(t) PROVE OneStart'
  BY <1>2, <1>13 DEF Runnable
<1>14. ASSUME UNCHANGED startVars PROVE OneStart'
  BY <1>2, <1>14 DEF startVars
<1>15. QED
  BY <1>3, <1>4, <1>5, <1>6, <1>7, <1>8, <1>9, <1>10, <1>11, <1>12, <1>13, <1>14
     DEF Next, StartNext

LEMMA LoopKeptStep ==
  ASSUME StartInv, Next
  PROVE  LoopKept'
<1> SUFFICES ASSUME ~lost' PROVE LoopKept'
  BY DEF LoopKept
<1>1. StartTypes /\ LoopKept /\ StartTypes' /\ Nil \notin Thread
  BY StartTypesStep, HostAssumption DEF StartInv
<1>2. ASSUME UNCHANGED <<rtbloop, pc, loop, err, uvloop, lost>>
      PROVE  LoopKept'
  BY <1>1, <1>2 DEF LoopKept
<1>3. ASSUME NEW t \in Thread, ReadInited(t) \/ WriteInited(t) PROVE LoopKept'
  BY <1>1, <1>3 DEF LoopKept, StartTypes, ReadInited, WriteInited, Goto
<1>4. ASSUME NEW t \in Thread, StartLoop(t) PROVE LoopKept'
  BY <1>1, <1>4 DEF LoopKept, StartTypes, StartLoop, Goto
<1>5. ASSUME NEW t \in Thread, CreateLoop(t) PROVE LoopKept'
  <2>1. /\ pc[t] = "create" /\ pc'[t] = "wait" /\ loop'[t] = "check" /\ ~lost
        /\ \A u \in Thread : u # t => pc'[u] = pc[u] /\ loop'[u] = loop[u]
        /\ UNCHANGED <<rtbloop, err, uvloop>>
    BY <1>1, <1>5 DEF StartTypes, CreateLoop, Goto
  <2>2. rtbloop # t
    BY <1>1, <2>1 DEF LoopKept
  <2>3. QED
    BY <1>1, <2>1, <2>2 DEF LoopKept, StartTypes
<1>6. ASSUME NEW t \in Thread, LoopCheck(t) \/ LoopInit(t) PROVE LoopKept'
  BY <1>1, <1>6 DEF LoopKept, StartTypes, LoopCheck, LoopInit
<1>7. ASSUME NEW t \in Thread, LoopSet(t) PROVE LoopKept'
  <2>1. /\ loop[t] = "set" /\ loop'[t] = "test" /\ rtbloop = Nil /\ rtbloop' = t /\ ~lost
        /\ \A u \in Thread : u # t => loop'[u] = loop[u]
        /\ UNCHANGED <<pc, err, uvloop>>
    BY <1>1, <1>7 DEF LoopSet, StartTypes
  <2>2. \A u \in Thread : /\ loop[u] \notin {"running", "posted"} /\ pc[u] # "result"
                          /\ ~(pc[u] = "done" /\ ~err[u])
                          /\ pc[u] \in {"read", "write", "start", "create"} => loop[u] = "none"
    BY <1>1, <2>1 DEF LoopKept
  <2>3. \A u \in Thread : /\ loop'[u] \notin {"running", "posted"} /\ pc'[u] # "result"
                          /\ ~(pc'[u] = "done" /\ ~err'[u])
                          /\ pc'[u] \in {"read", "write", "start", "create"} => loop'[u] = "none"
    BY <2>1, <2>2
  <2>4. QED
    BY <2>1, <2>3 DEF LoopKept
<1>8. ASSUME NEW t \in Thread, LoopTest(t) PROVE LoopKept'
  <2>1. /\ loop[t] = "test" /\ loop'[t] = "running" /\ rtbloop = t /\ rtbloop' = t /\ ~lost
        /\ \A u \in Thread : u # t => loop'[u] = loop[u]
        /\ UNCHANGED <<pc, err, uvloop>>
    BY <1>1, <1>8 DEF LoopTest, StartTypes
  <2>2. \A u \in Thread :
          /\ pc[u] \in {"read", "write", "start", "create"} => loop[u] = "none"
          /\ loop[u] = "running" => rtbloop = u
          /\ pc[u] = "result" => loop[u] \in {"running", "posted"}
          /\ pc[u] = "done" /\ ~err[u] => uvloop = rtbloop
    BY <1>1, <2>1 DEF LoopKept
  <2>3. \A u \in Thread :
          /\ pc'[u] \in {"read", "write", "start", "create"} => loop'[u] = "none"
          /\ loop'[u] = "running" => rtbloop' = u
          /\ pc'[u] = "result" => loop'[u] \in {"running", "posted"}
          /\ pc'[u] = "done" /\ ~err'[u] => uvloop' = rtbloop'
    BY <2>1, <2>2
  <2>4. QED
    BY <1>1, <2>1, <2>3 DEF LoopKept
<1>9. ASSUME NEW t \in Thread, Started(t) PROVE LoopKept'
  BY <1>1, <1>9 DEF LoopKept, StartTypes, Started, Goto
<1>10. ASSUME NEW t \in Thread, Result(t) PROVE LoopKept'
  BY <1>1, <1>10 DEF LoopKept, StartTypes, Result, Goto
<1>11. ASSUME NEW t \in Thread, Runnable(t) PROVE LoopKept'
  BY <1>2, <1>11 DEF Runnable
<1>12. ASSUME UNCHANGED startVars PROVE LoopKept'
  BY <1>2, <1>12 DEF startVars
<1>13. QED
  BY <1>3, <1>4, <1>5, <1>6, <1>7, <1>8, <1>9, <1>10, <1>11, <1>12 DEF Next, StartNext

LEMMA StartInvStep ==
  ASSUME StartInv, [Next]_vars
  PROVE  StartInv'
<1>1. CASE UNCHANGED vars
  BY <1>1 DEF StartInv, StartTypes, OneStart, LoopKept, Starting, vars, startVars
<1>2. CASE Next
  BY <1>2, StartTypesStep, OneStartStep, LoopKeptStep DEF StartInv
<1>3. QED
  BY <1>1, <1>2

LEMMA SpecStartInv == Spec => []StartInv
<1>1. Init => StartInv
  BY HostAssumption DEF Init, StartInv, StartTypes, OneStart, LoopKept, Starting
<1>2. QED
  BY <1>1, StartInvStep, PTL DEF Spec

(* Two threads may start the bridge at once: until a start destroyed a     *)
(* loop, one runs at most and whoever was told of success has it; and a    *)
(* start destroys one only when two were under way (ensureInited,          *)
(* init_and_run).  Holds for every set of threads and every interleaving.  *)
THEOREM HostStartExact == Spec => []StartExact
<1>1. ASSUME StartInv PROVE StartExact
  <2>1. OneStart /\ LoopKept /\ StartTypes
    BY <1>1 DEF StartInv
  <2>2. ASSUME ~lost PROVE Cardinality({t \in Thread : loop[t] = "running"}) <= 1
    <3>1. {t \in Thread : loop[t] = "running"} \subseteq {rtbloop}
      BY <2>1, <2>2 DEF LoopKept
    <3>2. IsFiniteSet({rtbloop}) /\ Cardinality({rtbloop}) = 1
      BY FS_Singleton
    <3>3. QED
      BY <3>1, <3>2, FS_Subset, FS_CardinalityType
  <2>3. ASSUME ~lost, NEW t \in Thread, pc[t] = "done", ~err[t]
        PROVE  rtbloop # Nil /\ uvloop = rtbloop /\ loop[rtbloop] \in {"test", "running"}
    BY <2>1, <2>3 DEF LoopKept
  <2>4. ASSUME ~overlap, NEW t \in Thread, pc[t] = "done", ~err[t]
        PROVE  loop[t] = "running" /\ rtbloop = t
    BY <2>1, <2>4 DEF OneStart, StartTypes
  <2>5. ~overlap => ~lost
    BY <2>1 DEF OneStart
  <2>6. QED
    BY <2>2, <2>3, <2>4, <2>5 DEF StartExact
<1>2. QED
  BY <1>1, SpecStartInv, PTL


-----------------------------------------------------------------------------
(* Proofs about the accepts. *)

(* How often a value is in a sequence, from how often it is in front of    *)
(* the last place.                                                         *)
Times(q, x) == Cardinality({k \in DOMAIN q : q[k] = x})

LEMMA TimesLast ==
  ASSUME NEW S, NEW f \in Seq(S), NEW q \in Seq(S), NEW x, Len(q) = Len(f) + 1,
         \A k \in 1 .. Len(f) : q[k] = f[k]
  PROVE  /\ Times(f, x) \in Nat
         /\ Times(q, x) = IF q[Len(q)] = x THEN Times(f, x) + 1 ELSE Times(f, x)
<1>1. /\ Len(f) \in Nat /\ DOMAIN f = 1 .. Len(f) /\ DOMAIN q = 1 .. Len(f) + 1
  BY LenProperties
<1> DEFINE F == {k \in 1 .. Len(f) : f[k] = x}
           Q == {k \in 1 .. Len(f) + 1 : q[k] = x}
<1>2. Times(f, x) = Cardinality(F) /\ Times(q, x) = Cardinality(Q)
  BY <1>1 DEF Times
<1>3. IsFiniteSet(F) /\ Cardinality(F) \in Nat
  <2>1. IsFiniteSet(1 .. Len(f))
    BY <1>1, FS_Interval
  <2>2. F \subseteq 1 .. Len(f)
    OBVIOUS
  <2>3. QED
    BY <2>1, <2>2, FS_Subset, FS_CardinalityType
<1>4. Len(f) + 1 \notin F
  BY <1>1
<1>5. Q = IF q[Len(f) + 1] = x THEN F \cup {Len(f) + 1} ELSE F
  <2>1. \A k \in 1 .. Len(f) + 1 : k \in 1 .. Len(f) \/ k = Len(f) + 1
    BY <1>1
  <2>2. Len(f) + 1 \in 1 .. Len(f) + 1 /\ \A k \in 1 .. Len(f) : k \in 1 .. Len(f) + 1
    BY <1>1
  <2>3. QED
    BY <2>1, <2>2
<1> HIDE DEF F, Q
<1>6. Cardinality(F \cup {Len(f) + 1}) = Cardinality(F) + 1
  BY <1>3, <1>4, FS_AddElement
<1>7. QED
  BY <1>2, <1>3, <1>5, <1>6

(* The accepts that are inside newConn. *)
LEMMA InsideType ==
  ASSUME accepting \in Seq(Server), NEW x \in Server
  PROVE  Inside(x) \in Nat /\ (Inside(x) > 0 <=> x \in ToSet(accepting))
<1>1. Len(accepting) \in Nat /\ DOMAIN accepting = 1 .. Len(accepting)
  BY LenProperties
<1> DEFINE I == {k \in DOMAIN accepting : accepting[k] = x}
<1>2. IsFiniteSet(I) /\ Cardinality(I) \in Nat
  <2>1. IsFiniteSet(1 .. Len(accepting)) /\ I \subseteq 1 .. Len(accepting)
    BY <1>1, FS_Interval
  <2>2. QED
    BY <2>1, FS_Subset, FS_CardinalityType
<1>3. Cardinality(I) = 0 <=> I = {}
  BY <1>2, FS_EmptySet
<1>4. I # {} <=> x \in ToSet(accepting)
  BY DEF ToSet
<1>5. Inside(x) = Cardinality(I)
  BY DEF Inside
<1> HIDE DEF I
<1>6. QED
  BY <1>2, <1>3, <1>4, <1>5

LEMMA Appended ==
  ASSUME NEW T, NEW q \in Seq(T), NEW e \in T
  PROVE  /\ Append(q, e) \in Seq(T) /\ Len(Append(q, e)) = Len(q) + 1
         /\ \A k \in 1 .. Len(q) : Append(q, e)[k] = q[k]
         /\ Append(q, e)[Len(q) + 1] = e /\ Append(q, e) # <<>>
BY AppendProperties

LEMMA InsideEnter ==
  ASSUME accepting \in Seq(Server), NEW x \in Server, accepting' = Append(accepting, x)
  PROVE  /\ accepting' \in Seq(Server)
         /\ Inside(x)' = Inside(x) + 1
         /\ \A y \in Server : y # x => Inside(y)' = Inside(y)
<1>1. /\ Append(accepting, x) \in Seq(Server) /\ Len(Append(accepting, x)) = Len(accepting) + 1
      /\ \A k \in 1 .. Len(accepting) : Append(accepting, x)[k] = accepting[k]
      /\ Append(accepting, x)[Len(accepting) + 1] = x
  BY Appended
<1>2. ASSUME NEW y \in Server
      PROVE  Times(accepting', y) = IF x = y THEN Times(accepting, y) + 1 ELSE Times(accepting, y)
  <2>1. Times(Append(accepting, x), y) =
          IF Append(accepting, x)[Len(Append(accepting, x))] = y
          THEN Times(accepting, y) + 1 ELSE Times(accepting, y)
    BY <1>1, TimesLast
  <2>2. QED
    BY <1>1, <2>1
<1>3. \A y : Inside(y) = Times(accepting, y) /\ Inside(y)' = Times(accepting', y)
  BY DEF Inside, Times
<1>4. QED
  BY <1>1, <1>2, <1>3

LEMMA InsideLeave ==
  ASSUME accepting \in Seq(Server), accepting # <<>>, accepting' = Front(accepting),
         NEW x, x = Last(accepting)
  PROVE  /\ accepting' \in Seq(Server) /\ x \in Server
         /\ Inside(x)' \in Nat /\ Inside(x) = Inside(x)' + 1
         /\ \A y \in Server : y # x => Inside(y)' = Inside(y)
<1>1. Len(accepting) \in Nat \ {0} /\ Last(accepting) = accepting[Len(accepting)]
  BY EmptySeq, LenProperties DEF Last
<1>2. PICK n \in Nat : Len(accepting) = n + 1
  <2>1. Len(accepting) - 1 \in Nat /\ Len(accepting) = (Len(accepting) - 1) + 1
    BY <1>1
  <2>2. QED
    BY <2>1
<1>3. /\ SubSeq(accepting, 1, n) \in Seq(Server) /\ Len(SubSeq(accepting, 1, n)) = n
      /\ \A k \in 1 .. n : SubSeq(accepting, 1, n)[k] = accepting[k]
  BY <1>2, SubSeqProperties
<1>4. accepting' = SubSeq(accepting, 1, n)
  BY <1>2 DEF Front
<1>5. accepting[n + 1] \in Server
  BY <1>2, ElementOfSeq
<1>6. ASSUME NEW y \in Server
      PROVE  /\ Times(accepting', y) \in Nat
             /\ Times(accepting, y) = IF accepting[n + 1] = y THEN Times(accepting', y) + 1
                                      ELSE Times(accepting', y)
  <2>1. /\ accepting' \in Seq(Server) /\ Len(accepting) = Len(accepting') + 1
        /\ \A k \in 1 .. Len(accepting') : accepting[k] = accepting'[k]
    BY <1>2, <1>3, <1>4
  <2>2. QED
    BY <1>2, <2>1, TimesLast
<1>7. \A y : Inside(y) = Times(accepting, y) /\ Inside(y)' = Times(accepting', y)
  BY DEF Inside, Times
<1>8. x \in Server /\ accepting[n + 1] = x
  BY <1>1, <1>2, <1>5
<1>9. QED
  BY <1>3, <1>4, <1>6, <1>7, <1>8

-----------------------------------------------------------------------------
(* What a search finds. *)

LEMMA FindSpec ==
  ASSUME NEW n, list \in Seq(Entries),
         \A j, k \in DOMAIN list : list[j].name = list[k].name => j = k
  PROVE  /\ Find(n) \in DOMAIN list => list[Find(n)].name = n
         /\ \A k \in DOMAIN list : list[k].name = n => Find(n) = k
         /\ Find(n) \in 1 .. Len(list) + 1 /\ DOMAIN list = 1 .. Len(list) /\ Len(list) \in Nat
<1>1. DOMAIN list = 1 .. Len(list) /\ Len(list) \in Nat
  BY LenProperties
<1>2. CASE \E k \in DOMAIN list : list[k].name = n
  <2>1. PICK k \in DOMAIN list : list[k].name = n
    BY <1>2
  <2>2. \A j \in 1 .. k - 1 : list[j].name # n
    <3>1. \A j \in 1 .. k - 1 : j \in DOMAIN list /\ j # k
      BY <1>1
    <3>2. QED
      BY <2>1, <3>1
  <2>3. Find(n) = CHOOSE j \in DOMAIN list :
                    list[j].name = n /\ \A i \in 1 .. j - 1 : list[i].name # n
    BY <1>2 DEF Find
  <2>4. Find(n) \in DOMAIN list /\ list[Find(n)].name = n
    BY <2>1, <2>2, <2>3
  <2>5. QED
    BY <1>1, <2>4
<1>3. CASE ~\E k \in DOMAIN list : list[k].name = n
  BY <1>1, <1>3 DEF Find
<1>4. QED
  BY <1>2, <1>3

LEMMA RegistryFacts ==
  ASSUME RegistryInv
  PROVE  /\ list \in Seq(Entries) /\ mem \in [Server -> {"none", "live", "freed"}]
         /\ \A j, k \in DOMAIN list : list[j].name = list[k].name => j = k
         /\ \A k \in DOMAIN list : list[k] \in Entries
BY ElementOfSeq, LenProperties DEF RegistryInv, ListTypes, RegistryExact

(* A connect that is no fault finds a server that lives. *)
LEMMA FoundLives ==
  ASSUME RegistryInv, NEW n, Find(n) \in DOMAIN list, ~SearchReadsFreed(n),
         list[Find(n)].owner # Static
  PROVE  list[Find(n)].owner \in Server /\ mem[list[Find(n)].owner] = "live"
<1>1. PICK k \in DOMAIN list : k = Find(n)
  OBVIOUS
<1>2. list[k].owner \in Server
  BY <1>1, RegistryFacts DEF Entries
<1>3. mem[list[k].owner] # "none"
  BY <1>2 DEF RegistryInv, EntriesExact
<1>4. k <= Find(n)
  BY <1>1, RegistryFacts, LenProperties
<1>5. ~Freed(list[k].owner)
  BY <1>4 DEF SearchReadsFreed
<1>6. QED
  BY <1>1, <1>2, <1>3, <1>5, RegistryFacts DEF Freed


(* Handed out and queued, against arrived and about to be taken. *)
LEMMA Sums ==
  \A l, n, a, i \in Nat :
    /\ l + (n + 1) = a + (i + 1) => l + n = a + i
    /\ l + n = a + i => l + (n + 1) = (a + 1) + i
    /\ l + 0 = a + i => (l + 1) + 0 = (a + 1) + i
    /\ l + n = a + 0 => a - n + 1 = l + 1
OBVIOUS

LEMMA AnswerOne ==
  ASSUME AcceptTypes, NEW r \in Req, Answer(r)
  PROVE  /\ answers' \in [Req -> Nat] /\ answers'[r] = answers[r] + 1
         /\ \A q \in Req : q # r => answers'[q] = answers[q]
BY DEF AcceptTypes, Answer

(* A server that nothing happens to. *)
ServerSame(y) ==
  /\ handed'[y] = handed[y] /\ connected'[y] = connected[y] /\ arrived'[y] = arrived[y]
  /\ Inside(y)' = Inside(y) /\ (y \in reentered' <=> y \in reentered)
  /\ mem[y] # "none" => mem'[y] # "none"
  /\ mem'[y] = "live" /\ waiting'[y] =>
       /\ mem[y] = "live" /\ waiting[y]
       /\ answers'[newConn'[y]] = answers[newConn[y]]

LEMMA SameServer ==
  ASSUME NEW y \in Server, QueueExact(y), HandedExact(y), ServerSame(y)
  PROVE  QueueExact(y)' /\ HandedExact(y)'
BY DEF QueueExact, HandedExact, Turn, ServerSame

(* The accept types, unfolded for one server. *)
LEMMA ServerTypes ==
  ASSUME AcceptInv, NEW x \in Server
  PROVE  /\ handed[x] \in Seq(Nat) /\ connected[x] \in Seq(Nat) /\ arrived[x] \in Nat
         /\ Len(handed[x]) \in Nat /\ Len(connected[x]) \in Nat
         /\ DOMAIN handed[x] = 1 .. Len(handed[x])
         /\ DOMAIN connected[x] = 1 .. Len(connected[x])
         /\ Inside(x) \in Nat
<1>1. handed[x] \in Seq(Nat) /\ connected[x] \in Seq(Nat) /\ arrived[x] \in Nat
  BY DEF AcceptInv, AcceptTypes
<1>2. Inside(x) \in Nat
  BY InsideType DEF AcceptInv, AcceptTypes
<1>3. QED
  BY <1>1, <1>2, LenProperties

(* A connection is handed to an accept: the numbers add up.                *)
LEMMA HandOne ==
  ASSUME NEW h \in Seq(Nat), NEW c \in Nat, NEW m \in Nat,
         \A j, k \in DOMAIN h : j <= k => h[j] <= h[k],
         \A k \in 1 .. Len(h) : h[k] <= c
  PROVE  /\ Append(h, c) \in Seq(Nat) /\ Len(Append(h, c)) = Len(h) + 1
         /\ DOMAIN Append(h, c) = 1 .. Len(h) + 1
         /\ \A j, k \in DOMAIN Append(h, c) : j <= k => Append(h, c)[j] <= Append(h, c)[k]
         /\ \A k \in 1 .. Len(h) + 1 : Append(h, c)[k] <= c
         /\ (\A k \in DOMAIN h : h[k] = k) /\ c = Len(h) + 1 =>
              \A k \in DOMAIN Append(h, c) : Append(h, c)[k] = k
<1>1. Len(h) \in Nat /\ DOMAIN h = 1 .. Len(h) /\ \A k \in 1 .. Len(h) : h[k] \in Nat
  BY LenProperties, ElementOfSeq
<1>2. /\ Append(h, c) \in Seq(Nat) /\ Len(Append(h, c)) = Len(h) + 1
      /\ \A k \in 1 .. Len(h) : Append(h, c)[k] = h[k]
      /\ Append(h, c)[Len(h) + 1] = c
  BY Appended
<1>3. DOMAIN Append(h, c) = 1 .. Len(h) + 1
  BY <1>2, LenProperties
<1>4. \A k \in 1 .. Len(h) + 1 : k \in 1 .. Len(h) \/ k = Len(h) + 1
  BY <1>1
<1>5. \A k \in 1 .. Len(h) + 1 : Append(h, c)[k] <= c
  BY <1>2, <1>4
<1>6. ASSUME NEW j \in 1 .. Len(h) + 1, NEW k \in 1 .. Len(h) + 1, j <= k
      PROVE  Append(h, c)[j] <= Append(h, c)[k]
  <2>1. CASE k = Len(h) + 1
    BY <1>2, <1>5, <2>1
  <2>2. CASE k # Len(h) + 1
    <3>1. j \in 1 .. Len(h) /\ k \in 1 .. Len(h)
      BY <1>1, <1>6, <2>2
    <3>2. QED
      BY <1>1, <1>2, <1>6, <3>1
  <2>3. QED
    BY <2>1, <2>2
<1>7. ASSUME \A k \in DOMAIN h : h[k] = k, c = Len(h) + 1, NEW k \in 1 .. Len(h) + 1
      PROVE  Append(h, c)[k] = k
  BY <1>1, <1>2, <1>4, <1>7
<1>8. QED
  BY <1>2, <1>3, <1>5, <1>6, <1>7

LEMMA ServeAccepts ==
  ASSUME AcceptInv, NEW x \in Server, NEW n, fault = "none", Serve(x, n)
  PROVE  AcceptInv'
<1>1. UNCHANGED <<connected, waiting, newConn, accepting, used, answers, arrived, handed,
                  reentered>> /\ fault' # "pop"
  BY DEF Serve
<1>2. mem[x] = "none" /\ (mem' = mem \/ mem' = [mem EXCEPT ![x] = "live"])
  BY DEF Serve
<1>3. AcceptTypes'
  BY <1>1, <1>2 DEF AcceptInv, AcceptTypes
<1>4. ~waiting[x]
  BY <1>2 DEF AcceptInv, AcceptsWait
<1>5. \A y \in Server : y # x => mem'[y] = mem[y]
  BY <1>2 DEF AcceptInv, AcceptTypes
<1>6. AcceptsWait'
  BY <1>1, <1>4, <1>5 DEF AcceptInv, AcceptsWait
<1>7. ASSUME NEW y \in Server PROVE QueueExact(y)' /\ HandedExact(y)'
  <2>1. QueueExact(y) /\ HandedExact(y)
    BY DEF AcceptInv, ConnectionsHanded
  <2>2. Inside(y)' = Inside(y)
    BY <1>1 DEF Inside
  <2>3. mem[y] # "none" => mem'[y] = mem[y]
    BY <1>2, <1>5
  <2>4. mem'[y] = "live" /\ waiting'[y] => mem[y] = "live"
    BY <1>1, <1>4, <1>5
  <2>5. ServerSame(y)
    BY <1>1, <2>2, <2>3, <2>4 DEF ServerSame
  <2>6. QED
    BY <2>1, <2>5, SameServer
<1>8. \A r \in Req : answers'[r] <= 1
  BY <1>1 DEF AcceptInv, ConnectionsHanded
<1>9. QED
  BY <1>1, <1>3, <1>6, <1>7, <1>8 DEF AcceptInv, ConnectionsHanded

LEMMA AcceptAccepts ==
  ASSUME AcceptInv, PipeServersAssumption, NEW x \in Server, NEW r \in Req, fault = "none",
         Accept(r, x)
  PROVE  AcceptInv'
<1>1. /\ mem[x] = "live" /\ r \notin used /\ used' = used \cup {r}
      /\ UNCHANGED <<mem, connected, arrived>> /\ fault' # "pop"
      /\ answers[r] = 0 /\ \A y \in Server : newConn[y] # r
  BY DEF Accept, AcceptInv, AcceptsWait
<1>2. /\ AcceptTypes /\ AcceptsWait /\ \A q \in Req : answers[q] <= 1
      /\ \A y \in Server : QueueExact(y) /\ HandedExact(y)
  BY DEF AcceptInv, ConnectionsHanded
<1>3. CASE connected[x] = <<>>
  <2>1. /\ newConn'[x] = r /\ waiting'[x] = TRUE
        /\ \A y \in Server : y # x => newConn'[y] = newConn[y] /\ waiting'[y] = waiting[y]
        /\ UNCHANGED <<accepting, handed, answers, reentered>>
    BY <1>2, <1>3 DEF Accept, AcceptTypes
  <2>2. AcceptTypes'
    BY <1>1, <1>2, <1>3, <2>1 DEF Accept, AcceptTypes
  <2>3. AcceptsWait'
    BY <1>1, <1>2, <2>1 DEF AcceptsWait
  <2>4. \A y \in Server : Inside(y)' = Inside(y)
    BY <2>1 DEF Inside
  <2>5. ASSUME NEW y \in Server PROVE QueueExact(y)' /\ HandedExact(y)'
    <3>1. CASE y = x
      <4>1. QueueExact(x) /\ HandedExact(x) /\ Inside(x)' = Inside(x)
        BY <1>2, <2>4
      <4>2. Turn(x)' = Turn(x) /\ connected'[x] = <<>>
        BY <1>1, <1>3, <4>1 DEF Turn
      <4>3. QueueExact(x)'
        BY <1>1, <2>1, <4>1, <4>2 DEF QueueExact
      <4>4. answers'[newConn'[x]] = 0
        BY <1>1, <2>1
      <4>5. HandedExact(x)'
        BY <1>1, <2>1, <4>1, <4>2, <4>4 DEF HandedExact
      <4>6. QED
        BY <3>1, <4>3, <4>5
    <3>2. CASE y # x
      <4>1. ServerSame(y)
        BY <1>1, <2>1, <2>4, <3>2 DEF ServerSame
      <4>2. QED
        BY <1>2, <4>1, SameServer
    <3>3. QED
      BY <3>1, <3>2
  <2>6. QED
    BY <1>1, <1>2, <2>1, <2>2, <2>3, <2>5 DEF AcceptInv, ConnectionsHanded
<1>4. CASE connected[x] # <<>>
  <2>1. /\ handed'[x] = Append(handed[x], Head(connected[x]))
        /\ \A y \in Server : y # x => handed'[y] = handed[y]
        /\ accepting' = Append(accepting, x)
        /\ reentered' = IF x \in ToSet(accepting) THEN reentered \cup {x} ELSE reentered
        /\ UNCHANGED <<newConn, waiting>> /\ Answer(r)
    BY <1>2, <1>4 DEF Accept, AcceptTypes
  <2>2. ~waiting[x]
    BY <1>1, <1>2, <1>4 DEF HandedExact
  <2>3. /\ answers' \in [Req -> Nat] /\ answers'[r] = 1
        /\ \A q \in Req : q # r => answers'[q] = answers[q]
    BY <1>1, <1>2, <2>1, AnswerOne
  <2>4. /\ accepting' \in Seq(Server) /\ Inside(x)' = Inside(x) + 1
        /\ \A y \in Server : y # x => Inside(y)' = Inside(y)
    BY <1>2, <2>1, InsideEnter DEF AcceptTypes
  <2>5. PICK h \in Seq(Nat), c \in Seq(Nat), a \in Nat :
          h = handed[x] /\ c = connected[x] /\ a = arrived[x]
    BY <1>2 DEF AcceptTypes
  <2>6. PICK n \in Nat \ {0} : n = Len(c) /\ Head(c) = c[1] /\ c[1] \in Nat
    BY <1>4, <2>5, EmptySeq, LenProperties, HeadTailProperties, ElementOfSeq
  <2>7. /\ c[1] = a - n + 1 /\ \A k \in 1 .. Len(h) : h[k] <= c[1]
        /\ \A j, k \in DOMAIN h : j <= k => h[j] <= h[k]
    <3>1. 1 \in 1 .. n
      BY <2>6
    <3>2. QueueExact(x) /\ HandedExact(x) /\ Turn(x) \in {0, 1}
      BY <1>2 DEF Turn
    <3>3. c[1] = a - n + 1 /\ \A k \in 1 .. Len(h) : h[k] <= a - n + Turn(x)
      BY <2>5, <2>6, <3>1, <3>2 DEF QueueExact
    <3>4. \A k \in 1 .. Len(h) : h[k] \in Nat
      BY ElementOfSeq
    <3>5. \A k \in 1 .. Len(h) : h[k] <= a - n + 1
      <4>1. PICK z \in {0, 1} : z = Turn(x)
        BY <3>2
      <4>2. QED
        BY <3>3, <3>4, <4>1
    <3>6. QED
      BY <2>5, <3>2, <3>3, <3>5 DEF HandedExact
  <2>8. /\ Append(h, c[1]) \in Seq(Nat) /\ Len(Append(h, c[1])) = Len(h) + 1
        /\ DOMAIN Append(h, c[1]) = 1 .. Len(h) + 1
        /\ \A j, k \in DOMAIN Append(h, c[1]) :
             j <= k => Append(h, c[1])[j] <= Append(h, c[1])[k]
        /\ \A k \in 1 .. Len(h) + 1 : Append(h, c[1])[k] <= c[1]
        /\ (\A k \in DOMAIN h : h[k] = k) /\ c[1] = Len(h) + 1 =>
             \A k \in DOMAIN Append(h, c[1]) : Append(h, c[1])[k] = k
    BY <2>6, <2>7, HandOne
  <2>9. handed'[x] = Append(h, c[1])
    BY <2>1, <2>5, <2>6
  <2>10. ASSUME NEW y \in Server PROVE handed'[y] \in Seq(Nat)
    <3>1. CASE y = x
      BY <2>8, <2>9, <3>1
    <3>2. CASE y # x
      <4>1. handed'[y] = handed[y] /\ handed[y] \in Seq(Nat)
        BY <1>2, <2>1, <3>2 DEF AcceptTypes
      <4>2. QED
        BY <4>1
    <3>3. QED
      BY <3>1, <3>2
  <2>11. AcceptTypes'
    <3>1. handed' \in [Server -> Seq(Nat)]
      <4>1. handed' = [handed EXCEPT ![x] = Append(@, Head(connected[x]))]
        BY <1>4 DEF Accept
      <4>2. QED
        BY <1>2, <2>10, <4>1 DEF AcceptTypes
    <3>2. reentered' \subseteq Server
      BY <1>2, <2>1 DEF AcceptTypes
    <3>3. QED
      BY <1>1, <1>2, <2>1, <2>3, <2>4, <3>1, <3>2 DEF AcceptTypes
  <2>12. AcceptsWait'
    BY <1>1, <1>2, <2>1, <2>3 DEF AcceptsWait
  <2>13. QueueExact(x)' /\ HandedExact(x)'
    <3>1. PICK i \in Nat : i = Inside(x)
      BY <1>2, InsideType DEF AcceptTypes
    <3>2. Len(h) \in Nat /\ Len(h) + n = a + i
      BY <1>2, <2>5, <2>6, <3>1, LenProperties DEF HandedExact
    <3>3. Turn(x)' = 1
      BY <1>1, <1>4, <2>4, <3>1 DEF Turn
    <3>4. QueueExact(x)'
      <4>1. \A k \in 1 .. Len(connected'[x]) :
              connected'[x][k] = arrived'[x] - Len(connected'[x]) + k
        BY <1>1, <1>2 DEF QueueExact
      <4>2. \A k \in 1 .. Len(handed'[x]) :
              handed'[x][k] <= arrived'[x] - Len(connected'[x]) + Turn(x)'
        BY <1>1, <2>5, <2>6, <2>7, <2>8, <2>9, <3>3
      <4>3. QED
        BY <1>1, <4>1, <4>2 DEF QueueExact
    <3>5. x \notin reentered' => x \notin reentered /\ i = 0
      BY <1>2, <2>1, <3>1, InsideType DEF AcceptTypes
    <3>6. x \notin reentered' => \A k \in DOMAIN handed'[x] : handed'[x][k] = k
      <4>1. ASSUME x \notin reentered' PROVE c[1] = Len(h) + 1 /\ \A k \in DOMAIN h : h[k] = k
        <5>1. c[1] = Len(h) + 1
          <6>1. Len(h) + n = a + 0 /\ c[1] = a - n + 1
            BY <2>7, <3>2, <3>5, <4>1
          <6>2. QED
            BY ONLY <3>2, <6>1, n \in Nat, a \in Nat, Sums
        <5>2. \A k \in DOMAIN h : h[k] = k
          BY <1>2, <2>5, <3>5, <4>1 DEF HandedExact
        <5>3. QED
          BY <5>1, <5>2
      <4>2. QED
        BY <2>8, <2>9, <4>1
    <3>7. Len(handed'[x]) + Len(connected'[x]) = arrived'[x] + Inside(x)'
      <4>1. /\ Len(handed'[x]) = Len(h) + 1 /\ Len(connected'[x]) = n
            /\ arrived'[x] = a /\ Inside(x)' = i + 1
        <5>1. Len(handed'[x]) = Len(h) + 1
          BY <2>8, <2>9
        <5>2. connected'[x] = c /\ arrived'[x] = a
          BY <1>1, <2>1, <2>5
        <5>3. QED
          BY <2>4, <2>6, <3>1, <5>1, <5>2
      <4>2. (Len(h) + 1) + n = a + (i + 1)
        <5>1. PICK l \in Nat : l = Len(h)
          BY <3>2
        <5>2. l + n = a + i
          BY <3>2, <5>1
        <5>3. (l + 1) + n = a + (i + 1)
          BY ONLY <5>2, l \in Nat, n \in Nat, a \in Nat, i \in Nat
        <5>4. QED
          BY <5>1, <5>3
      <4>3. QED
        BY <4>1, <4>2
    <3>8. \A j, k \in DOMAIN handed'[x] : j <= k => handed'[x][j] <= handed'[x][k]
      BY <2>8, <2>9
    <3>9. ~waiting'[x]
      BY <2>1, <2>2
    <3>10. QED
      BY <3>4, <3>6, <3>7, <3>8, <3>9 DEF HandedExact
  <2>14. ASSUME NEW y \in Server, y # x PROVE QueueExact(y)' /\ HandedExact(y)'
    <3>1. waiting[y] => newConn[y] \in Req /\ newConn[y] # r
      BY <1>1, <1>2 DEF AcceptsWait
    <3>2. y \in reentered' <=> y \in reentered
      BY <2>1, <2>14
    <3>3. ServerSame(y)
      BY <1>1, <2>1, <2>3, <2>4, <2>14, <3>1, <3>2 DEF ServerSame
    <3>4. QED
      BY <1>2, <3>3, SameServer
  <2>15. \A q \in Req : answers'[q] <= 1
    BY <1>2, <2>3
  <2>16. QED
    BY <1>1, <2>11, <2>12, <2>13, <2>14, <2>15 DEF AcceptInv, ConnectionsHanded
<1>5. QED
  BY <1>3, <1>4

(* newConn returned. *)
LEMMA AcceptedAccepts ==
  ASSUME AcceptInv, fault = "none", Accepted
  PROVE  AcceptInv'
<1>1. /\ AcceptTypes /\ AcceptsWait /\ \A q \in Req : answers[q] <= 1
      /\ \A y \in Server : QueueExact(y) /\ HandedExact(y)
  BY DEF AcceptInv, ConnectionsHanded
<1>2. /\ accepting # <<>> /\ accepting \in Seq(Server)
      /\ UNCHANGED <<mem, waiting, newConn, used, answers, arrived, handed, reentered>>
  BY <1>1 DEF Accepted, AcceptTypes
<1>3. PICK x \in Server : x = Last(accepting) /\ x \in ToSet(accepting)
  <2>1. Len(accepting) \in DOMAIN accepting
    BY <1>2, EmptySeq, LenProperties
  <2>2. accepting[Len(accepting)] \in Server
    BY <1>2, <2>1, ElementOfSeq, LenProperties
  <2>3. QED
    BY <2>1, <2>2 DEF Last, ToSet
<1>4. Inside(x) \in Nat /\ Inside(x) > 0
  BY <1>2, <1>3, InsideType
<1>5. CASE mem[x] # "live" \/ connected[x] = <<>>
  <2>1. UNCHANGED <<accepting, connected>>
    BY <1>3, <1>5 DEF Accepted
  <2>2. \A y \in Server : Inside(y)' = Inside(y)
    BY <2>1 DEF Inside
  <2>3. ASSUME NEW y \in Server PROVE QueueExact(y)' /\ HandedExact(y)'
    <3>1. ServerSame(y)
      BY <1>2, <2>1, <2>2 DEF ServerSame
    <3>2. QED
      BY <1>1, <3>1, SameServer
  <2>4. mem[x] = "freed" \/ x \in reentered
    <3>1. CASE mem[x] # "live" /\ x \notin reentered
      <4>1. mem[x] # "none"
        BY <1>1, <1>4 DEF QueueExact
      <4>2. QED
        BY <1>1, <3>1, <4>1 DEF AcceptTypes
    <3>2. CASE connected[x] = <<>> /\ x \notin reentered
      <4>1. PICK h \in Seq(Nat), a \in Nat, i \in Nat \ {0} :
              h = handed[x] /\ a = arrived[x] /\ i = Inside(x)
        BY <1>1, <1>4 DEF AcceptTypes
      <4>2. Len(h) \in Nat /\ Len(h) + 0 = a + i /\ DOMAIN h = 1 .. Len(h)
        BY <1>1, <3>2, <4>1, EmptySeq, LenProperties DEF HandedExact
      <4>3. Len(h) \in 1 .. Len(h)
        BY <4>1, <4>2
      <4>4. h[Len(h)] = Len(h)
        BY <1>1, <3>2, <4>1, <4>2, <4>3 DEF HandedExact
      <4>5. h[Len(h)] <= a - 0 + 0
        BY <1>1, <3>2, <4>1, <4>2, <4>3, EmptySeq DEF QueueExact, Turn
      <4>6. QED
        BY <4>1, <4>2, <4>4, <4>5
    <3>3. QED
      BY <1>5, <3>1, <3>2
  <2>5. AcceptTypes' /\ AcceptsWait'
    BY <1>1, <1>2, <2>1 DEF AcceptTypes, AcceptsWait
  <2>6. Inside(x)' > 0 /\ (x \in reentered' \/ Freed(x)')
    BY <1>2, <1>4, <2>2, <2>4 DEF Freed
  <2>7. \A q \in Req : answers'[q] <= 1
    BY <1>1, <1>2
  <2>8. QED
    BY <2>3, <2>5, <2>6, <2>7 DEF AcceptInv, ConnectionsHanded
<1>6. CASE ~(mem[x] # "live" \/ connected[x] = <<>>)
  <2>1. /\ accepting' = Front(accepting) /\ connected'[x] = Tail(connected[x]) /\ fault' # "pop"
        /\ connected' = [connected EXCEPT ![x] = Tail(connected[x])]
        /\ \A y \in Server : y # x => connected'[y] = connected[y]
    BY <1>1, <1>3, <1>6 DEF Accepted, AcceptTypes
  <2>2. /\ accepting' \in Seq(Server) /\ Inside(x)' \in Nat /\ Inside(x) = Inside(x)' + 1
        /\ \A y \in Server : y # x => Inside(y)' = Inside(y)
    BY <1>2, <1>3, <2>1, InsideLeave
  <2>3. PICK c \in Seq(Nat), a \in Nat : c = connected[x] /\ a = arrived[x] /\ c # <<>>
    BY <1>1, <1>6 DEF AcceptTypes
  <2>4. PICK n \in Nat : /\ Len(c) = n + 1 /\ Tail(c) \in Seq(Nat) /\ Len(Tail(c)) = n
                         /\ \A k \in 1 .. n : Tail(c)[k] = c[k + 1]
    <3>1. Len(c) \in Nat \ {0}
      BY <2>3, EmptySeq, LenProperties
    <3>2. Len(c) - 1 \in Nat /\ Len(c) = (Len(c) - 1) + 1
      BY <3>1
    <3>3. /\ Tail(c) \in Seq(Nat) /\ Len(Tail(c)) = Len(c) - 1
          /\ \A k \in 1 .. Len(c) - 1 : Tail(c)[k] = c[k + 1]
      BY <2>3, HeadTailProperties
    <3>4. QED
      BY <3>2, <3>3
  <2>5. AcceptTypes' /\ AcceptsWait'
    BY <1>1, <1>2, <2>1, <2>2, <2>3, <2>4 DEF AcceptTypes, AcceptsWait
  <2>6. QueueExact(x)' /\ HandedExact(x)'
    <3>1. PICK h \in Seq(Nat), i \in Nat : h = handed[x] /\ i = Inside(x)' /\ Inside(x) = i + 1
      BY <1>1, <2>2 DEF AcceptTypes
    <3>2. Turn(x) = 1 /\ Turn(x)' \in {0, 1}
      BY <1>4, <1>6 DEF Turn
    <3>3. ASSUME NEW k \in 1 .. n PROVE Tail(c)[k] = a - n + k
      <4>1. k + 1 \in 1 .. n + 1
        OBVIOUS
      <4>2. c[k + 1] = a - (n + 1) + (k + 1)
        BY <1>1, <2>3, <2>4, <4>1 DEF QueueExact
      <4>3. QED
        BY <2>4, <4>2
    <3>4. ASSUME NEW k \in 1 .. Len(h) PROVE h[k] <= a - n + Turn(x)'
      <4>1. h[k] <= a - (n + 1) + 1 /\ h[k] \in Nat
        BY <1>1, <2>3, <2>4, <3>1, <3>2, ElementOfSeq DEF QueueExact
      <4>2. PICK z \in {0, 1} : z = Turn(x)'
        BY <3>2
      <4>3. QED
        BY <4>1, <4>2
    <3>5. QueueExact(x)'
      <4>1. mem'[x] # "none"
        BY <1>1, <1>2, <1>4 DEF QueueExact
      <4>2. QED
        BY <1>2, <2>1, <2>3, <2>4, <3>1, <3>3, <3>4, <4>1 DEF QueueExact
    <3>6. Len(handed'[x]) + Len(connected'[x]) = arrived'[x] + Inside(x)'
      <4>1. Len(h) + (n + 1) = a + (i + 1) /\ Len(h) \in Nat
        BY <1>1, <2>3, <2>4, <3>1, LenProperties DEF HandedExact
      <4>2. /\ Len(handed'[x]) = Len(h) /\ Len(connected'[x]) = n
            /\ arrived'[x] = a /\ Inside(x)' = i
        BY <1>2, <2>1, <2>3, <2>4, <3>1
      <4>3. Len(h) + n = a + i
        BY ONLY <4>1, n \in Nat, a \in Nat, i \in Nat, Sums
      <4>4. QED
        BY <4>2, <4>3
    <3>7. ~waiting[x]
      BY <1>1, <1>6 DEF HandedExact
    <3>8. QED
      BY <1>1, <1>2, <3>5, <3>6, <3>7 DEF HandedExact
  <2>7. ASSUME NEW y \in Server, y # x PROVE QueueExact(y)' /\ HandedExact(y)'
    <3>1. ServerSame(y)
      BY <1>2, <2>1, <2>2, <2>7 DEF ServerSame
    <3>2. QED
      BY <1>1, <3>1, SameServer
  <2>8. \A q \in Req : answers'[q] <= 1
    BY <1>1, <1>2
  <2>9. QED
    BY <2>1, <2>5, <2>6, <2>7, <2>8 DEF AcceptInv, ConnectionsHanded
<1>7. QED
  BY <1>5, <1>6

LEMMA FreeAccepts ==
  ASSUME AcceptInv, NEW x \in Server, fault = "none", FreeServer(x)
  PROVE  AcceptInv'
<1>1. /\ UNCHANGED <<connected, waiting, newConn, accepting, used, arrived, handed, reentered>>
      /\ mem[x] = "live" /\ fault' # "pop"
  BY DEF FreeServer
<1>2. /\ AcceptTypes /\ AcceptsWait /\ \A q \in Req : answers[q] <= 1
      /\ \A y \in Server : QueueExact(y) /\ HandedExact(y)
  BY DEF AcceptInv, ConnectionsHanded
<1>3. \A y \in Server : Inside(y)' = Inside(y)
  BY <1>1 DEF Inside
<1>4. CASE UNCHANGED <<mem, answers>>
  <2>1. ASSUME NEW y \in Server PROVE QueueExact(y)' /\ HandedExact(y)'
    <3>1. ServerSame(y)
      BY <1>1, <1>3, <1>4 DEF ServerSame
    <3>2. QED
      BY <1>2, <3>1, SameServer
  <2>2. AcceptTypes' /\ AcceptsWait'
    BY <1>1, <1>2, <1>4 DEF AcceptTypes, AcceptsWait
  <2>3. \A q \in Req : answers'[q] <= 1
    BY <1>2, <1>4
  <2>4. QED
    BY <1>1, <2>1, <2>2, <2>3 DEF AcceptInv, ConnectionsHanded
<1>5. CASE fault' = "none"
  <2>1. /\ waiting[x] /\ Answer(newConn[x]) /\ mem' = [mem EXCEPT ![x] = "freed"]
    BY <1>2, <1>5 DEF FreeServer, AcceptTypes
  <2>2. PICK r \in Req : r = newConn[x]
    BY <1>2, <2>1 DEF AcceptsWait
  <2>3. answers[r] = 0 /\ r \in used
    BY <1>1, <1>2, <2>1, <2>2 DEF HandedExact, AcceptsWait
  <2>4. /\ answers' \in [Req -> Nat] /\ answers'[r] = 1
        /\ \A q \in Req : q # r => answers'[q] = answers[q]
    BY <1>2, <2>1, <2>2, <2>3, AnswerOne
  <2>5. mem'[x] = "freed" /\ \A y \in Server : y # x => mem'[y] = mem[y]
    BY <1>2, <2>1 DEF AcceptTypes
  <2>6. AcceptTypes'
    BY <1>1, <1>2, <2>1, <2>4 DEF AcceptTypes
  <2>7. AcceptsWait'
    BY <1>1, <1>2, <2>3, <2>4, <2>5 DEF AcceptsWait
  <2>8. ASSUME NEW y \in Server PROVE QueueExact(y)' /\ HandedExact(y)'
    <3>1. y # x /\ waiting[y] => newConn[y] \in Req /\ newConn[y] # r
      BY <1>2, <2>1, <2>2 DEF AcceptsWait
    <3>2. ServerSame(y)
      BY <1>1, <1>3, <2>4, <2>5, <3>1 DEF ServerSame
    <3>3. QED
      BY <1>2, <3>2, SameServer
  <2>9. \A q \in Req : answers'[q] <= 1
    BY <1>2, <2>4
  <2>10. QED
    BY <1>1, <2>6, <2>7, <2>8, <2>9 DEF AcceptInv, ConnectionsHanded
<1>6. QED
  BY <1>4, <1>5 DEF FreeServer

LEMMA ConnectAccepts ==
  ASSUME AcceptInv, RegistryInv, NEW n, fault = "none", Connect(n)
  PROVE  AcceptInv'
<1>1. UNCHANGED <<mem, newConn, accepting, used, reentered>> /\ fault' # "pop"
  BY DEF Connect
<1>2. /\ AcceptTypes /\ AcceptsWait /\ \A q \in Req : answers[q] <= 1
      /\ \A y \in Server : QueueExact(y) /\ HandedExact(y)
  BY DEF AcceptInv, ConnectionsHanded
<1>3. \A y \in Server : Inside(y)' = Inside(y)
  BY <1>1 DEF Inside
<1>4. CASE UNCHANGED <<waiting, connected, answers, arrived, handed>>
  <2>1. ASSUME NEW y \in Server PROVE QueueExact(y)' /\ HandedExact(y)'
    <3>1. ServerSame(y)
      BY <1>1, <1>3, <1>4 DEF ServerSame
    <3>2. QED
      BY <1>2, <3>1, SameServer
  <2>2. AcceptTypes' /\ AcceptsWait'
    BY <1>1, <1>2, <1>4 DEF AcceptTypes, AcceptsWait
  <2>3. \A q \in Req : answers'[q] <= 1
    BY <1>2, <1>4
  <2>4. QED
    BY <1>1, <2>1, <2>2, <2>3 DEF AcceptInv, ConnectionsHanded
<1>5. CASE fault' = "none" /\ list[Find(n)].owner # Static
  <2>1. ~SearchReadsFreed(n) /\ Find(n) \in DOMAIN list
    BY <1>5 DEF Connect
  <2>2. PICK x \in Server : x = list[Find(n)].owner /\ mem[x] = "live"
    BY <1>5, <2>1, FoundLives
  <2>3. OnConnect(x)
    BY <1>5, <2>2 DEF Connect
  <2>4. PICK h \in Seq(Nat), c \in Seq(Nat), a \in Nat, i \in Nat :
          h = handed[x] /\ c = connected[x] /\ a = arrived[x] /\ i = Inside(x)
    BY <1>2, InsideType DEF AcceptTypes
  <2>5. Len(h) \in Nat /\ Len(c) \in Nat /\ DOMAIN h = 1 .. Len(h)
    BY LenProperties
  <2>6. /\ arrived'[x] = a + 1 /\ arrived' \in [Server -> Nat]
        /\ \A y \in Server : y # x => arrived'[y] = arrived[y]
    BY <1>2, <2>3, <2>4 DEF OnConnect, AcceptTypes
  <2>7. CASE waiting[x]
    <3>1. /\ waiting'[x] = FALSE /\ \A y \in Server : y # x => waiting'[y] = waiting[y]
          /\ waiting' \in [Server -> BOOLEAN]
          /\ Answer(newConn[x]) /\ handed'[x] = Append(h, a + 1)
          /\ handed' = [handed EXCEPT ![x] = Append(h, a + 1)]
          /\ \A y \in Server : y # x => handed'[y] = handed[y]
          /\ UNCHANGED connected
      BY <1>2, <2>3, <2>4, <2>7 DEF OnConnect, AcceptTypes
    <3>2. PICK r \in Req : r = newConn[x]
      BY <1>2, <2>7 DEF AcceptsWait
    <3>3. answers[r] = 0 /\ r \in used /\ c = <<>> /\ Len(c) = 0
      BY <1>2, <2>2, <2>4, <2>7, <3>2, EmptySeq DEF HandedExact, AcceptsWait
    <3>4. /\ answers' \in [Req -> Nat] /\ answers'[r] = 1
          /\ \A q \in Req : q # r => answers'[q] = answers[q]
      BY <1>2, <3>1, <3>2, <3>3, AnswerOne
    <3>5. /\ \A k \in 1 .. Len(h) : h[k] <= a
          /\ \A j, k \in DOMAIN h : j <= k => h[j] <= h[k]
          /\ Len(h) + 0 = a + i
          /\ x \notin reentered => \A k \in 1 .. Len(h) : h[k] = k
      <4>1. Turn(x) = 0
        BY <2>4, <3>3 DEF Turn
      <4>2. \A k \in 1 .. Len(h) : h[k] <= a - 0 + 0
        BY <1>2, <2>4, <3>3, <4>1 DEF QueueExact
      <4>3. \A k \in 1 .. Len(h) : h[k] \in Nat
        BY ElementOfSeq
      <4>4. \A k \in 1 .. Len(h) : h[k] <= a
        BY <2>4, <4>2, <4>3
      <4>5. Len(h) + Len(c) = a + i
        BY <1>2, <2>4 DEF HandedExact
      <4>6. /\ \A j, k \in DOMAIN h : j <= k => h[j] <= h[k]
            /\ x \notin reentered => \A k \in DOMAIN h : h[k] = k
        BY <1>2, <2>4 DEF HandedExact
      <4>7. QED
        BY <2>5, <3>3, <4>4, <4>5, <4>6
    <3>6. x \notin reentered => Len(h) = a
      <4>1. ASSUME x \notin reentered, Len(h) # 0 PROVE Len(h) <= a
        <5>1. Len(h) \in 1 .. Len(h)
          BY <2>5, <4>1
        <5>2. QED
          BY <3>5, <4>1, <5>1
      <4>2. QED
        BY <2>4, <2>5, <3>5, <4>1
    <3>7. /\ Append(h, a + 1) \in Seq(Nat) /\ Len(Append(h, a + 1)) = Len(h) + 1
          /\ DOMAIN Append(h, a + 1) = 1 .. Len(h) + 1
          /\ \A j, k \in DOMAIN Append(h, a + 1) :
               j <= k => Append(h, a + 1)[j] <= Append(h, a + 1)[k]
          /\ \A k \in 1 .. Len(h) + 1 : Append(h, a + 1)[k] <= a + 1
          /\ (\A k \in DOMAIN h : h[k] = k) /\ a + 1 = Len(h) + 1 =>
               \A k \in DOMAIN Append(h, a + 1) : Append(h, a + 1)[k] = k
      <4>1. a + 1 \in Nat /\ \A k \in 1 .. Len(h) : h[k] <= a + 1
        <5>1. \A k \in 1 .. Len(h) : h[k] \in Nat
          BY ElementOfSeq
        <5>2. QED
          BY <3>5, <5>1
      <4>2. QED
        BY <3>5, <4>1, HandOne
    <3>8. AcceptTypes'
      BY <1>1, <1>2, <2>6, <3>1, <3>4, <3>7 DEF AcceptTypes
    <3>9. AcceptsWait'
      BY <1>1, <1>2, <3>1, <3>3, <3>4 DEF AcceptsWait
    <3>10. QueueExact(x)' /\ HandedExact(x)'
      <4>1. Turn(x)' = 0
        BY <2>4, <3>1, <3>3 DEF Turn
      <4>2. QueueExact(x)'
        <5>1. /\ handed'[x] = Append(h, a + 1) /\ connected'[x] = <<>>
              /\ Len(connected'[x]) = 0 /\ arrived'[x] = a + 1 /\ mem'[x] = "live"
          BY <1>1, <2>2, <2>4, <2>6, <3>1, <3>3
        <5>2. \A k \in 1 .. Len(handed'[x]) :
                handed'[x][k] <= arrived'[x] - Len(connected'[x]) + Turn(x)'
          <6>1. a + 1 = (a + 1) - 0 + 0
            BY <2>4
          <6>2. QED
            BY <3>7, <4>1, <5>1, <6>1
        <5>3. \A k \in 1 .. Len(connected'[x]) :
                connected'[x][k] = arrived'[x] - Len(connected'[x]) + k
          BY <5>1
        <5>4. QED
          BY <5>1, <5>2, <5>3 DEF QueueExact
      <4>3. Len(handed'[x]) + Len(connected'[x]) = arrived'[x] + Inside(x)'
        <5>1. /\ Len(handed'[x]) = Len(h) + 1 /\ Len(connected'[x]) = 0
              /\ arrived'[x] = a + 1 /\ Inside(x)' = i
          BY <1>3, <2>4, <2>6, <3>1, <3>3, <3>7
        <5>2. (Len(h) + 1) + 0 = (a + 1) + i
          <6>1. Len(h) + 0 = a + i
            BY <3>5
          <6>2. QED
            BY ONLY <2>5, <6>1, a \in Nat, i \in Nat, Sums
        <5>3. QED
          BY <5>1, <5>2
      <4>4. x \notin reentered' => \A k \in DOMAIN handed'[x] : handed'[x][k] = k
        BY <1>1, <2>5, <3>1, <3>5, <3>6, <3>7
      <4>5. QED
        BY <3>1, <3>7, <4>2, <4>3, <4>4 DEF HandedExact
    <3>11. ASSUME NEW y \in Server, y # x PROVE QueueExact(y)' /\ HandedExact(y)'
      <4>1. waiting[y] => newConn[y] \in Req /\ newConn[y] # r
        BY <1>2, <2>7, <3>2, <3>11 DEF AcceptsWait
      <4>2. ServerSame(y)
        BY <1>1, <1>3, <2>6, <3>1, <3>4, <3>11, <4>1 DEF ServerSame
      <4>3. QED
        BY <1>2, <4>2, SameServer
    <3>12. \A q \in Req : answers'[q] <= 1
      BY <1>2, <3>4
    <3>13. QED
      BY <1>1, <3>8, <3>9, <3>10, <3>11, <3>12 DEF AcceptInv, ConnectionsHanded
  <2>8. CASE ~waiting[x]
    <3>1. /\ connected'[x] = Append(c, a + 1)
          /\ connected' = [connected EXCEPT ![x] = Append(c, a + 1)]
          /\ \A y \in Server : y # x => connected'[y] = connected[y]
          /\ UNCHANGED <<waiting, handed, answers>>
      BY <1>2, <2>3, <2>4, <2>8 DEF OnConnect, AcceptTypes
    <3>2. /\ Append(c, a + 1) \in Seq(Nat) /\ Len(Append(c, a + 1)) = Len(c) + 1
          /\ \A k \in 1 .. Len(c) : Append(c, a + 1)[k] = c[k]
          /\ Append(c, a + 1)[Len(c) + 1] = a + 1 /\ Append(c, a + 1) # <<>>
      <4>1. a + 1 \in Nat
        BY <2>4
      <4>2. PICK d \in Nat : d = a + 1
        BY <4>1
      <4>3. /\ Append(c, d) \in Seq(Nat) /\ Len(Append(c, d)) = Len(c) + 1
            /\ \A k \in 1 .. Len(c) : Append(c, d)[k] = c[k]
            /\ Append(c, d)[Len(c) + 1] = d /\ Append(c, d) # <<>>
        <5>1. c \in Seq(Nat) /\ d \in Nat
          BY <2>4
        <5>2. QED
          BY ONLY <5>1, Appended
      <4>4. QED
        BY ONLY <4>2, <4>3
    <3>3. AcceptTypes' /\ AcceptsWait'
      BY <1>1, <1>2, <2>6, <3>1, <3>2 DEF AcceptTypes, AcceptsWait
    <3>4. QueueExact(x)' /\ HandedExact(x)'
      <4>1. ASSUME NEW k \in 1 .. Len(c) + 1
            PROVE  Append(c, a + 1)[k] = (a + 1) - (Len(c) + 1) + k
        <5>1. CASE k = Len(c) + 1
          BY <2>5, <3>2, <5>1
        <5>2. CASE k # Len(c) + 1
          <6>1. k \in 1 .. Len(c)
            BY <2>5, <5>2
          <6>2. c[k] = a - Len(c) + k
            BY <1>2, <2>4, <6>1 DEF QueueExact
          <6>3. QED
            BY <2>5, <3>2, <6>1, <6>2
        <5>3. QED
          BY <5>1, <5>2
      <4>2. ASSUME NEW k \in 1 .. Len(h)
            PROVE  h[k] <= (a + 1) - (Len(c) + 1) + Turn(x)'
        <5>1. h[k] <= a - Len(c) + Turn(x) /\ h[k] \in Nat
          BY <1>2, <2>4, ElementOfSeq DEF QueueExact
        <5>2. \E y, z \in {0, 1} : y = Turn(x) /\ z = Turn(x)' /\ y <= z
          <6>1. Turn(x) = 1 => i > 0
            BY <2>4 DEF Turn
          <6>2. connected'[x] # <<>>
            BY <3>1, <3>2
          <6>3. Turn(x)' = IF i > 0 THEN 1 ELSE 0
            BY <1>3, <2>4, <6>2 DEF Turn
          <6>4. Turn(x) \in {0, 1}
            BY DEF Turn
          <6>5. QED
            BY <6>1, <6>3, <6>4
        <5>3. PICK y, z \in {0, 1} : y = Turn(x) /\ z = Turn(x)' /\ y <= z
          BY <5>2
        <5>4. QED
          BY <2>5, <5>1, <5>3
      <4>3. QueueExact(x)'
        BY <1>1, <2>2, <2>4, <2>6, <3>1, <3>2, <4>1, <4>2 DEF QueueExact
      <4>4. Len(handed'[x]) + Len(connected'[x]) = arrived'[x] + Inside(x)'
        <5>1. Len(h) + Len(c) = a + i
          BY <1>2, <2>4 DEF HandedExact
        <5>2. /\ Len(handed'[x]) = Len(h) /\ Len(connected'[x]) = Len(c) + 1
              /\ arrived'[x] = a + 1 /\ Inside(x)' = i
          BY <1>3, <2>4, <2>6, <3>1, <3>2
        <5>3. Len(h) + (Len(c) + 1) = (a + 1) + i
          BY ONLY <2>5, <5>1, a \in Nat, i \in Nat, Sums
        <5>4. QED
          BY <5>2, <5>3
      <4>5. QED
        BY <1>1, <1>2, <2>8, <3>1, <4>3, <4>4 DEF HandedExact
    <3>5. ASSUME NEW y \in Server, y # x PROVE QueueExact(y)' /\ HandedExact(y)'
      <4>1. ServerSame(y)
        BY <1>1, <1>3, <2>6, <3>1, <3>5 DEF ServerSame
      <4>2. QED
        BY <1>2, <4>1, SameServer
    <3>6. \A q \in Req : answers'[q] <= 1
      BY <1>2, <3>1
    <3>7. QED
      BY <1>1, <3>3, <3>4, <3>5, <3>6 DEF AcceptInv, ConnectionsHanded
  <2>9. QED
    BY <2>7, <2>8
<1>6. QED
  BY <1>4, <1>5 DEF Connect


-----------------------------------------------------------------------------
(* Proofs about the registry. *)

(* Taking the i-th entry out of a list moves the later ones one place up.  *)
LEMMA UnlinkSpec ==
  ASSUME NEW S, NEW q \in Seq(S), NEW i \in 1 .. Len(q)
  PROVE  /\ RemoveAt(q, i) \in Seq(S) /\ Len(RemoveAt(q, i)) = Len(q) - 1
         /\ \A k \in 1 .. Len(q) - 1 :
              RemoveAt(q, i)[k] = IF k < i THEN q[k] ELSE q[k + 1]
<1>1. Len(q) \in Nat
  BY LenProperties
<1>2. /\ SubSeq(q, 1, i - 1) \in Seq(S) /\ Len(SubSeq(q, 1, i - 1)) = i - 1
      /\ \A k \in 1 .. i - 1 : SubSeq(q, 1, i - 1)[k] = q[k]
  BY <1>1, SubSeqProperties
<1>3. /\ SubSeq(q, i + 1, Len(q)) \in Seq(S) /\ Len(SubSeq(q, i + 1, Len(q))) = Len(q) - i
      /\ \A k \in 1 .. Len(q) - i : SubSeq(q, i + 1, Len(q))[k] = q[i + k]
  BY <1>1, SubSeqProperties
<1>4. RemoveAt(q, i) = SubSeq(q, 1, i - 1) \o SubSeq(q, i + 1, Len(q))
  BY DEF RemoveAt
<1>5. /\ RemoveAt(q, i) \in Seq(S) /\ Len(RemoveAt(q, i)) = Len(q) - 1
      /\ \A k \in 1 .. Len(q) - 1 : RemoveAt(q, i)[k] =
           IF k <= i - 1 THEN SubSeq(q, 1, i - 1)[k] ELSE SubSeq(q, i + 1, Len(q))[k - (i - 1)]
  <2> DEFINE a == SubSeq(q, 1, i - 1)
             b == SubSeq(q, i + 1, Len(q))
  <2>1. a \in Seq(S) /\ b \in Seq(S) /\ Len(a) = i - 1 /\ Len(b) = Len(q) - i
    BY <1>2, <1>3
  <2>2. RemoveAt(q, i) = a \o b
    BY <1>4
  <2> HIDE DEF a, b
  <2>3. Len(a) + Len(b) = Len(q) - 1
    BY <1>1, <2>1
  <2>4. /\ a \o b \in Seq(S) /\ Len(a \o b) = Len(a) + Len(b)
        /\ \A k \in 1 .. Len(a) + Len(b) : (a \o b)[k] = IF k <= Len(a) THEN a[k] ELSE b[k - Len(a)]
    BY <2>1, ConcatProperties
  <2>5. /\ RemoveAt(q, i) \in Seq(S) /\ Len(RemoveAt(q, i)) = Len(q) - 1
        /\ \A k \in 1 .. Len(q) - 1 : RemoveAt(q, i)[k] = IF k <= i - 1 THEN a[k] ELSE b[k - (i - 1)]
    BY <2>1, <2>2, <2>3, <2>4
  <2>6. QED
    BY <2>5 DEF a, b
<1>6. ASSUME NEW k \in 1 .. Len(q) - 1
      PROVE  RemoveAt(q, i)[k] = IF k < i THEN q[k] ELSE q[k + 1]
  <2>1. CASE k < i
    <3>1. k \in 1 .. i - 1 /\ k <= i - 1
      BY <1>1, <2>1
    <3>2. QED
      BY <1>2, <1>5, <2>1, <3>1
  <2>2. CASE ~(k < i)
    <3>1. k - (i - 1) \in 1 .. Len(q) - i /\ ~(k <= i - 1) /\ i + (k - (i - 1)) = k + 1
      BY <1>1, <2>2
    <3>2. QED
      BY <1>3, <1>5, <2>2, <3>1
  <2>3. QED
    BY <2>1, <2>2
<1>7. QED
  BY <1>5, <1>6


(* A registry whose entries are old ones, and at most one of name n that   *)
(* lies in a server which serves n.                                        *)
LEMMA EntriesKept ==
  ASSUME RegistryInv, list' \in Seq(Entries),
         \A j, k \in DOMAIN list' : list'[j].name = list'[k].name => j = k,
         mem' \in [Server -> {"none", "live", "freed"}],
         s' \in [Server -> Name \cup {Nil}],
         \A x \in Server : mem'[x] = "live" => s'[x] \in Name,
         \A k \in DOMAIN list' :
           /\ list'[k].owner \in Server =>
                mem'[list'[k].owner] # "none" /\ s'[list'[k].owner] = list'[k].name
           /\ (list'[k].owner \in Server /\ mem'[list'[k].owner] = "freed") => list'[k].atHead,
         \A x \in Server : mem'[x] = "live" /\ s'[x] \notin shared' =>
           \E k \in DOMAIN list' : list'[k].name = s'[x] /\ list'[k].owner = x,
         fault' = "name" => \E k \in DOMAIN list' : list'[k].atHead
  PROVE  RegistryInv'
<1>1. ListTypes'
  BY DEF ListTypes
<1>2. EntriesExact'
  BY DEF EntriesExact, Freed
<1>3. RegistryExact'
  BY DEF RegistryExact, Freed
<1>4. QED
  BY <1>1, <1>2, <1>3 DEF RegistryInv

LEMMA RegistrySame ==
  ASSUME RegistryInv, UNCHANGED <<list, mem, s, shared>>,
         fault' = "name" => fault = "name" \/ \E n : SearchReadsFreed(n)
  PROVE  RegistryInv'
<1>1. fault' = "name" => \E k \in DOMAIN list : list[k].atHead
  BY DEF RegistryInv, RegistryExact, EntriesExact, SearchReadsFreed
<1>2. QED
  BY <1>1 DEF RegistryInv, ListTypes, EntriesExact, RegistryExact, Freed

LEMMA RegisteredSpec ==
  ASSUME RegistryInv, NEW n \in Name, NEW owner \in Server \cup {Static}
  PROVE  LET q == Registered(n, owner) IN
         /\ q \in Seq(Entries)
         /\ Find(n) \in DOMAIN list =>
              /\ DOMAIN q = DOMAIN list
              /\ \A k \in DOMAIN list : /\ q[k].name = list[k].name /\ q[k].owner = list[k].owner
                                        /\ q[k].atHead = list[k].atHead
         /\ Find(n) \notin DOMAIN list =>
              /\ DOMAIN q = 1 .. Len(list) + 1 /\ q[1].name = n /\ q[1].owner = owner
              /\ \A k \in DOMAIN list : list[k].name # n /\ k + 1 \in DOMAIN q /\ q[k + 1] = list[k]
              /\ \A k \in DOMAIN q : k = 1 \/ (k - 1 \in DOMAIN list /\ q[k] = list[k - 1])
<1>1. /\ list \in Seq(Entries) /\ DOMAIN list = 1 .. Len(list) /\ Len(list) \in Nat
      /\ \A k \in DOMAIN list : list[k] \in Entries
      /\ \A k \in DOMAIN list : list[k].name = n => Find(n) = k
  BY RegistryFacts, FindSpec
<1>2. CASE Find(n) \in DOMAIN list
  <2>1. PICK i \in DOMAIN list : i = Find(n)
    BY <1>2
  <2>2. PICK e \in Entries : e = [list[i] EXCEPT !.wrapped = owner # Static]
    BY <1>1 DEF Entries
  <2>3. Registered(n, owner) = [list EXCEPT ![i] = e]
    BY <1>2, <2>1, <2>2 DEF Registered
  <2>4. e.name = list[i].name /\ e.owner = list[i].owner /\ e.atHead = list[i].atHead
    BY <1>1, <2>2 DEF Entries
  <2>5. [list EXCEPT ![i] = e] \in Seq(Entries)
    BY <1>1, <2>2, ExceptSeq
  <2>6. QED
    BY <1>1, <1>2, <2>3, <2>4, <2>5
<1>3. CASE Find(n) \notin DOMAIN list
  <2>1. PICK e \in Entries : e = Entry(n, owner) /\ e.name = n /\ e.owner = owner
    <3>1. PICK b \in BOOLEAN : b = (owner # Static)
      OBVIOUS
    <3>2. [name |-> n, owner |-> owner, wrapped |-> b, atHead |-> FALSE] \in Entries
      BY DEF Entries
    <3>3. Entry(n, owner) = [name |-> n, owner |-> owner, wrapped |-> b, atHead |-> FALSE]
      BY <3>1 DEF Entry
    <3>4. QED
      BY <3>2, <3>3
  <2>2. Registered(n, owner) = <<e>> \o list
    BY <1>3, <2>1 DEF Registered
  <2>3. <<e>> \in Seq(Entries) /\ Len(<<e>>) = 1 /\ <<e>>[1] = e
    BY <2>1
  <2>4. /\ <<e>> \o list \in Seq(Entries) /\ Len(<<e>> \o list) = 1 + Len(list)
        /\ \A k \in 1 .. 1 + Len(list) :
             (<<e>> \o list)[k] = IF k <= 1 THEN <<e>>[k] ELSE list[k - 1]
    BY <1>1, <2>3, ConcatProperties
  <2>5. DOMAIN (<<e>> \o list) = 1 .. Len(list) + 1
    BY <1>1, <2>4, LenProperties
  <2>6. (<<e>> \o list)[1] = e
    BY <1>1, <2>3, <2>4
  <2>7. ASSUME NEW k \in DOMAIN list
        PROVE  list[k].name # n /\ k + 1 \in 1 .. Len(list) + 1 /\ (<<e>> \o list)[k + 1] = list[k]
    <3>1. k + 1 \in 1 .. 1 + Len(list) /\ ~(k + 1 <= 1) /\ (k + 1) - 1 = k
      BY <1>1
    <3>2. QED
      BY <1>1, <1>3, <2>4, <3>1
  <2>8. ASSUME NEW k \in 1 .. Len(list) + 1, k # 1
        PROVE  k - 1 \in DOMAIN list /\ (<<e>> \o list)[k] = list[k - 1]
    BY <1>1, <2>4, <2>8
  <2>9. QED
    BY <1>3, <2>1, <2>2, <2>4, <2>5, <2>6, <2>7, <2>8
<1>4. QED
  BY <1>2, <1>3

(* A name is served: by x, or, for the manager, by no server. *)
LEMMA RegisterStep ==
  ASSUME RegistryInv, NEW n \in Name, NEW owner \in Server \cup {Static},
         list' = Registered(n, owner),
         shared' = IF Find(n) \in DOMAIN list THEN shared \cup {n} ELSE shared,
         fault' # "name",
         \/ owner \notin Server /\ UNCHANGED <<mem, s>>
         \/ /\ owner \in Server /\ mem[owner] = "none"
            /\ mem' = [mem EXCEPT ![owner] = "live"] /\ s' = [s EXCEPT ![owner] = n]
  PROVE  RegistryInv'
<1>1. /\ list \in Seq(Entries) /\ mem \in [Server -> {"none", "live", "freed"}]
      /\ s \in [Server -> Name \cup {Nil}]
      /\ DOMAIN list = 1 .. Len(list) /\ Len(list) \in Nat
      /\ \A j, k \in DOMAIN list : list[j].name = list[k].name => j = k
      /\ Find(n) \in DOMAIN list => list[Find(n)].name = n
      /\ \A k \in DOMAIN list :
           /\ list[k].owner \in Server =>
                mem[list[k].owner] # "none" /\ s[list[k].owner] = list[k].name
           /\ Freed(list[k].owner) => list[k].atHead
      /\ \A x \in Server : mem[x] = "live" => s[x] \in Name
      /\ \A x \in Server : mem[x] = "live" /\ s[x] \notin shared =>
           \E k \in DOMAIN list : list[k].name = s[x] /\ list[k].owner = x
  BY FindSpec, RegistryFacts, LenProperties DEF RegistryInv, ListTypes, EntriesExact, RegistryExact
<1>2. /\ mem' \in [Server -> {"none", "live", "freed"}] /\ s' \in [Server -> Name \cup {Nil}]
      /\ owner \in Server => mem'[owner] = "live" /\ s'[owner] = n
      /\ \A x \in Server : x # owner => mem'[x] = mem[x] /\ s'[x] = s[x]
      /\ \A x \in Server : mem'[x] = "live" => s'[x] \in Name
  BY <1>1
<1>3. owner \in Server => \A k \in DOMAIN list : list[k].owner # owner
  BY <1>1
<1>4. list' \in Seq(Entries)
  BY RegisteredSpec
<1>5. CASE Find(n) \in DOMAIN list
  <2>1. /\ DOMAIN list' = DOMAIN list
        /\ \A k \in DOMAIN list : /\ list'[k].name = list[k].name /\ list'[k].owner = list[k].owner
                                  /\ list'[k].atHead = list[k].atHead
    BY <1>5, RegisteredSpec
  <2>2. \A j, k \in DOMAIN list' : list'[j].name = list'[k].name => j = k
    BY <1>1, <2>1
  <2>3. ASSUME NEW k \in DOMAIN list'
        PROVE  /\ list'[k].owner \in Server =>
                    mem'[list'[k].owner] # "none" /\ s'[list'[k].owner] = list'[k].name
               /\ (list'[k].owner \in Server /\ mem'[list'[k].owner] = "freed") => list'[k].atHead
    BY <1>1, <1>2, <1>3, <2>1 DEF Freed
  <2>4. ASSUME NEW x \in Server, mem'[x] = "live", s'[x] \notin shared'
        PROVE  \E k \in DOMAIN list' : list'[k].name = s'[x] /\ list'[k].owner = x
    <3>1. x # owner
      BY <1>2, <1>5, <2>4
    <3>2. PICK k \in DOMAIN list : list[k].name = s[x] /\ list[k].owner = x
      BY <1>1, <1>2, <1>5, <2>4, <3>1
    <3>3. QED
      BY <1>2, <2>1, <3>1, <3>2
  <2>5. QED
    BY <1>2, <1>4, <2>2, <2>3, <2>4, EntriesKept
<1>6. CASE Find(n) \notin DOMAIN list
  <2>1. /\ DOMAIN list' = 1 .. Len(list) + 1 /\ list'[1].name = n /\ list'[1].owner = owner
        /\ \A k \in DOMAIN list :
             list[k].name # n /\ k + 1 \in DOMAIN list' /\ list'[k + 1] = list[k]
        /\ \A k \in DOMAIN list' : k = 1 \/ (k - 1 \in DOMAIN list /\ list'[k] = list[k - 1])
    BY <1>6, RegisteredSpec
  <2>2. ASSUME NEW j \in DOMAIN list', NEW k \in DOMAIN list', list'[j].name = list'[k].name
        PROVE  j = k
    <3>1. CASE j = 1 \/ k = 1
      BY <2>1, <2>2, <3>1
    <3>2. CASE j # 1 /\ k # 1
      <4>1. j - 1 \in DOMAIN list /\ k - 1 \in DOMAIN list /\ list[j - 1].name = list[k - 1].name
        BY <2>1, <2>2, <3>2
      <4>2. j - 1 = k - 1
        BY <1>1, <4>1
      <4>3. QED
        BY <1>1, <2>1, <4>2
    <3>3. QED
      BY <3>1, <3>2
  <2>3. ASSUME NEW k \in DOMAIN list'
        PROVE  /\ list'[k].owner \in Server =>
                    mem'[list'[k].owner] # "none" /\ s'[list'[k].owner] = list'[k].name
               /\ (list'[k].owner \in Server /\ mem'[list'[k].owner] = "freed") => list'[k].atHead
    <3>1. CASE k = 1
      BY <1>2, <2>1, <3>1 DEF Freed
    <3>2. CASE k # 1
      BY <1>1, <1>2, <1>3, <2>1, <3>2 DEF Freed
    <3>3. QED
      BY <3>1, <3>2
  <2>4. ASSUME NEW x \in Server, mem'[x] = "live", s'[x] \notin shared'
        PROVE  \E k \in DOMAIN list' : list'[k].name = s'[x] /\ list'[k].owner = x
    <3>1. CASE x = owner
      <4>1. 1 \in DOMAIN list'
        BY <1>1, <2>1
      <4>2. QED
        BY <1>2, <2>1, <3>1, <4>1
    <3>2. CASE x # owner
      <4>1. PICK k \in DOMAIN list : list[k].name = s[x] /\ list[k].owner = x
        BY <1>1, <1>2, <1>6, <2>4, <3>2
      <4>2. k + 1 \in DOMAIN list' /\ list'[k + 1].name = s'[x] /\ list'[k + 1].owner = x
        BY <1>2, <2>1, <3>2, <4>1
      <4>3. QED
        BY <4>2
    <3>3. QED
      BY <3>1, <3>2
  <2>5. QED
    BY <1>2, <1>4, <2>2, <2>3, <2>4, EntriesKept
<1>7. QED
  BY <1>5, <1>6


(* A server goes and takes its name out of the registry. *)
LEMMA UnregisterStep ==
  ASSUME RegistryInv, NEW x \in Server, mem[x] = "live", fault' = "none",
         list' = Unregistered(s[x]), mem' = [mem EXCEPT ![x] = "freed"], UNCHANGED <<s, shared>>
  PROVE  RegistryInv'
<1>1. /\ list \in Seq(Entries) /\ mem \in [Server -> {"none", "live", "freed"}]
      /\ s \in [Server -> Name \cup {Nil}]
      /\ DOMAIN list = 1 .. Len(list) /\ Len(list) \in Nat
      /\ \A j, k \in DOMAIN list : list[j].name = list[k].name => j = k
      /\ \A k \in DOMAIN list :
           /\ list[k].owner \in Server =>
                mem[list[k].owner] # "none" /\ s[list[k].owner] = list[k].name
           /\ (list[k].owner \in Server /\ mem[list[k].owner] = "freed") => list[k].atHead
           /\ list[k] \in Entries
      /\ \A y \in Server : mem[y] = "live" => s[y] \in Name
      /\ \A y \in Server : mem[y] = "live" /\ s[y] \notin shared =>
           \E k \in DOMAIN list : list[k].name = s[y] /\ list[k].owner = y
  BY RegistryFacts, LenProperties DEF RegistryInv, ListTypes, EntriesExact, RegistryExact, Freed
<1>2. /\ mem' \in [Server -> {"none", "live", "freed"}] /\ mem'[x] = "freed"
      /\ \A y \in Server : y # x => mem'[y] = mem[y]
      /\ \A y \in Server : mem'[y] = "live" => y # x /\ mem[y] = "live"
  BY <1>1
<1>3. /\ Find(s[x]) \in DOMAIN list => list[Find(s[x])].name = s[x]
      /\ \A k \in DOMAIN list : list[k].name = s[x] => Find(s[x]) = k
  BY <1>1, FindSpec
<1>4. CASE Find(s[x]) \notin DOMAIN list
  <2>1. list' = list
    BY <1>4 DEF Unregistered
  <2>2. \A k \in DOMAIN list : list[k].owner # x
    BY <1>1, <1>3, <1>4
  <2>3. \A k \in DOMAIN list' :
           /\ list'[k].owner \in Server =>
                mem'[list'[k].owner] # "none" /\ s'[list'[k].owner] = list'[k].name
           /\ (list'[k].owner \in Server /\ mem'[list'[k].owner] = "freed") => list'[k].atHead
    BY <1>1, <1>2, <2>1, <2>2
  <2>4. \A y \in Server : mem'[y] = "live" /\ s'[y] \notin shared' =>
           \E k \in DOMAIN list' : list'[k].name = s'[y] /\ list'[k].owner = y
    BY <1>1, <1>2, <2>1
  <2>5. QED
    BY <1>1, <1>2, <2>1, <2>3, <2>4, EntriesKept
<1>5. CASE Find(s[x]) = 1 /\ 1 \in DOMAIN list
  <2>1. PICK e \in Entries : e = [list[1] EXCEPT !.atHead = TRUE] /\ e.atHead = TRUE
                             /\ e.name = list[1].name /\ e.owner = list[1].owner
    <3>1. PICK b \in BOOLEAN : b = TRUE
      OBVIOUS
    <3>2. PICK f \in Entries : f = list[1]
      BY <1>1, <1>5
    <3>3. [f EXCEPT !.atHead = b] \in Entries
      BY <3>2 DEF Entries
    <3>4. /\ [f EXCEPT !.atHead = b].atHead = b /\ [f EXCEPT !.atHead = b].name = f.name
          /\ [f EXCEPT !.atHead = b].owner = f.owner
      BY <3>2 DEF Entries
    <3>5. QED
      BY <3>1, <3>2, <3>3, <3>4
  <2>2. list' = [list EXCEPT ![1] = e]
    BY <1>5, <2>1 DEF Unregistered
  <2>3. /\ list' \in Seq(Entries) /\ DOMAIN list' = DOMAIN list
        /\ list'[1] = e /\ \A k \in DOMAIN list : k # 1 => list'[k] = list[k]
    BY <1>1, <1>5, <2>2, ExceptSeq
  <2>4. \A k \in DOMAIN list : list'[k].name = list[k].name /\ list'[k].owner = list[k].owner
    BY <2>1, <2>3
  <2>5. \A j, k \in DOMAIN list' : list'[j].name = list'[k].name => j = k
    BY <1>1, <2>3, <2>4
  <2>6. ASSUME NEW k \in DOMAIN list'
        PROVE  /\ list'[k].owner \in Server =>
                    mem'[list'[k].owner] # "none" /\ s'[list'[k].owner] = list'[k].name
               /\ (list'[k].owner \in Server /\ mem'[list'[k].owner] = "freed") => list'[k].atHead
    <3>1. CASE k = 1
      <4>1. /\ 1 \in DOMAIN list /\ list'[1].atHead = TRUE
            /\ list'[1].name = list[1].name /\ list'[1].owner = list[1].owner
        BY <1>5, <2>1, <2>3
      <4>2. list[1].owner \in Server =>
              mem[list[1].owner] # "none" /\ s[list[1].owner] = list[1].name
        BY <1>1, <4>1
      <4>3. \A y \in Server : mem[y] # "none" => mem'[y] # "none"
        BY <1>2
      <4>4. s' = s
        OBVIOUS
      <4>5. QED
        BY <3>1, <4>1, <4>2, <4>3, <4>4
    <3>2. CASE k # 1
      <4>1. list[k].owner # x
        BY <1>1, <1>3, <1>5, <2>3, <3>2
      <4>2. list'[k] = list[k] /\ k \in DOMAIN list
        BY <2>3, <3>2
      <4>3. list[k].owner \in Server => mem'[list[k].owner] = mem[list[k].owner]
        BY <1>2, <4>1
      <4>4. /\ list[k].owner \in Server =>
                 mem[list[k].owner] # "none" /\ s[list[k].owner] = list[k].name
            /\ (list[k].owner \in Server /\ mem[list[k].owner] = "freed") => list[k].atHead
        BY <1>1, <4>2
      <4>5. s' = s
        OBVIOUS
      <4>6. QED
        BY <4>2, <4>3, <4>4, <4>5
    <3>3. QED
      BY <3>1, <3>2
  <2>7. ASSUME NEW y \in Server, mem'[y] = "live", s'[y] \notin shared'
        PROVE  \E k \in DOMAIN list' : list'[k].name = s'[y] /\ list'[k].owner = y
    <3>1. PICK k \in DOMAIN list : list[k].name = s[y] /\ list[k].owner = y
      BY <1>1, <1>2, <2>7
    <3>2. QED
      BY <2>3, <2>4, <3>1
  <2>8. QED
    BY <1>1, <1>2, <2>3, <2>5, <2>6, <2>7, EntriesKept
<1>6. CASE Find(s[x]) # 1 /\ Find(s[x]) \in DOMAIN list
  <2>1. PICK i \in 1 .. Len(list) : i = Find(s[x])
    BY <1>1, <1>6
  <2>2. list' = RemoveAt(list, i)
    BY <1>6, <2>1 DEF Unregistered
  <2>3. /\ list' \in Seq(Entries) /\ Len(list') = Len(list) - 1
        /\ \A k \in 1 .. Len(list) - 1 : list'[k] = IF k < i THEN list[k] ELSE list[k + 1]
    <3>a. list \in Seq(Entries) /\ i \in 1 .. Len(list)
      BY <1>1
    <3>1. /\ RemoveAt(list, i) \in Seq(Entries) /\ Len(RemoveAt(list, i)) = Len(list) - 1
          /\ \A k \in 1 .. Len(list) - 1 :
               RemoveAt(list, i)[k] = IF k < i THEN list[k] ELSE list[k + 1]
      BY <3>a, UnlinkSpec
    <3>2. QED
      BY <2>2, <3>1, Zenon
  <2>4. DOMAIN list' = 1 .. Len(list) - 1
    BY <2>3, LenProperties
  <2>5. \A k \in DOMAIN list' : \E j \in DOMAIN list : j # i /\ list'[k] = list[j]
    <3>1. ASSUME NEW k \in 1 .. Len(list) - 1
          PROVE  /\ k < i => k \in 1 .. Len(list) /\ k # i
                 /\ ~(k < i) => k + 1 \in 1 .. Len(list) /\ k + 1 # i
      BY <1>1
    <3>2. ASSUME NEW k \in 1 .. Len(list) - 1
          PROVE  \E j \in 1 .. Len(list) : j # i /\ list'[k] = list[j]
      <4>1. CASE k < i
        BY <2>3, <3>1, <4>1
      <4>2. CASE ~(k < i)
        <5>1. PICK j \in 1 .. Len(list) : j = k + 1 /\ j # i
          BY <3>1, <4>2
        <5>2. list'[k] = list[j]
          BY <2>3, <4>2, <5>1
        <5>3. QED
          BY <5>1, <5>2
      <4>3. QED
        BY <4>1, <4>2
    <3>3. DOMAIN list = 1 .. Len(list)
      BY <1>1, LenProperties
    <3>4. QED
      BY <2>4, <3>2, <3>3
  <2>6. \A j \in DOMAIN list : j # i => \E k \in DOMAIN list' : list'[k] = list[j]
    <3>1. ASSUME NEW j \in 1 .. Len(list), j # i
          PROVE  \E k \in 1 .. Len(list) - 1 : list'[k] = list[j]
      <4>1. CASE j < i
        <5>1. j \in 1 .. Len(list) - 1
          BY <1>1, <4>1
        <5>2. QED
          BY <2>3, <4>1, <5>1
      <4>2. CASE ~(j < i)
        <5>1. j - 1 \in 1 .. Len(list) - 1 /\ ~(j - 1 < i) /\ (j - 1) + 1 = j
          BY <1>1, <3>1, <4>2
        <5>2. QED
          BY <2>3, <5>1
      <4>3. QED
        BY <4>1, <4>2
    <3>2. QED
      BY <1>1, <2>4, <3>1
  <2>7. ASSUME NEW j \in DOMAIN list', NEW k \in DOMAIN list', list'[j].name = list'[k].name
        PROVE  j = k
    <3>1. /\ j \in 1 .. Len(list) - 1 /\ k \in 1 .. Len(list) - 1
      BY <2>4
    <3>2. PICK a \in DOMAIN list : a = (IF j < i THEN j ELSE j + 1) /\ list'[j] = list[a]
      BY <1>1, <2>3, <3>1
    <3>3. PICK b \in DOMAIN list : b = (IF k < i THEN k ELSE k + 1) /\ list'[k] = list[b]
      BY <1>1, <2>3, <3>1
    <3>4. a = b
      BY <1>1, <2>7, <3>2, <3>3
    <3>5. QED
      BY <1>1, <3>1, <3>2, <3>3, <3>4
  <2>8. \A j \in DOMAIN list : j # i => list[j].owner # x
    BY <1>1, <1>3, <2>1
  <2>9. ASSUME NEW k \in DOMAIN list'
        PROVE  /\ list'[k].owner \in Server =>
                    mem'[list'[k].owner] # "none" /\ s'[list'[k].owner] = list'[k].name
               /\ (list'[k].owner \in Server /\ mem'[list'[k].owner] = "freed") => list'[k].atHead
    <3>1. PICK j \in DOMAIN list : j # i /\ list'[k] = list[j]
      BY <2>5
    <3>2. QED
      BY <1>1, <1>2, <2>8, <3>1
  <2>10. ASSUME NEW y \in Server, mem'[y] = "live", s'[y] \notin shared'
         PROVE  \E k \in DOMAIN list' : list'[k].name = s'[y] /\ list'[k].owner = y
    <3>1. y # x /\ mem[y] = "live" /\ s[y] \notin shared
      BY <1>2, <2>10
    <3>2. PICK j \in DOMAIN list : list[j].name = s[y] /\ list[j].owner = y
      BY <1>1, <3>1
    <3>3. CASE j # i
      BY <2>6, <3>2, <3>3
    <3>4. CASE j = i
      <4>1. s[y] = s[x]
        BY <1>3, <1>6, <2>1, <3>2, <3>4
      <4>2. PICK m \in DOMAIN list : list[m].name = s[x] /\ list[m].owner = x
        BY <1>1, <3>1, <4>1
      <4>3. m = j
        BY <1>1, <3>2, <4>1, <4>2
      <4>4. QED
        BY <3>1, <3>2, <4>2, <4>3
    <3>5. QED
      BY <3>3, <3>4
  <2>11. QED
    BY <1>1, <1>2, <2>3, <2>7, <2>9, <2>10, EntriesKept
<1>7. QED
  BY <1>1, <1>4, <1>5, <1>6

LEMMA RegistryInvStep ==
  ASSUME RegistryInv, [Next]_vars
  PROVE  RegistryInv'
<1>1. ASSUME UNCHANGED pipeVars PROVE RegistryInv'
  BY <1>1, RegistrySame DEF pipeVars
<1>2. ASSUME fault = "none", ServeManager PROVE RegistryInv'
  <2>1. UNCHANGED <<mem, s>>
    BY <1>2 DEF ServeManager
  <2>2. CASE SearchReadsFreed(Manager)
    <3>1. CASE UNCHANGED shared
      BY <1>2, <2>1, <2>2, <3>1, RegistrySame DEF ServeManager
    <3>2. CASE shared' = shared \cup {Manager}
      <4>1. UNCHANGED list /\ \A z : z \notin shared' => z \notin shared
        BY <1>2, <2>2, <3>2 DEF ServeManager
      <4>2. \E k \in DOMAIN list : list[k].atHead
        BY <2>2 DEF RegistryInv, EntriesExact, SearchReadsFreed
      <4>3. QED
        BY <2>1, <4>1, <4>2, <3>2 DEF RegistryInv, ListTypes, EntriesExact, RegistryExact, Freed
    <3>3. QED
      BY <1>2, <3>1, <3>2 DEF ServeManager
  <2>3. CASE ~SearchReadsFreed(Manager)
    <3>1. Manager \in Name /\ Static \in Server \cup {Static} /\ Static \notin Server
      BY PipeServersAssumption
    <3>2. /\ list' = Registered(Manager, Static) /\ fault' # "name"
          /\ shared' = IF Find(Manager) \in DOMAIN list THEN shared \cup {Manager} ELSE shared
      BY <1>2, <2>3 DEF ServeManager
    <3>3. QED
      BY <2>1, <3>1, <3>2, RegisterStep
  <2>4. QED
    BY <2>2, <2>3
<1>3. ASSUME fault = "none", NEW x \in Server, NEW n \in Name, Serve(x, n) PROVE RegistryInv'
  <2>1. CASE SearchReadsFreed(n)
    BY <1>3, <2>1, RegistrySame DEF Serve
  <2>2. CASE ~SearchReadsFreed(n)
    <3>1. /\ list' = Registered(n, x) /\ fault' # "name" /\ mem[x] = "none"
          /\ shared' = IF Find(n) \in DOMAIN list THEN shared \cup {n} ELSE shared
          /\ mem' = [mem EXCEPT ![x] = "live"] /\ s' = [s EXCEPT ![x] = n]
      BY <1>3, <2>2 DEF Serve
    <3>2. QED
      BY <3>1, RegisterStep
  <2>3. QED
    BY <2>1, <2>2
<1>4. ASSUME NEW x \in Server, NEW r \in Req, Accept(r, x) PROVE RegistryInv'
  BY <1>4, RegistrySame DEF Accept
<1>5. ASSUME NEW x \in Server, FreeServer(x) PROVE RegistryInv'
  <2>1. CASE fault' # "none"
    <3>1. fault' = "name" => SearchReadsFreed(s[x])
      BY <1>5 DEF FreeServer
    <3>2. UNCHANGED <<list, mem, s, shared>>
      BY <1>5, <2>1 DEF FreeServer
    <3>3. QED
      BY <3>1, <3>2, RegistrySame
  <2>2. CASE fault' = "none"
    BY <1>5, <2>2, UnregisterStep DEF FreeServer
  <2>3. QED
    BY <2>1, <2>2
<1>6. ASSUME fault = "none", NEW n \in Name, Connect(n) PROVE RegistryInv'
  <2>1. fault' = "name" => SearchReadsFreed(n)
    BY <1>6 DEF Connect
  <2>2. UNCHANGED <<list, mem, s, shared>>
    BY <1>6 DEF Connect
  <2>3. QED
    BY <2>1, <2>2, RegistrySame
<1>7. ASSUME Accepted PROVE RegistryInv'
  BY <1>7, RegistrySame DEF Accepted
<1>8. CASE UNCHANGED vars
  BY <1>1, <1>8 DEF vars
<1>9. QED
  BY <1>1, <1>2, <1>3, <1>4, <1>5, <1>6, <1>7, <1>8 DEF Next, StartNext, Runnable, PipeNext

LEMMA AcceptInvStep ==
  ASSUME AcceptInv, RegistryInv, [Next]_vars
  PROVE  AcceptInv'
<1>1. ASSUME UNCHANGED <<mem, connected, waiting, newConn, accepting, used, answers, arrived,
                         handed, reentered>>,
             fault' = fault \/ fault' # "pop"
      PROVE  AcceptInv'
  <2>1. /\ AcceptTypes /\ AcceptsWait /\ \A q \in Req : answers[q] <= 1
        /\ \A y \in Server : QueueExact(y) /\ HandedExact(y)
        /\ fault = "pop" => \E x \in Server : Inside(x) > 0 /\ (x \in reentered \/ Freed(x))
    BY DEF AcceptInv, ConnectionsHanded
  <2>2. \A y \in Server : Inside(y)' = Inside(y) /\ (Freed(y)' <=> Freed(y))
    BY <1>1 DEF Inside, Freed
  <2>3. ASSUME NEW y \in Server PROVE QueueExact(y)' /\ HandedExact(y)'
    <3>1. ServerSame(y)
      BY <1>1, <2>2 DEF ServerSame
    <3>2. QED
      BY <2>1, <3>1, SameServer
  <2>4. AcceptTypes' /\ AcceptsWait'
    BY <1>1, <2>1 DEF AcceptTypes, AcceptsWait
  <2>5. \A q \in Req : answers'[q] <= 1
    BY <1>1, <2>1
  <2>6. fault' = "pop" => \E x \in Server : Inside(x)' > 0 /\ (x \in reentered' \/ Freed(x)')
    BY <1>1, <2>1, <2>2
  <2>7. QED
    BY <2>3, <2>4, <2>5, <2>6 DEF AcceptInv, ConnectionsHanded
<1>2. CASE UNCHANGED vars
  BY <1>1, <1>2 DEF vars, pipeVars
<1>3. ASSUME UNCHANGED pipeVars PROVE AcceptInv'
  BY <1>1, <1>3 DEF pipeVars
<1>4. ASSUME ServeManager PROVE AcceptInv'
  BY <1>1, <1>4 DEF ServeManager
<1>5. ASSUME fault = "none", NEW x \in Server, NEW n \in Name, Serve(x, n) PROVE AcceptInv'
  BY <1>5, ServeAccepts
<1>6. ASSUME fault = "none", NEW x \in Server, NEW r \in Req, Accept(r, x) PROVE AcceptInv'
  BY <1>6, AcceptAccepts, PipeServersAssumption
<1>7. ASSUME fault = "none", NEW x \in Server, FreeServer(x) PROVE AcceptInv'
  BY <1>7, FreeAccepts
<1>8. ASSUME fault = "none", NEW n \in Name, Connect(n) PROVE AcceptInv'
  BY <1>8, ConnectAccepts
<1>9. ASSUME fault = "none", Accepted PROVE AcceptInv'
  BY <1>9, AcceptedAccepts
<1>10. QED
  BY <1>2, <1>3, <1>4, <1>5, <1>6, <1>7, <1>8, <1>9 DEF Next, StartNext, Runnable, PipeNext

LEMMA SpecPipeInv == Spec => [](AcceptInv /\ RegistryInv)
<1>1. ASSUME Init PROVE AcceptInv /\ RegistryInv
  <2>1. /\ <<>> \in Seq(Entries) /\ <<>> \in Seq(Server) /\ <<>> \in Seq(Nat)
        /\ DOMAIN <<>> = {} /\ Len(<<>>) = 0 /\ <<>> \o <<>> = <<>>
    BY EmptySeq
  <2>2. AcceptTypes
    BY <1>1, <2>1, PipeServersAssumption DEF Init, PipeInit, AcceptTypes
  <2>3. AcceptsWait /\ ConnectionsHanded /\ \A x \in Server : QueueExact(x)
    <3>1. ASSUME NEW x \in Server PROVE Inside(x) = 0
      BY <1>1, <2>1, FS_EmptySet DEF Init, PipeInit, Inside
    <3>2. ASSUME NEW x \in Server PROVE QueueExact(x) /\ HandedExact(x)
      <4>1. /\ connected[x] = <<>> /\ handed[x] = <<>> /\ arrived[x] = 0 /\ ~waiting[x]
        BY <1>1 DEF Init, PipeInit
      <4>2. QED
        BY <2>1, <3>1, <4>1 DEF QueueExact, HandedExact, Turn
    <3>3. AcceptsWait /\ (\A r \in Req : answers[r] <= 1) /\ fault # "pop"
      BY <1>1, PipeServersAssumption DEF Init, PipeInit, AcceptsWait
    <3>4. QED
      BY <3>2, <3>3 DEF ConnectionsHanded
  <2>4. ListTypes
    BY <1>1, <2>1 DEF Init, PipeInit, ListTypes
  <2>5. EntriesExact /\ RegistryExact
    BY <1>1, <2>1 DEF Init, PipeInit, EntriesExact, RegistryExact
  <2>6. QED
    BY <2>2, <2>3, <2>4, <2>5 DEF AcceptInv, RegistryInv
<1>2. ASSUME AcceptInv /\ RegistryInv, [Next]_vars PROVE (AcceptInv /\ RegistryInv)'
  BY <1>2, AcceptInvStep, RegistryInvStep
<1>3. QED
  BY <1>1, <1>2, PTL DEF Spec

(* However accepts run inside one another's newConn, connections are       *)
(* handed out in the order they came, as many as were taken from the queue *)
(* or are about to be; none is handed twice but by an accept inside one on *)
(* the same server; none queues while an accept waits, and none is         *)
(* answered twice (PxpPipeServer::accept, onConnect).                      *)
THEOREM HostConnectionsHanded == Spec => []ConnectionsHanded
<1>1. AcceptInv => ConnectionsHanded
  BY DEF AcceptInv
<1>2. QED
  BY <1>1, SpecPipeInv, PTL

(* One entry a name; a live server is found unless its name was taken over *)
(* by another; only an entry that was the head outlives its server, and    *)
(* nothing uses freed memory but through such an entry.                    *)
THEOREM HostRegistryExact == Spec => []RegistryExact
<1>1. RegistryInv => RegistryExact
  BY DEF RegistryInv
<1>2. QED
  BY <1>1, SpecPipeInv, PTL
=============================================================================
