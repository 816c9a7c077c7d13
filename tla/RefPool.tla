------------------------------ MODULE RefPool -------------------------------
(***************************************************************************)
(* The reference pool of the C server (c/pxprpc/server.c): an array of     *)
(* slots that grows by REF_POOL_EXPAND_COUNT, with the free slots chained  *)
(* through their nextFree fields.  A pointer to a slot is its index, the   *)
(* null pointer is NULL.                                                   *)
(*                                                                         *)
(* An on_free function is foreign code: while it runs, inside a release or *)
(* inside the loop of close, it may allocate, release and close in turn    *)
(* (the destructor of an EventDispatcher answers its waiting request, and  *)
(* what is sent may come back as the next call).  "stack" holds the calls  *)
(* still to be finished, the innermost last.                               *)
(*                                                                         *)
(* holds and hook are history variables: what the callers of alloc_ref     *)
(* were told, and the life of each on_free function.                       *)
(***************************************************************************)
EXTENDS Integers, Sequences

CONSTANTS Obj,      \* objects put into the pool, each at most once
          NoObj,    \* the NULL of the field "object"
          Expand,   \* REF_POOL_EXPAND_COUNT
          SizeMod,  \* 2^16: ref_pool_size is a uint16_t
          MaxPool,  \* bound: the pool never grows past this many slots
          MaxNested \* bound: the nesting at which an on_free function
                    \* still makes calls

ASSUME PoolAssumption ==
  /\ NoObj \notin Obj
  /\ Expand \in Nat \ {0}
  /\ SizeMod \in Nat \ {0}
  /\ MaxPool \in Nat /\ MaxNested \in Nat

VARIABLES size,       \* exp.ref_pool_size
          cap,        \* slots in the memory block ref_pool points to
          nextFree, object, onFree, \* the fields of each slot
          freeEntry,  \* exp.free_ref_entry
          closed,     \* exp.closed
          stack,
          holds, hook

slotVars == <<size, cap, nextFree, object, onFree, freeEntry>>
vars == <<slotVars, closed, stack, holds, hook>>

(* A call that waits for o's on_free function in slot i: pxprpc_server_    *)
(* free_ref ("free") or the loop of pxprpc_server_close ("close"), and the *)
(* loop itself about to look at slot i ("loop").                           *)
Call == [fn : {"free", "loop", "close"}, i : 0 .. MaxPool, o : Obj \cup {NoObj}]
Frame(fn, i, o) == [fn |-> fn, i |-> i, o |-> o]
Top == stack[Len(stack)]
Pop == SubSeq(stack, 1, Len(stack) - 1)
Push(f) == Append(stack, f)
TopBecomes(f) == [stack EXCEPT ![Len(stack)] = f]

(* Without indices, the pool is the set of the held references. *)
phase ==
  IF ~closed THEN "open"
  ELSE IF \E k \in DOMAIN stack : stack[k].fn \in {"loop", "close"} THEN "closing"
  ELSE "closed"
Abs == INSTANCE RefSet WITH holds <- holds, hook <- hook, phase <- phase

NULL == -1

Slot == 0 .. cap - 1

(* The slots a release has taken from their holder and not yet chained. *)
Leaving(i) == \E k \in DOMAIN stack : stack[k].fn = "free" /\ stack[k].i = i

TypeOK ==
  /\ size \in 0 .. SizeMod - 1
  /\ cap \in 0 .. MaxPool
  /\ nextFree \in [Slot -> Slot \cup {NULL}]
  /\ object \in [Slot -> Obj \cup {NoObj}]
  /\ onFree \in [Slot -> BOOLEAN]
  /\ freeEntry \in Slot \cup {NULL}
  /\ closed \in BOOLEAN
  /\ stack \in Seq(Call)
  /\ holds \in [Obj -> Slot \cup {NULL}]
  /\ hook \in [Obj -> Abs!HookState]

Init ==
  /\ size = 0 /\ cap = 0
  /\ nextFree = [i \in {} |-> NULL]
  /\ object = [i \in {} |-> NoObj]
  /\ onFree = [i \in {} |-> FALSE]
  /\ freeEntry = NULL
  /\ closed = FALSE /\ stack = <<>>
  /\ holds = [o \in Obj |-> NULL]
  /\ hook = [o \in Obj |-> "unset"]

-----------------------------------------------------------------------------
(* _pxprpc__ExpandRefPool: the block becomes size + Expand slots long, the *)
(* new ones are chained in order and emptied, the size is stored in 16     *)
(* bits.  Slots past the new length of the block, if any, are gone.        *)
newCap == size + Expand
expandedNext_pastEnd == \* mutant: the last new slot points past the block
  [i \in 0 .. newCap - 1 |-> IF i < size THEN nextFree[i] ELSE i + 1]
expandedNext_orphan == \* mutant: the last new slot is not linked
  [i \in 0 .. newCap - 1 |->
     IF i < size THEN nextFree[i] ELSE IF i < newCap - 2 THEN i + 1 ELSE freeEntry]
expandedNext ==
  [i \in 0 .. newCap - 1 |->
     IF i < size THEN nextFree[i] ELSE IF i < newCap - 1 THEN i + 1 ELSE freeEntry]
expandedObject ==
  [i \in 0 .. newCap - 1 |-> IF i < size THEN object[i] ELSE NoObj]
expandedOnFree ==
  [i \in 0 .. newCap - 1 |-> IF i < size THEN onFree[i] ELSE FALSE]

(* The pool is called from the event loop's code or, inside an on_free     *)
(* function, from what that calls.                                         *)
Calling ==
  Len(stack) <= MaxNested /\ (stack # <<>> => Top.fn # "loop")

(* What every caller of alloc_ref does with the slot it gets: it stores    *)
(* the object and, if there is something to release, the on_free function. *)
Occupy(o, i, armed, obj, fre) ==
  /\ object' = [obj EXCEPT ![i] = o]
  /\ onFree' = [fre EXCEPT ![i] = armed]
  /\ holds' = [holds EXCEPT ![o] = i]
  /\ hook' = [hook EXCEPT ![o] = IF armed THEN Abs!Armed ELSE "plain"]
  /\ UNCHANGED <<closed, stack>>

AllocRef_keepsEntry(o, armed) == \* mutant: the slot stays at the chain's head
  /\ Calling
  /\ hook[o] = "unset"
  /\ freeEntry # NULL
  /\ Occupy(o, freeEntry, armed, object, onFree)
  /\ UNCHANGED <<size, cap, nextFree, freeEntry>>

(* pxprpc_server_alloc_ref with a free slot at hand. *)
AllocRef(o, armed) ==
  /\ Calling
  /\ hook[o] = "unset"
  /\ freeEntry # NULL
  /\ freeEntry' = nextFree[freeEntry]
  /\ Occupy(o, freeEntry, armed, object, onFree)
  /\ UNCHANGED <<size, cap, nextFree>>

(* pxprpc_server_alloc_ref when the chain is empty: expand, then take the  *)
(* first of the new slots.  No on_free function makes the pool grow: the   *)
(* callers of it hold pointers into the block that would move.             *)
AllocRefExpand(o, armed) ==
  /\ stack = <<>>
  /\ hook[o] = "unset"
  /\ freeEntry = NULL
  /\ newCap <= MaxPool
  /\ cap' = newCap
  /\ size' = newCap % SizeMod
  /\ nextFree' = expandedNext
  /\ freeEntry' = expandedNext[size]
  /\ Occupy(o, size, armed, expandedObject, expandedOnFree)

-----------------------------------------------------------------------------
(* on_free is called; it is still set while it runs. *)
Fires(o) == hook' = [hook EXCEPT ![o] = Abs!Fire(@)]

(* The end of pxprpc_server_free_ref: the slot is emptied and chained. *)
Chained(i) ==
  /\ onFree' = [onFree EXCEPT ![i] = FALSE]
  /\ object' = [object EXCEPT ![i] = NoObj]
  /\ nextFree' = [nextFree EXCEPT ![i] = freeEntry]
  /\ freeEntry' = i
  /\ UNCHANGED <<size, cap>>

(* pxprpc_server_free_ref by the holder of o's index: first the on_free    *)
(* function runs, if there is one.                                         *)
FreeRef(o) ==
  LET i == holds[o] IN
  /\ Calling
  /\ i # NULL
  /\ holds' = [holds EXCEPT ![o] = NULL]
  /\ IF onFree[i]
     THEN /\ Fires(o)
          /\ stack' = Push(Frame("free", i, o))
          /\ UNCHANGED slotVars
     ELSE Chained(i) /\ UNCHANGED <<hook, stack>>
  /\ UNCHANGED closed

(* The on_free function a release called returns. *)
FreeRefReturns ==
  /\ stack # <<>> /\ Top.fn = "free"
  /\ Chained(Top.i)
  /\ hook' = [hook EXCEPT ![Top.o] = Abs!Return(@)]
  /\ stack' = Pop
  /\ UNCHANGED <<closed, holds>>

(* pxprpc_server_close: nothing on a closed context, ... *)
Close ==
  /\ Calling
  /\ ~closed
  /\ closed' = TRUE
  /\ stack' = Push(Frame("loop", 0, NoObj))
  /\ UNCHANGED <<slotVars, holds, hook>>

CloseLoop_offByOne == \* mutant: the loop stops one slot early
  /\ stack # <<>> /\ Top.fn = "loop"
  /\ IF Top.i + 1 >= size
     THEN stack' = Pop /\ UNCHANGED <<object, hook>>
     ELSE IF onFree[Top.i]
     THEN /\ Fires(object[Top.i])
          /\ stack' = TopBecomes(Frame("close", Top.i, object[Top.i]))
          /\ UNCHANGED object
     ELSE /\ object' = [object EXCEPT ![Top.i] = NoObj]
          /\ stack' = TopBecomes(Frame("loop", Top.i + 1, NoObj))
          /\ UNCHANGED hook
  /\ UNCHANGED <<size, cap, nextFree, onFree, freeEntry, closed, holds>>

(* ... otherwise a loop over the slots that runs their on_free functions   *)
(* and empties them.                                                       *)
CloseLoop ==
  /\ stack # <<>> /\ Top.fn = "loop"
  /\ IF Top.i >= size
     THEN stack' = Pop /\ UNCHANGED <<object, hook>>
     ELSE IF onFree[Top.i]
     THEN /\ Fires(object[Top.i])
          /\ stack' = TopBecomes(Frame("close", Top.i, object[Top.i]))
          /\ UNCHANGED object
     ELSE /\ object' = [object EXCEPT ![Top.i] = NoObj]
          /\ stack' = TopBecomes(Frame("loop", Top.i + 1, NoObj))
          /\ UNCHANGED hook
  /\ UNCHANGED <<size, cap, nextFree, onFree, freeEntry, closed, holds>>

CloseReturns_keepsHook == \* mutant: the loop leaves on_free set
  /\ stack # <<>> /\ Top.fn = "close"
  /\ object' = [object EXCEPT ![Top.i] = NoObj]
  /\ hook' = [hook EXCEPT ![Top.o] = Abs!Return(@)]
  /\ stack' = TopBecomes(Frame("loop", Top.i + 1, NoObj))
  /\ UNCHANGED <<size, cap, nextFree, onFree, freeEntry, closed, holds>>

(* The on_free function the loop called returns: the slot is emptied, even *)
(* if it was released and taken again meanwhile.                           *)
CloseReturns ==
  /\ stack # <<>> /\ Top.fn = "close"
  /\ onFree' = [onFree EXCEPT ![Top.i] = FALSE]
  /\ object' = [object EXCEPT ![Top.i] = NoObj]
  /\ hook' = [hook EXCEPT ![Top.o] = Abs!Return(@)]
  /\ stack' = TopBecomes(Frame("loop", Top.i + 1, NoObj))
  /\ UNCHANGED <<size, cap, nextFree, freeEntry, closed, holds>>

Next ==
  \/ Close \/ CloseLoop \/ CloseReturns \/ FreeRefReturns
  \/ \E o \in Obj :
       \/ FreeRef(o)
       \/ \E armed \in BOOLEAN : AllocRef(o, armed) \/ AllocRefExpand(o, armed)

Spec == Init /\ [][Next]_vars
-----------------------------------------------------------------------------
(* Two holders never share a slot, and until the context is closed the     *)
(* slot a holder was told still contains its object: what get_ref returns  *)
(* for an index a client kept over other clients' allocations, releases    *)
(* and expansions of the pool.                                             *)
IndexDenotesObject ==
  \A o \in Obj : holds[o] # NULL =>
    /\ object[holds[o]] = o \/ (closed /\ object[holds[o]] = NoObj)
    /\ \A p \in Obj \ {o} : holds[p] # holds[o]

(* The chain that starts at free_ref_entry visits every slot nobody holds  *)
(* and no release is still busy with, visits it once, and ends: rank is a  *)
(* slot's distance from the end of the chain.  A slot off the chain would  *)
(* never be used again, a held slot on it would be handed out twice.       *)
Taken(i) == Leaving(i) \/ \E o \in Obj : holds[o] = i
Chain(rank) ==
  /\ \A i \in Slot : rank[i] = 0 <=> Taken(i)
  /\ \A i, j \in Slot : i # j /\ rank[i] # 0 => rank[i] # rank[j]
  /\ \A i \in Slot : rank[i] # 0 =>
       IF nextFree[i] = NULL THEN rank[i] = 1
       ELSE rank[i] > 1 /\ rank[nextFree[i]] = rank[i] - 1
  /\ freeEntry = NULL => \A i \in Slot : rank[i] = 0
  /\ freeEntry # NULL =>
       /\ rank[freeEntry] # 0
       /\ \A i \in Slot : rank[i] <= rank[freeEntry]
       /\ \A k \in 1 .. rank[freeEntry] : \E i \in Slot : rank[i] = k

FreeChainExact == \E rank \in [Slot -> 0 .. cap] : Chain(rank)

(* An on_free function is not run again once it returned, nor a third      *)
(* time.  While it runs it may be called again, by a close that begins     *)
(* inside the release, or by a release inside the close, for it is still   *)
(* set: then the context is closed.  As long as it is to run for certain,  *)
(* it is set in its object's slot.                                         *)
HookNotRunAgain ==
  \A o \in Obj :
    /\ hook[o] # "late"
    /\ hook[o] = "again" => closed
    /\ hook[o] = "armed" => holds[o] # NULL /\ onFree[holds[o]]

(* The pool keeps the promise of RefSet. *)
ImplementsRefSet == Abs!Spec
=============================================================================
