------------------------------ MODULE RefSet --------------------------------
(***************************************************************************)
(* What a reference pool promises, without saying how it finds a free      *)
(* slot: an allocation hands out some index nobody holds, a release takes  *)
(* it back and runs the finaliser armed with it, and a close runs every    *)
(* finaliser that was armed before it began.  What is armed while the      *)
(* context is closing or closed ("stray") may be run or not.  A finaliser  *)
(* runs a second time only while its first run has not returned.           *)
(***************************************************************************)
EXTENDS Integers

CONSTANTS Obj,     \* the objects that are ever put into the pool
          MaxPool  \* bound on the number of slots

VARIABLES holds,   \* holds[o]: the index whose holder was told it denotes o
          hook,    \* hook[o]: the life of o's finaliser (on_free)
          phase    \* of the context: "open", "closing", "closed"

absVars == <<holds, hook, phase>>

NULL == -1

HookState == {"unset", "plain", "armed", "stray", "running", "again", "fired", "late"}

Armed == IF phase = "open" THEN "armed" ELSE "stray"

(* The life of a finaliser after one more call of it, and after its        *)
(* return.                                                                 *)
Fire(h) == CASE h \in {"armed", "stray"} -> "running"
             [] h = "running" -> "again"
             [] h \in {"again", "fired"} -> "late"
             [] OTHER -> h
Return(h) == IF h = "running" THEN "fired" ELSE h

Held == {holds[o] : o \in Obj} \ {NULL}

Init ==
  /\ holds = [o \in Obj |-> NULL]
  /\ hook = [o \in Obj |-> "unset"]
  /\ phase = "open"

Alloc(o) ==
  /\ hook[o] = "unset"
  /\ \E i \in (0 .. MaxPool - 1) \ Held : holds' = [holds EXCEPT ![o] = i]
  /\ \E h \in {"plain", Armed} : hook' = [hook EXCEPT ![o] = h]
  /\ UNCHANGED phase

(* The release of a stray finaliser's object need not run it. *)
Free(o) ==
  /\ holds[o] # NULL
  /\ holds' = [holds EXCEPT ![o] = NULL]
  /\ \/ hook[o] \in {"armed", "stray", "running"} /\ hook' = [hook EXCEPT ![o] = Fire(@)]
     \/ hook[o] \notin {"armed", "running"} /\ UNCHANGED hook
  /\ UNCHANGED phase

Close == phase = "open" /\ phase' = "closing" /\ UNCHANGED <<holds, hook>>

(* The close runs a finaliser; it ends when none it had to run is left. *)
Finalise(o) ==
  /\ phase = "closing"
  /\ hook[o] \in {"armed", "stray", "running"}
  /\ hook' = [hook EXCEPT ![o] = Fire(@)]
  /\ UNCHANGED <<holds, phase>>

Closed ==
  /\ phase = "closing"
  /\ \A o \in Obj : hook[o] # "armed"
  /\ phase' = "closed"
  /\ UNCHANGED <<holds, hook>>

Returns(o) ==
  /\ hook[o] = "running"
  /\ hook' = [hook EXCEPT ![o] = "fired"]
  /\ UNCHANGED <<holds, phase>>

Next == Close \/ Closed \/ \E o \in Obj : Alloc(o) \/ Free(o) \/ Finalise(o) \/ Returns(o)

Spec == Init /\ [][Next]_absVars
=============================================================================
