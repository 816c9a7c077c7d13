------------------------------- MODULE UvRpc --------------------------------
(***************************************************************************)
(* The functions of libuv that clients call                                *)
(* (c-modules/pxprpc_libuv_rpc/init.hpp): listeners, connections and the   *)
(* standard streams of a process as objects clients hold references to,    *)
(* and the requests that read, write and accept on them.  Everything runs  *)
(* on the loop's thread.                                                   *)
(*                                                                         *)
(* A request is answered when its AsyncReturn is resolved or rejected;     *)
(* its parameter, which the buffers of writes point into, and the          *)
(* AsyncReturn are given back then.  A stream answers whoever is first in  *)
(* its queue before it takes it out.  On a pipe the next round of a poll,  *)
(* or what the client sends on getting the answer, runs inside the answer; *)
(* elsewhere a request or a callback of libuv is one action.  After a step *)
(* that answers a request again, or uses a stream freed inside its own     *)
(* answer, the memory is no longer what it was: "fault" says so, and no    *)
(* step follows.                                                           *)
(***************************************************************************)
EXTENDS Integers, Sequences, FiniteSets, SequencesExt

CONSTANTS
  Wrap, Handle, \* the UvStreamWraps and the libuv handles a run may create
  Req, Nil,
  Limit,        \* what readBuf may hold when more arrives: 1024 * 1024
  MaxBytes      \* bound: the bytes that arrive at a wrap

ASSUME UvRpcAssumption ==
  /\ Nil \notin Wrap \cup Handle
  /\ {Limit, MaxBytes} \subseteq Nat

VARIABLES
  wrap,          \* a wrap's memory: none, live or freed
  stream, closeOnDestruct, readBuf, readWaiting, acceptWaiting, errcode,
  held,          \* the wraps clients hold a reference to
  handle,        \* a handle: none, open, closing or freed
  data, role,    \* its data; what it is for
  reading,       \* libuv reads from it
  proc, stdio,   \* the process: none, live or freed; the handle of its stream
  child,         \* its uv_process_t: none, running with or without data, exited
  used,          \* the requests issued, each round of a poll one
  doing,         \* the callback of libuv a request waits for
  target,        \* the handle a write or a connect is on
  answers,       \* history: how often a request was answered
  arrived, given, discarded, \* history: bytes from libuv and to readers
  touched,       \* history: the uses of memory that was given back
  resolving,     \* the streams inside an answer, innermost last, and what
                 \* they do when it returns
  fault

wrapVars == <<wrap, stream, closeOnDestruct, held>>
bufVars == <<readBuf, readWaiting, acceptWaiting, errcode, arrived, given, discarded>>
handleVars == <<handle, data, role, reading>>
procVars == <<proc, stdio, child>>
reqVars == <<doing, target, answers>>
stackVars == <<resolving, fault>>

vars == <<wrapVars, bufVars, handleVars, procVars, reqVars, used, touched, stackVars>>

Init ==
  /\ wrap = [w \in Wrap |-> "none"] /\ stream = [w \in Wrap |-> Nil]
  /\ closeOnDestruct = [w \in Wrap |-> FALSE] /\ held = {}
  /\ readBuf = [w \in Wrap |-> <<>>] /\ readWaiting = [w \in Wrap |-> <<>>]
  /\ acceptWaiting = [w \in Wrap |-> <<>>] /\ errcode = [w \in Wrap |-> FALSE]
  /\ arrived = [w \in Wrap |-> <<>>] /\ given = [w \in Wrap |-> <<>>]
  /\ discarded = [w \in Wrap |-> FALSE]
  /\ handle = [h \in Handle |-> "none"] /\ data = [h \in Handle |-> Nil]
  /\ role = [h \in Handle |-> "none"] /\ reading = {}
  /\ proc = "none" /\ stdio = Nil /\ child = "none"
  /\ used = {} /\ doing = [r \in Req |-> "none"] /\ target = [r \in Req |-> Nil]
  /\ answers = [r \in Req |-> 0]
  /\ touched = {} /\ resolving = <<>> /\ fault = "none"

-----------------------------------------------------------------------------
(* Requests. *)

Issue(r) == r \notin used /\ used' = used \cup {r}

Answers(rs) == [r \in Req |-> IF r \in rs THEN answers[r] + 1 ELSE answers[r]]

(* The requests of rs are answered. *)
Finish(rs) ==
  /\ answers' = Answers(rs)
  /\ doing' = [r \in Req |-> IF r \in rs THEN "none" ELSE doing[r]]
  /\ UNCHANGED target

(* The request r is answered when something is done on handle h; "lost"    *)
(* when libuv refused and nobody looks at its result.                      *)
Await(r, what, h) ==
  /\ doing' = [doing EXCEPT ![r] = what]
  /\ target' = [target EXCEPT ![r] = h]
  /\ UNCHANGED answers

(* The functions answered at once (tcp_getpeername, tcp_setoption, os_*,   *)
(* get_memory_info, gettimeofday, interface_address) change nothing here.  *)
(* process_get_result is one of them: alive is never set, so that a caller *)
(* who asks to wait does not.                                              *)
AtOnce(r) ==
  /\ Issue(r)
  /\ Finish({r})
  /\ UNCHANGED <<wrapVars, bufVars, handleVars, procVars, touched, stackVars>>

(* The functions on files: their callback answers, on success and on error. *)
FsRequest(r) ==
  /\ Issue(r)
  /\ Await(r, "fs", Nil)
  /\ UNCHANGED <<wrapVars, bufVars, handleVars, procVars, touched, stackVars>>

FsCb(r) ==
  /\ doing[r] = "fs"
  /\ Finish({r})
  /\ UNCHANGED <<wrapVars, bufVars, handleVars, procVars, used, touched, stackVars>>

-----------------------------------------------------------------------------
(* Wraps. *)

(* UvPipeWrap::init, UvTcpWrap::init: a new wrap w with a handle of its    *)
(* own; ds: what the handle's data becomes.                                *)
NewWrap(w, h, as, ds) ==
  /\ wrap[w] = "none" /\ handle[h] = "none"
  /\ wrap' = [wrap EXCEPT ![w] = "live"]
  /\ stream' = [stream EXCEPT ![w] = h]
  /\ closeOnDestruct' = [closeOnDestruct EXCEPT ![w] = TRUE]
  /\ handle' = [handle EXCEPT ![h] = "open"]
  /\ role' = [role EXCEPT ![h] = as]
  /\ data' = [data EXCEPT ![h] = ds]

Destruct_keepsData(w) == \* mutant: the handle keeps its pointer to the wrap
  /\ wrap' = [wrap EXCEPT ![w] = "freed"]
  /\ held' = held \ {w}
  /\ UNCHANGED <<handle, data, reading>>

(* ~UvStreamWrap: the handle is closed if the wrap owns it.  Requests that *)
(* wait in its queues are forgotten.                                       *)
Destruct(w) ==
  LET h == stream[w] IN
  /\ wrap' = [wrap EXCEPT ![w] = "freed"]
  /\ held' = held \ {w}
  /\ IF closeOnDestruct[w]
     THEN /\ handle' = [handle EXCEPT ![h] = "closing"]
          /\ data' = [data EXCEPT ![h] = Nil]
          /\ reading' = reading \ {h}
     ELSE UNCHANGED <<handle, data, reading>>

(* The client frees its reference. *)
FreeRef(w) ==
  /\ w \in held
  /\ Destruct(w)
  /\ UNCHANGED <<stream, closeOnDestruct, bufVars, role, procVars, reqVars, used, touched, stackVars>>

(* libuv has closed a handle: what was in flight is answered with an       *)
(* error, the memory is given back.                                        *)
CloseCb(h) ==
  /\ handle[h] = "closing"
  /\ handle' = [handle EXCEPT ![h] = "freed"]
  /\ Finish({r \in Req : doing[r] \in {"write", "connect"} /\ target[r] = h})
  /\ UNCHANGED <<wrapVars, bufVars, data, role, reading, procVars, used, touched, stackVars>>

(* pipe_bind, tcp_bind.  When bind fails the wrap is deleted again.        *)
Bind(r, w, h) ==
  /\ Issue(r)
  /\ \/ /\ NewWrap(w, h, "listener", w)
        /\ held' = held \cup {w}
     \/ /\ wrap[w] = "none" /\ handle[h] = "none"
        /\ wrap' = [wrap EXCEPT ![w] = "freed"]
        /\ stream' = [stream EXCEPT ![w] = h]
        /\ closeOnDestruct' = [closeOnDestruct EXCEPT ![w] = TRUE]
        /\ handle' = [handle EXCEPT ![h] = "closing"]
        /\ UNCHANGED <<held, data, role>>
  /\ Finish({r})
  /\ UNCHANGED <<bufVars, reading, procVars, touched, stackVars>>

(* pipe_connect, tcp_connect.  tcp_connect does not look at an error       *)
(* UvTcpWrap::connect returns: then no callback comes.                     *)
Connect(r, w, h) ==
  /\ Issue(r)
  /\ NewWrap(w, h, "connecting", Nil)
  /\ \E what \in {"connect", "lost"} : Await(r, what, h)
  /\ UNCHANGED <<held, bufVars, reading, procVars, touched, stackVars>>

(* Its callback: the stream is read from and handed out, or deleted. *)
ConnectCb(r, w) ==
  LET h == target[r] IN
  /\ doing[r] = "connect" /\ stream[w] = h
  /\ handle[h] = "open"
  /\ Finish({r})
  /\ \/ /\ held' = held \cup {w}
        /\ role' = [role EXCEPT ![h] = "peer"]
        /\ data' = [data EXCEPT ![h] = w]
        /\ reading' = reading \cup {h}
        /\ UNCHANGED <<wrap, handle>>
     \/ Destruct(w) /\ UNCHANGED role
  /\ UNCHANGED <<stream, closeOnDestruct, bufVars, procVars, used, touched, stackVars>>

-----------------------------------------------------------------------------
(* Answering whoever waits on a stream. *)

Frame(w, then) == [w |-> w, then |-> then]

(* The answer to r on top of stack; r may have its answer already. *)
Answer(r, frame, stack) ==
  /\ answers' = Answers({r})
  /\ IF answers[r] > 0 THEN fault' = "again" /\ resolving' = stack
     ELSE resolving' = Append(stack, frame) /\ UNCHANGED fault

(* processing with buf buffered, rq and aq waiting, up to its first answer *)
(* or its end: the first reader gets all there is; once the stream failed, *)
(* whoever waits is rejected.                                              *)
Processing(w, buf, rq, aq, stack) ==
  /\ readWaiting' = [readWaiting EXCEPT ![w] = rq]
  /\ acceptWaiting' = [acceptWaiting EXCEPT ![w] = aq]
  /\ readBuf' = [readBuf EXCEPT ![w] = buf]
  /\ IF rq # <<>> /\ buf # <<>>
     THEN /\ given' = [given EXCEPT ![w] = @ \o buf]
          /\ Answer(Head(rq), Frame(w, "data"), stack)
     ELSE /\ UNCHANGED given
          /\ IF errcode'[w] /\ rq # <<>> THEN Answer(Head(rq), Frame(w, "readers"), stack)
             ELSE IF errcode'[w] /\ aq # <<>> THEN Answer(Head(aq), Frame(w, "acceptors"), stack)
             ELSE resolving' = stack /\ UNCHANGED <<answers, fault>>

Resolved_keepsReader == \* mutant: the reader is not taken out of the queue
  LET w == Last(resolving).w IN
  /\ resolving # <<>>
  /\ UNCHANGED <<wrapVars, errcode, arrived, discarded, handleVars, procVars, doing,
                 target, used, touched>>
  /\ IF wrap[w] = "freed"
     THEN /\ fault' = "freed"
          /\ UNCHANGED <<resolving, answers, readBuf, readWaiting, acceptWaiting, given>>
     ELSE /\ readBuf' = [readBuf EXCEPT ![w] = <<>>]
          /\ resolving' = Front(resolving)
          /\ UNCHANGED <<answers, fault, readWaiting, acceptWaiting, given>>

(* The answer returned.  What is taken out of a queue is whoever is first  *)
(* by now.                                                                 *)
Resolved ==
  LET w == Last(resolving).w
      then == Last(resolving).then
      rest == Front(resolving)
  IN
  /\ resolving # <<>>
  /\ UNCHANGED <<wrapVars, errcode, arrived, discarded, handleVars, procVars, doing,
                 target, used, touched>>
  /\ IF wrap[w] = "freed"
     THEN /\ fault' = "freed"
          /\ UNCHANGED <<resolving, answers, readBuf, readWaiting, acceptWaiting, given>>
     ELSE \/ /\ then \in {"data", "readers"}
             /\ Processing(w, <<>>, Tail(readWaiting[w]), acceptWaiting[w], rest)
          \/ /\ then = "acceptors"
             /\ Processing(w, readBuf[w], readWaiting[w], Tail(acceptWaiting[w]), rest)
          \/ /\ then = "conn"
             /\ acceptWaiting' = [acceptWaiting EXCEPT ![w] = Tail(@)]
             /\ resolving' = rest
             /\ UNCHANGED <<answers, fault, readBuf, readWaiting, given>>

-----------------------------------------------------------------------------
(* Accepting. *)

(* pushConn: the first waiting request gets the connection; without one    *)
(* nobody ever holds it.                                                   *)
PushConn(w, new) ==
  IF acceptWaiting[w] = <<>> THEN UNCHANGED <<held, answers, stackVars>>
  ELSE /\ Answer(Head(acceptWaiting[w]), Frame(w, "conn"), resolving)
       /\ held' = held \cup {new}

(* _UvStreamWrapConnection with a connection: it is read from at once. *)
Connection(w, new, h) ==
  /\ wrap[w] = "live"
  /\ handle[stream[w]] = "open" /\ role[stream[w]] = "listener"
  /\ NewWrap(new, h, "peer", new)
  /\ reading' = reading \cup {h}
  /\ PushConn(w, new)
  /\ UNCHANGED <<bufVars, procVars, doing, target, used, touched>>

(* ... and with an error (pushError): whoever waits is told. *)
ConnectionError(w) ==
  /\ wrap[w] = "live"
  /\ handle[stream[w]] = "open" /\ role[stream[w]] = "listener"
  /\ errcode' = [errcode EXCEPT ![w] = TRUE]
  /\ Processing(w, readBuf[w], readWaiting[w], acceptWaiting[w], resolving)
  /\ UNCHANGED <<wrapVars, arrived, discarded, handleVars, procVars, doing, target, used,
                 touched>>

(* stream_accept: acceptConn. *)
Accept(r, w) ==
  /\ Issue(r) /\ w \in held
  /\ UNCHANGED <<wrapVars, errcode, arrived, discarded, handleVars, procVars, doing,
                 target, touched>>
  /\ Processing(w, readBuf[w], readWaiting[w], Append(acceptWaiting[w], r), resolving)

-----------------------------------------------------------------------------
(* Reading and writing. *)

(* stream_read: pullData. *)
Read(r, w) ==
  /\ Issue(r) /\ w \in held
  /\ UNCHANGED <<wrapVars, errcode, arrived, discarded, handleVars, procVars, doing,
                 target, touched>>
  /\ Processing(w, readBuf[w], Append(readWaiting[w], r), acceptWaiting[w], resolving)

PushData_drops(w, byte) == \* mutant: readers wait for the next arrival
  IF Len(readBuf[w]) > Limit
  THEN /\ discarded' = [discarded EXCEPT ![w] = TRUE]
       /\ UNCHANGED <<readBuf, readWaiting, acceptWaiting, given, answers, stackVars>>
  ELSE /\ readBuf' = [readBuf EXCEPT ![w] = Append(@, byte)]
       /\ UNCHANGED <<readWaiting, acceptWaiting, given, answers, stackVars, discarded>>

(* pushData; what arrives at a buffer beyond the limit is discarded. *)
PushData(w, byte) ==
  IF Len(readBuf[w]) > Limit
  THEN /\ discarded' = [discarded EXCEPT ![w] = TRUE]
       /\ UNCHANGED <<readBuf, readWaiting, acceptWaiting, given, answers, stackVars>>
  ELSE /\ Processing(w, Append(readBuf[w], byte), readWaiting[w], acceptWaiting[w], resolving)
       /\ UNCHANGED discarded

(* A use of the memory of wrap w, or of its handle, that was given back. *)
Touch(w) ==
  touched' = touched \cup {IF closeOnDestruct[w] THEN "own" ELSE "stdio"}

(* _UvStreamWrapRead with data.  A handle without data loses it. *)
Arrives(h) ==
  LET w == data[h] IN
  /\ h \in reading /\ w # Nil
  /\ Len(arrived[w]) < MaxBytes
  /\ UNCHANGED errcode
  /\ IF wrap[w] = "freed"
     THEN Touch(w) /\ UNCHANGED <<bufVars, answers, stackVars>>
     ELSE /\ arrived' = [arrived EXCEPT ![w] = Append(@, Len(@) + 1)]
          /\ PushData(w, Len(arrived[w]) + 1)
          /\ UNCHANGED touched
  /\ UNCHANGED <<wrapVars, handleVars, procVars, doing, target, used>>

(* _UvStreamWrapRead at the end of the stream or with an error: libuv stops *)
(* reading; pushData copies nothing for a negative length (so libstdc++,    *)
(* the standard leaves it open) and sets no error: the readers wait on.     *)
ReadEnds(h) ==
  LET w == data[h] IN
  /\ h \in reading
  /\ reading' = reading \ {h}
  /\ IF w # Nil /\ wrap[w] = "freed" THEN Touch(w) ELSE UNCHANGED touched
  /\ UNCHANGED <<wrapVars, bufVars, handle, data, role, procVars, reqVars, used, stackVars>>

(* stream_write.  The result of uv_write is not looked at: on a listener,  *)
(* and on a handle that is being closed, it refuses and nobody answers.    *)
Write(r, w) ==
  LET h == stream[w] IN
  /\ Issue(r) /\ w \in held
  /\ IF errcode[w] THEN Finish({r})
     ELSE Await(r, IF handle[h] = "open" /\ role[h] = "peer" THEN "write" ELSE "lost", h)
  /\ IF handle[h] = "freed" THEN Touch(w) ELSE UNCHANGED touched
  /\ UNCHANGED <<wrapVars, bufVars, handleVars, procVars, stackVars>>

WriteCb_okOnly(r) == \* mutant: a failed write is not answered
  /\ doing[r] = "write" /\ handle[target[r]] = "open"
  /\ \/ Finish({r})
     \/ Await(r, "lost", target[r])
  /\ UNCHANGED <<wrapVars, bufVars, handleVars, procVars, touched, used, stackVars>>

(* Its callback answers, on success and on error. *)
WriteCb(r) ==
  /\ doing[r] = "write" /\ handle[target[r]] = "open"
  /\ Finish({r})
  /\ UNCHANGED <<wrapVars, bufVars, handleVars, procVars, touched, used, stackVars>>

-----------------------------------------------------------------------------
(* A process. *)

(* spawn; a process that cannot start is deleted again, its streams with   *)
(* it.                                                                     *)
Spawn(r, h) ==
  /\ Issue(r)
  /\ proc = "none" /\ handle[h] = "none"
  /\ role' = [role EXCEPT ![h] = "peer"]
  /\ Finish({r})
  /\ \/ /\ proc' = "live" /\ stdio' = h /\ child' = "running"
        /\ handle' = [handle EXCEPT ![h] = "open"]
     \/ /\ handle' = [handle EXCEPT ![h] = "closing"]
        /\ UNCHANGED procVars
  /\ UNCHANGED <<wrapVars, bufVars, data, reading, touched, stackVars>>

(* process_stdio, UvProcessWrap::getStdio: another wrap on the process's   *)
(* stream takes over its data; it does not close it.                       *)
Stdio(r, w) ==
  /\ Issue(r)
  /\ proc = "live" /\ wrap[w] = "none"
  /\ wrap' = [wrap EXCEPT ![w] = "live"]
  /\ stream' = [stream EXCEPT ![w] = stdio]
  /\ held' = held \cup {w}
  /\ data' = [data EXCEPT ![stdio] = w]
  /\ reading' = reading \cup {stdio}
  /\ Finish({r})
  /\ UNCHANGED <<closeOnDestruct, bufVars, handle, role, procVars, touched, stackVars>>

(* ~UvProcessWrap: the streams are closed, whoever wraps them. *)
FreeProc ==
  /\ proc = "live"
  /\ proc' = "freed"
  /\ child' = IF child = "running" THEN "orphan" ELSE child
  /\ handle' = [handle EXCEPT ![stdio] = "closing"]
  /\ data' = [data EXCEPT ![stdio] = Nil]
  /\ reading' = reading \ {stdio}
  /\ UNCHANGED <<wrapVars, bufVars, role, stdio, reqVars, touched, used, stackVars>>

(* _uvProcessExit. *)
ProcExit ==
  /\ child \in {"running", "orphan"}
  /\ child' = "exited"
  /\ touched' = IF child = "running" /\ proc = "freed" THEN touched \cup {"own"}
                ELSE touched
  /\ UNCHANGED <<wrapVars, bufVars, handleVars, proc, stdio, reqVars, used, stackVars>>

-----------------------------------------------------------------------------
(* What a client asks for; libuv calls back when nothing else runs. *)
ClientNext ==
  \/ \E r \in Req :
       \/ AtOnce(r) \/ FsRequest(r)
       \/ \E w \in Wrap :
            \/ Accept(r, w) \/ Read(r, w) \/ Write(r, w) \/ Stdio(r, w)
            \/ \E h \in Handle : Bind(r, w, h) \/ Connect(r, w, h)
       \/ \E h \in Handle : Spawn(r, h)
  \/ \E w \in Wrap : FreeRef(w)
  \/ FreeProc

LibuvNext ==
  \/ \E r \in Req : FsCb(r) \/ WriteCb(r) \/ \E w \in Wrap : ConnectCb(r, w)
  \/ \E w \in Wrap :
       \/ ConnectionError(w)
       \/ \E new \in Wrap, h \in Handle : Connection(w, new, h)
  \/ \E h \in Handle : CloseCb(h) \/ Arrives(h) \/ ReadEnds(h)
  \/ ProcExit

Next ==
  /\ fault = "none"
  /\ \/ ClientNext
     \/ Resolved
     \/ resolving = <<>> /\ LibuvNext

(* An answer returns, and libuv calls back: a write, a connect and an      *)
(* operation on a file end, and a handle that is being closed is closed.   *)
Running == fault = "none" /\ resolving = <<>>

Fairness ==
  /\ WF_vars(fault = "none" /\ Resolved)
  /\ \A r \in Req :
       WF_vars(Running /\ (FsCb(r) \/ WriteCb(r) \/ \E w \in Wrap : ConnectCb(r, w)))
  /\ \A h \in Handle : WF_vars(Running /\ CloseCb(h))

Spec == Init /\ [][Next]_vars /\ Fairness
-----------------------------------------------------------------------------
Queued(r) == \E w \in Wrap : r \in ToSet(readWaiting[w]) \cup ToSet(acceptWaiting[w])

(* Whom the stream of a frame is answering: the first reader, or the first *)
(* acceptor.                                                               *)
Answered(k) ==
  LET w == resolving[k].w IN
  IF resolving[k].then \in {"data", "readers"} THEN Head(readWaiting[w])
  ELSE Head(acceptWaiting[w])

(* Whatever answers a request - data, an error of the listener, the end of *)
(* a write, a handle that closes -, nothing libuv or a queue still holds   *)
(* points to one that was answered, but the queue of a stream that is      *)
(* inside that answer, to its first.  So one thing only answers a request  *)
(* again: a request on a stream inside the stream's own answer.            *)
AnsweredOnce ==
  /\ fault # "again" =>
       \A r \in Req :
         /\ answers[r] <= 1
         /\ doing[r] # "none" => answers[r] = 0
         /\ Queued(r) => answers[r] = 0 \/ \E k \in DOMAIN resolving : r = Answered(k)
  /\ fault = "again" =>
       \E k \in DOMAIN resolving :
         /\ wrap[resolving[k].w] # "freed" /\ answers[Answered(k)] = 2
         /\ \A r \in Req : r # Answered(k) => answers[r] <= 1

Increasing(bytes) == \A k \in 1 .. Len(bytes) - 1 : bytes[k] < bytes[k + 1]

(* What is buffered and was not given to a reader. *)
Ahead(w) ==
  IF \E k \in DOMAIN resolving : resolving[k] = Frame(w, "data") THEN <<>> ELSE readBuf[w]

(* Readers get the bytes of the stream in order and none twice or, below   *)
(* the limit, not at all, unless one is answered again; a reader or an     *)
(* acceptor does not wait while there are bytes for it or the stream has   *)
(* failed, but behind the one that is being told.                          *)
ReadsExact ==
  \A w \in Wrap : fault # "again" =>
    /\ IF discarded[w] THEN Increasing(given[w] \o Ahead(w))
       ELSE given[w] \o Ahead(w) = arrived[w]
    /\ readWaiting[w] # <<>> /\ (\A k \in DOMAIN resolving : resolving[k].w # w) =>
         readBuf[w] = <<>> /\ ~errcode[w]
    /\ acceptWaiting[w] # <<>> /\ (\A k \in DOMAIN resolving : resolving[k].w # w) =>
         ~errcode[w]

(* The memory of a wrap, of a handle and of a process is not used after it *)
(* was given back, in whatever order clients free their references, except *)
(* through the wraps of a process's streams - getStdio's wrap neither owns *)
(* the stream nor takes its pointer back - and when a client frees a       *)
(* stream inside the stream's answer.                                      *)
FreedUse ==
  /\ touched \subseteq {"stdio"}
  /\ fault = "freed" => resolving # <<>> /\ wrap[Last(resolving).w] = "freed"

(* A write that libuv took, a connect it began and an operation on a file  *)
(* are answered, also when the client frees the stream meanwhile.          *)
CallsBack ==
  \A r \in Req : doing[r] \in {"write", "connect", "fs"} ~> answers[r] > 0 \/ fault # "none"
=============================================================================
