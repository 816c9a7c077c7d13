# A verification project for PxpRpc

PxpRpc is a small RPC protocol and its runtimes: a server context in C, a pipe
and a libuv socket for it to talk over, C++ wrappers, a bridge that lets other
threads (and Java) use the pipe, and clients and servers in Python, TypeScript,
Java and C#.  This directory holds TLA+ models of the runtimes' own logic, the
configurations TLC checks them with, and proofs that TLAPS checks.  Paths below
are under `src/`.

## The system

A *connection* carries packets both ways over an *io* (send, receive, close).
A *server context* answers requests on one connection.  It keeps a pool of
*references*: callables and other objects, which the client names by index.  A
request carries a session id and calls an index, or one of the built-in
operations `getFunc`, `freeRef`, `close`, `getInfo` and `poll` (negative
indices); the answer carries the session id, with its top bit flipped when the
callable failed.  Session `0xffffffff` marks a *signal*, which is not answered.
A *poll* calls an index again and again, and answers each time, until the
callable fails.  A *client context* gives each operation a session id and
matches the answers by it.

| part | state | operations | what is hard | what makes it correct |
|---|---|---|---|---|
| reference pool, `c/pxprpc/server.c` | block of slots, chain of free slots, 16 bit size | alloc, free, expand, the loop of close | a slot lost, chained while held, or emptied twice shows only much later | an index denotes its holder's object; the chain is exactly the free slots; a hook does not run again once it returned |
| C server context, `c/pxprpc/server.c` | closed flag, reference count, per request the continuation, result and hook | one handler per operation, rounds of a poll, finish, close, delete | an io that completes inside its own call re-enters the context; callables outlive the close; who frees what | the reference count is exact; nothing runs on freed memory; one continuation per request; the right answers |
| pipe, `c/pxprpc_pipe/…/pxprpc_pipe.c` | per side a pending receive and a list of sends; a registry of servers | serve, connect, send, receive, close | every callback may send, receive or close on the connection it comes from | packets in order; a send completed once, when its packet was taken; freed once both sides closed |
| libuv socket, `c/pxprpc_libuv/pxprpc_libuv.c` | partial packet, pending receive, write requests | read, write, close, listen, delete | packets cut by the stream; the socket closes under running callables | framing; nothing runs on a freed socket |
| event dispatcher and wrappers, `c/include/pxprpc_ext.hpp`, `pxprpc_pp.hpp` | pending request, last events, hooks | call, poll, event, free | a pointer to a request that is answered but not finished; two clients waiting at once | nobody waits unnoticed; the pointer belongs to the request it points to |
| runtime bridge, `runtime_bridge/src/pxprpc_rtbridge.c` | queue of requests on their callers' stacks, wake-up, executor pointer | blocking connect, send, receive, close, init, deinit | threads push while the loop takes; wake-ups coalesce; the loop stops under its callers | a request referred to once and never after its caller left; no wake-up lost; calls return |
| bridge host and base functions, `runtime_bridge/…/init.hpp`, `pxprpc_rtbridge_host.*` | registry of names, accept queue of a pipe server, variables, `inited`, the loop | start, serve, accept, connect, memory, variables, TCP server | two first calls at once; servers under one name; acceptor destroyed with connections queued | one loop, and it stays; connections handed out in order; a name finds its server |
| libuv functions, `runtime_bridge/c-modules/pxprpc_libuv_rpc/init.hpp` | wraps and their handles, read buffers, pending reads and accepts, requests in libuv | bind, connect, accept, read, write, spawn, files | references freed while libuv still calls back; requests that run inside an answer; data beyond the buffer | bytes in order; each request answered, once; nothing runs on freed memory |
| Python client and server, `python/pxprpc/` | table of waiting operations, session ids; pool, tasks | getFunc, call, poll, signal, free, close, cancel, stop | tasks interleave at each await; an answer after its task was cancelled | an operation gets its own answer or an error; indices agree |
| TypeScript client and server, `typescript/pxprpc/` | the same | the same without cancel | the same; `WebMessage` and `WebSocketIo` queues | the same |
| Java client and server, `java/src/pxprpc/` | the same, with threads | the same, blocking | locks and waits | the same |
| serializers (all languages) | a buffer and a position | put, get, table rows | variable-length integers at their limits | get reads what put wrote |
| C# server, IDL generators, `memfile.h` | – | – | – | not planned: an older protocol, text generation, a vendored helper |

They interact through `pxprpc_abstract_io` (C) or an `AbstractIo`/`Io` object:
the server context calls `receive` and `send` with a continuation, and `close`;
the io calls back, from its event loop (libuv) or before the call returns
(pipe).  The host is told of the end by `on_closed` and answers by deleting the
context.  Callables are called with a request and go on by its `next_step`.

## Modules

| module | models | state and actions |
|---|---|---|
| `RefSet` | what a pool promises: a set of held indices, each with an object and a hook, which is called and later returns | alloc, free, the close, hooks called by either |
| `RefPool` | `ExpandRefPool`, `alloc_ref`, `free_ref` and the pool loop of `close` in `server.c`, and their callers `getFunc1`, `freeRef1`, `writeResult`'s allocations | every slot with object, hook and link; the size truncated to `SizeMod`; a stack of the releases and closes whose `on_free` function is running, which may allocate, release and close in turn; implements `RefSet` by `Abs` |
| `RefPoolProofs` | – | theorems about `RefPool` |
| `PxpServer` | all of `server.c` for one context | one action per function, run from an explicit call stack; a `foreign` frame is a callable, an `on_free` function or the io, from which any callable may call `next_step` and, with `SyncIo`, packets arrive and sends complete, so that everything re-enters the context below the function that called out; the pool as `RefSet` promises it |
| `PxpServerProofs` | – | theorems about `PxpServer`: types and reference count; requests and memory |
| `Pipe` | one connection of `pxprpc_pipe.c` | the two halves of the pump, send, receive and the closing loop, with a call stack for callbacks that call back in; a send is completed when the receiver's callback returned |
| `RtBridge` | `pxprpc_rtbridge.c` | each thread's blocking call step by step, the loop thread's batch, start and stop; one pipe connection, reduced to what the bridge sees. Only the loop thread runs the pipe, and the callbacks only post semaphores, so a call of the pipe is one step |
| `JavaClose` | Java's `Io` and `ioClose` on a connection of `pxprpc_pipe.c` | the pipe's functions cut at their callbacks and run by two threads without a lock: the loop, and the thread that calls `close` |
| `EventDispatcher` | `AsyncReturn`, `EventDispatcher` of `pxprpc_ext.hpp` on the server's `next_step` | call, poll, event, overlap, free, close, end of a send; each of them also while an answer is being sent |
| `LibuvIo` | `pxprpc_libuv.c`, and `TcpPxpRpcServer` of the host | one action per callback of libuv and per call of the server's context: listen, accept, the reader's two phases, writes, close, stop and start; the doubly linked list of connections pointer by pointer |
| `UvRpc` | the functions of `pxprpc_libuv_rpc` | one action per function and per callback of libuv; wraps, handles and references with separate lifetimes; a process and the wraps of its stream; a stack of the streams inside an answer (`resolving`), whose client may call again before the reader leaves the queue |
| `PipeServers` | the registry of `pxprpc_pipe.c`, `PxpPipeServer` of `pxprpc_rtbridge_base` | serve, connect, accept, the destructor; a stack of the accepts inside `newConn`, which take their connection from the queue afterwards |
| `Host` | `ensureInited`, `pxprpc_rtbridge_init_and_run` and the loop thread's start, on top of `PipeServers` | one action per access of a shared variable, so that two starts meet in every order; extends `PipeServers`, whose actions need the loop |
| `Table` | `serializer.c` and `TableSerializer` of `pxprpc_ext.hpp` | the puts and gets as operators on sequences of bytes; `addValue`, `addRow`, build and load as actions |
| `RpcState` | the state of a client context, a server context and their connection in Python and TypeScript, and the steps both languages share | – |
| `PyServer`, `PyClient` | `python/pxprpc/base.py`, `extend.py`, the stops of `backend.py` | an action is what a task does between two awaits |
| `TsServer`, `TsClient` | `typescript/pxprpc/base.ts`, `extend.ts` | the same for promises |
| `Rpc` | any client with any server | the composition, fairness and the properties |
| `PipeProofs`, `RtBridgeProofs`, `EventDispatcherProofs`, `UvRpcProofs`, `HostProofs`, `RpcProofs` | – | theorems about the module of that name; `HostProofs` also about `PipeServers` |

`MCRefPool`, `MCPxpServer`, `MCRtBridge`, `MCRpc`, `MCLibuvIo` and `MCTable` give TLC the symmetries and
constants.  A definition whose name has the suffix of a bug (`Unref_twice`,
`Send_prepends`) is a mutant: a plausible slip in the definition before whose
name it carries, used to show that a property would notice it.  `PROJECT.json`
gives the source lines of each definition.

Data is reduced to what the properties tell apart: packets, callables and
objects are names; parameters, results and error texts are left out, except
whether a request was rejected and which index it answers with.  In `LibuvIo`
and `Table` bytes matter and are numbers: a header of `HeadSize` bytes, a byte
of `Base` values.

The modules meet at the io: `PxpServer` models a context over any io (`SyncIo`
says whether it completes inside its calls), `Pipe` and `LibuvIo` model the two
ios of the C library with what a context may ask of them.  `Host` composes the
start of the loop with the pipe servers on it; `RtBridge` is that loop at work,
with one connection.  A step that a C program does not survive (a null pointer
or an empty `std::function` called, a pointer nobody set) ends a behaviour:
`down` in `LibuvIo`, `fault` in `PipeServers` and `UvRpc`, `lost` in `Host`.  In
`PxpServer`, `Pipe`, `EventDispatcher` and `JavaClose` no step is defined on
memory that was given back.  What may lead there is part of the properties,
which name the exceptions, and is listed under "Known disagreements".

Where the code calls out before it changes its state (an `on_free` function
before it is cleared, a reader before it leaves the queue, a connection before
it is popped, a receiver's callback before the sender's), the call and the
change are two steps, and between them runs whatever the callback may do.

## Runs

All runs have `CHECK_DEADLOCK FALSE`, since a closed connection stops and
bounded packets run out.

| run | instance | shows |
|---|---|---|
| `pool` | 4 objects, expansion by 2, at most 4 slots, `on_free` functions that make calls up to 2 deep | every order of allocations, releases, expansions and the close, also inside one another's hooks: `IndexDenotesObject`, `FreeChainExact`, `HookNotRunAgain`, and the refinement of `RefSet`. Two expansions and every permutation of the chain occur. |
| `server` | 2 requests, 2 sessions, 2 slots; an io that completes inside its calls or from the event loop; delete in `on_closed`; fair | `RefCountExact`, `NoUseAfterFree` with its one exception, `OneContinuation`, `RepliesCorrect`, `ResultsReleased` under late callables, failed sends, nested packets and every place of close and delete; `Served`: every request is answered while the context is open, and an answered one is finished |
| `server_leak` | 1 request | a **counterexample** to `NoLeakAtRest` (below) |
| `pipe` | 2 packets each way, callbacks nested to depth 14, closes from any callback | `InOrder`, `CompletedOnce`, `NothingStalled`, `FreedWhenBothClosed` |
| `bridge` | 2 threads and the loop, fair; starts and deinits in any order | `RequestOnce`, `ResultTrue`, `NoUseAfterFree`, and `CallsReturn`: a call that does not wait for the peer returns unless the loop is stopped first |
| `bridge_java` | 1 Java thread and the loop, 1 send a side | a **counterexample** to `CloseAvoidsUseAfterFree` (below) |
| `events` | 3 requests, polls of 3 rounds, overlapping calls, close | `WaiterKnown`, `PointerOwned`, whatever arrives while an answer is being sent |
| `rpc` | 3 operations, 2 session ids, each pair of languages, expansion by 1, cancelled tasks, stopped ends, close methods that raise, fair | `AnswerIsOwn`, `RefsAgree`, `PollSticks`, `ChainExact`, `HookRunsOnce`, and `CallsReturn`, also when the connection breaks or is closed |
| `table` | 4 rows, 3 shapes of columns with and without names, bytes of 4 values | `RoundTrip`: counts and lengths below the marker (0), at it (3) and above it (4) |
| `libuv_io` | 3 connections, 2 starts, 2 bytes of packets, headers of 2 bytes | `InOrder` for every cut of the stream; `MemoryExact`: the list and the connections' memory through every order of ends, stops and starts |
| `uv_rpc` | 2 wraps, 2 handles, 3 requests, 3 bytes, a buffer of 1 byte, requests and frees inside a stream's answer, fair | `AnsweredOnce`, `ReadsExact`, `FreedUse`, `CallsBack` |
| `host` | 2 threads, 2 servers, 3 names, 3 accepts, 2 connections to a server | `StartExact` for every interleaving of two starts, the ones in which a loop is destroyed included; `ConnectionsHanded` and `RegistryExact` on the loop, with accepts inside accepts |

The bounds are constants or named in comments: `MaxPool` (slots), `MaxNested`
(depth at which an `on_free` function still makes calls), `PoolSize`,
`MaxRounds` (answers to a poll), `MaxMsg` (packets a side sends), `MaxDepth`
(depth of the pipe's stack at which a user still makes calls), the sets of
requests, threads and operations.

`MaxNested = 2` lets a close begin inside a release's hook and a release or an
allocation inside that close's.  `SizeMod` is above `MaxPool`: the truncation of
the size is not met in the run, and neither in the proofs.  `MaxDepth` cuts the
nesting of `Pipe` short (a receive that fails calls back at once, so users may
nest without end): 14 frames hold two pumps and a close nested in one another's
callbacks, and the calls made in the last of them; 12 gave the same results.  The theorems about
`Pipe` are for every depth.

Requests of the server interact only through the reference count, the queue of
sends, the pool and the polled slot; two meet in every combination of polling,
in the callable and being sent, at every depth of the stack (each request is on
it once).  The run has `SyncIo` and `DeleteInOnClosed`, what the repository's
host has and the hardest of the four combinations: with `SyncIo` the io may also
complete from the event loop.  The proofs hold for all four.  In `rpc` two
session ids for three operations make ids run out, wrap round and be used again.
A fourth operation has about nine million states and shows nothing new.
`ExpandCount = 1` never runs the inner loop that links the slots of one
expansion to one another; it is exercised in `pool` (C), not in Python and
TypeScript.

In `libuv_io` a header of two bytes can be split, a body of two bytes can be
split, and the third connection is the one whose ends have neighbours on both
sides; `MaxPackets` bounds the bytes of the packets clients send, `MaxStarts`
the starts.  In `uv_rpc` the buffer's limit is passed by the second byte that
nobody reads (`Limit` stands for the mebibyte) and the third byte is discarded;
two wraps are a listener with its connection, or a stream and a process's.  In
`host` a second connection queues behind the first and can be lost to an accept
that got the first one twice, and a third name lets two
servers hold neighbouring entries beside the manager's.  `MaxRow` bounds the
rows of a table: four are one more than the marker of a byte of four values.

Assumptions about the users of a component are constants, with the value that
the documents or the callers in the repository justify: clients do not free an
index they poll (`FreeWhilePolled`), do not send polls as signals
(`PollBySignal`), threads do not close a side that another is using
(`SharedClose`) nor receive on it at once (`Overlaps`), a client does not call
an operation the server does not know (`ClientSends`), a session id is not
handed out again while the answer to the operation that abandoned it is
outstanding (`StaleReuse`: ids turn round after 65534 operations).  Callbacks
given to a client's poll do not raise.  `on_free` functions do not make the pool
grow while a loop of close or a release is in their slot (the block would move
under it).  Close methods of Python and TypeScript objects may raise but do not
call the context; a rejected promise of `processRequest` is not modelled.  Where a user does otherwise the section
on disagreements says what happens.

### Fairness

* `PxpServer`: `WF` of the thread's next step (C code that has been entered runs
  on), of the io completing its sends, and of each callable returning (a
  callable must call `next_step`).
* `RtBridge`: `WF` of the loop thread and of each thread inside a call
  (the operating system schedules them).  Nobody has to begin a call.
* `Rpc`: `WF` of the event loop for each task that is ready (asyncio and the
  JavaScript job queue run all of them), and of the callable of each *call*.
  A poll's callable need not return, and a connection need not break.

* `UvRpc`: `WF` of libuv's callback for each operation on a file, write and
  connect it accepted, and of the close callback of each handle that is being
  closed (the loop runs until its handles are closed).  No byte and no
  connection need arrive, no client need ask.

No strong fairness is assumed anywhere.

## Proofs

`RefPoolProofs` proves, for any set of objects, any expansion and any bound on
the pool below the 16 bit size (`MaxPool < SizeMod`, the only hypothesis beyond
`PoolAssumption`):

* `PoolInvariant`: the inductive invariant `IInv`;
* `PoolTypeOK`, `PoolIndexDenotesObject`, `PoolFreeChainExact`,
  `PoolHookNotRunAgain`: its parts, which the run `pool` checks on one instance;
* `PoolRefinement`: every behaviour of `RefPool` is one of `RefSet`.

`FreeChainExact` says that the chain from the entry visits each unheld slot
once.  It is not inductive by itself: that the chain stays inside the block
needs the size to be the block's length (`size = cap`, which is where the 16 bit
bound is used), and that the allocator takes an unheld slot needs
`IndexDenotesObject`.  The hooks need to know who is running them: a release
that waits for its hook has taken the slot from its holder but not yet given it
to the chain, no two releases are in one slot, and one loop of close is under
way at most (`FramesOK`); a slot with a hook contains the object it was set for,
a hook that runs has one call waiting for it, or two when a release and the
close have met, and what the loop has passed is not armed (`HooksOK`).
The chain is described by a sequence that exists rather than
by recursion; the lemma `ChainShorterThanPool` (its slots are distinct, so it is
no longer than the block) keeps it in the finite domain of the state formula.

`PxpServerProofs` proves, from `ServerAssumption` alone and so for any number
of requests, sessions and slots and for both kinds of io:

* `ServerTypeOK`;
* `ServerRefCountExact`: the count is the unfinished requests plus the owner's
  reference, and the context's memory is given back exactly at zero.

`RefCountExact` needs two more conjuncts: the set of live requests is finite
(so that its cardinality moves by one), and at most one `delete` is under way
and only while the owner holds its reference (`OneDelete`), since a second one
would give back a reference that was not taken.

The other invariants of `PxpServer` are proved on top of these, in two steps:

* `ServerOneContinuation`, `ServerRepliesCorrect` and `ServerResultsReleased`,
  from `ReqInv`.  None of the three is inductive: that a request is answered
  once depends on which function runs for it next.  `InPhase` says, for every
  request on the stack, in its callable or in the io, what the function it goes
  on with may rely on (its answers so far, whether it was rejected, whether its
  result is due), and each handler hands the next one its phase.
* `ServerNoUseAfterFree`, from `MemInv`, with no hypothesis.  The property has
  the one exception the code has, the `step1` that `step2` goes on to, with both
  `SyncIo` and `DeleteInOnClosed` (`server.c:303`, below).  The invariant says
  why all else is safe: whatever lies below a frame that deletes the context
  does not use it but for that `step1`, or a close request keeps it alive
  (`BelowDelete`); the context is closed before its creator's reference goes
  (`ClosedFirst`), after which only requests use it, and these hold references
  (`AfterDelete`, with `RefCountExact`); until it is closed, nothing below the
  top of the stack closes or deletes it (`OpenStack`); an io that completes from
  the event loop reports errors with nothing below (`AsyncErrors`).

`PipeProofs` proves the four invariants of `Pipe`, for any number of packets
and any depth of nesting.  Its calls are named by their height on the stack, so
that a step leaves all but the topmost where they are.  `IInv` has, besides the
types, three parts:

* `OrderInv` (`PipeInOrder`, `PipeCompletedOnce`): a list holds the newest
  packets of its side (`Queues`); closes begin above all pumps (`Nested`), so
  that a pump on top of the stack finds no close under way and, on a closed
  connection, nothing to move; what a list or a pending receive waits for is a
  call that is still on the stack (`Pumped`, `Closed`); a packet that was taken
  has its completion on the stack once, or was completed once (`Counted`);
* `Released` (`PipeFreedWhenBothClosed`): once both sides are closed the call
  that frees is on the stack or was made;
* `CloseInv` (`PipeNothingStalled`): unless both sides closed and a close may
  begin inside another, the loops of a close are on the stack once
  (`OneClosing`), and the sends it completed are those that left the list and
  the one the loop is at (`Reported`).

The first three theorems hold wherever a callback may close.
`PipeNothingStalled` has the hypothesis `CallbackClose # "always"`: no callback
closes its side once the peer has closed.  Otherwise the outer close goes on
with a connection that is gone (`pxprpc_pipe.c:189`, below).  TLC finds no
violation then, because the behaviours that would show one end at the freed
memory; the proof says nothing about them.

`RtBridgeProofs` proves the three safety invariants of `RtBridge` for any set of
threads and every order of starts, stops and calls:

* `BridgeRequestOnce`, with no hypothesis.  The places that refer to a request
  (queue, batch, pending receive, list of sends) are counted, and the proof is a
  conservation law: each step of the loop takes the request from one place and
  puts it in one other or posts its semaphore.  `Placed` ties a request in the
  pipe to its kind and side, `Inside` and `Batches` say what the loop thread has
  in hand.
* `BridgeResultTrue`, under `~Overlaps`: a thread does not receive on a side on
  which another receives.  The result is read from the io after the fact, so
  the invariant is that one receive is under way and no stale error is there
  when it begins (`OneReceive`, `NoStaleError`).
* `BridgeNoUseAfterFree`, under `~SharedClose`: a thread closes a side that
  nobody uses.  Then whoever closes is alone from before the request is queued
  (`ClosingAlone`).  It is about threads that close through the bridge, as the
  C functions do; Java does not, and has a run of its own (`bridge_java`).

Both hypotheses are what callers must keep; without each, TLC finds the
violation that "Known disagreements" describes.

`EventDispatcherProofs` proves `DispatcherWaiterKnown` and
`DispatcherPointerOwned` for every constant, from `IInv`: a request that waits
has the `on_finish` that clears `pendingReturn` (`Waits`), and `pendingReturn`
points to a request whose `on_finish` will clear it, the only one with such an
`on_finish` (`PointerOwned`).  An event, a free or an overlapping call while an
answer is being sent is part of the model, and so are the early ends it causes.

`UvRpcProofs` proves `UvRpcAnsweredOnce`, `UvRpcReadsExact` and `UvRpcFreedUse`
for any wraps, handles, requests and limit.  `IInv` is the types with

* `AnswerInv`: until something went wrong (`fault`), a request is in one queue,
  once, or libuv calls back for it (`QueuesExact`); the first of a queue has its
  answer exactly while its stream is inside that answer, and who waits beside
  bytes or an error waits behind one (`StreamsFit`); the bytes handed out and
  buffered are numbered like those that arrived (`InStream`);
* `MemInv`: a wrap owns its handle alone, a handle points to a wrap that is
  there, and connecting requests have handles of their own (`Owned`,
  `PointsBack`, `Connects`, `Process`).

`HostProofs` proves `HostStartExact` for any set of threads, and
`HostConnectionsHanded` and `HostRegistryExact` for any servers, names, requests
and connections.

* `StartInv`: while no two were in `init_and_run`, one is starting at most, and
  the loop is there from the moment its thread set it (`OneStart`); with any
  number at once, as long as no loop was destroyed or replaced, the loop that is
  set was set by the thread that runs it, and whoever was told of success has it
  (`LoopKept`).
* `AcceptInv`: an accept waits at one server and was not answered
  (`AcceptsWait`); a queue holds the connections that came last, and of these
  only the first may have been handed out, while an accept is in `newConn`
  (`QueueExact`).
* `RegistryInv`: an entry lies in a server that served its name
  (`EntriesExact`).

They rest on `HostAssumption` and `PipeServersAssumption`: the null pointer is
no thread and no request, and the manager's entry, whose name can be asked for
like any other, belongs to none of the servers clients create.

`RpcProofs` proves, for any set of operations, any number of session ids, any
expansion, and a client and a server in any two of the languages (the pairs of
`Pairs`), with cancelled tasks, stopped ends and broken connections:

* `RpcTypeOK` and `HooksRunOnce`, with no hypothesis beyond `RpcAssumption`.
  They follow from `BaseInv`: a request is in one place, with the task that is
  to send it, on its way, or with its task on the server (`OnePlace`), the
  places agree on whether it is a poll (`Kinds`), an index that is named
  anywhere is the index of a slot (`Links`, `Indexed`), and the hook of an
  object is in one slot or returned, and in none before the callable that
  creates the object returned (`HooksOK`).  A hook that raises stays in its
  slot, stops the loop of a close, and runs again in the close that follows.
* `AnswersAreOwn`, `RefsAlwaysAgree`, `PollsStick` (the properties
  `AnswerIsOwn`, `RefsAgree`, `PollSticks`) and `FreeChainsSound`, under
  `~StaleReuse`: a session id is not handed out again while an answer under it
  is outstanding.  This is what a client has to see to, and the code does so
  only by the length of the cycle of ids; without it `AnswerIsOwn` is violated,
  which is the disagreement at `base.py:134` below.

The four need one another, and `MatchInv` has them all.  That an answer reaches
the operation it belongs to needs the table of waiting operations to hold every
request that will still be answered, under its id, and no id that is free to be
taken unless nothing will be answered under it (`Matched`), and that the last
answer to a request is sent by a task that has ended, after the others
(`FinalLast`).  That an index denotes what the server created for its holder
needs the holder to be alone: from the allocation until the `freeRef` of its
holder the index is in one of the task's result, the packet, the answer and the
object (`Settled`, `Owned`), so that no two operations free the same slot, and
allocation takes only what the chain says is free (`FreeChain`).  That a poll,
which looks its index up again in every round, finds the same object needs the
client to keep the object while it polls (`Polled`), which holds because an
answer ends the right operation.  When the client is closed or its connection
breaks the table is no longer kept, and `Matched` ends with the receive loop.

The actions of both languages are brought to few shapes first, each of which is
then shown to keep the invariant once: the server begins or ends a task
(`Serves`), an operation takes an id and a table entry (`Begins`), the receive
loop ends with an error (`Breaks`) or takes an answer (`Gets`), an operation
returns or is cancelled (`Parts`), a signal is sent, packets are lost.  What the
allocator and the release do to a pool is `Leads` and `Effect`.

Every inductive invariant was an invariant of its module's run before it was
proved.  The proofs' own assumptions are the named ones of the modules, which
TLC evaluates in the runs.

Out of the prover's reach, and left to TLC: the liveness properties (`Served`,
the two `CallsReturn`, `CallsBack`), which rest on fairness and `ENABLED`, and
what a recursive definition computes for every input (`Chain` in `Rpc` and in
`LibuvIo`, which is why `ChainExact` and `MemoryExact` are only checked; the
folds of `Table`, and so `RoundTrip`).  Of `ChainExact` the part that concerns
each slot with its neighbours is proved (`FreeChainsSound`): links never lead to
a slot in use and never to a free slot twice; that the walk along them counts
what is missing (`Unchained`) is not.  `InOrder` of `LibuvIo` is a property of
its steps and within reach, but the module declares `Chain` with `RECURSIVE`,
and the SMT solver is not available there; the run `libuv_io` is its only
evidence.

## Known disagreements

With a run of its own:

* `server_leak`: the handler of `close` never finishes its request, which keeps
  a reference to the context; neither is ever freed (`server.c:204`).
* `bridge_java`: `Io.close` closes once "to avoid UAF crash" (`Io.java:75`), but
  on its caller's thread (`jnibridge.cpp:160`), while the loop thread may be in
  the same connection for the server side.  When both close, each finds both
  sides closed, and the later one uses and frees what the first gave back.  The
  same race leaves a request in a list that was drained, whose caller waits for
  ever; and two Java threads may both pass `if(closed)`, which no lock guards.

Found the same way; to see one, give the constants the value in brackets in the
configuration of the module's passing run and check the property named:

* `RefPool`, `IndexDenotesObject` [`Expand = 1`, `SizeMod = 2`]: past 65535
  slots the size is truncated and live indices lose their objects
  (`server.c:71`).
* `RefPool`, `hook[o] # "again"`: `on_free` is cleared after it returned, so a
  close that begins inside a release's hook, or a release inside the close's,
  calls it a second time while it runs (`server.c:99`, `:47`).
  `HookNotRunAgain` says that it is no worse.
* `RefPool`, `hook[o] # "stray"`: a callable that finishes after close fills a
  slot whose hook nothing need run (`server.c:44`).  Python and TypeScript do the
  same.
* `Pipe`, `freed => stack = <<>>`: when a callback closes the second side inside
  the first one's close (`test.c:21` does, and the server's `step2`), or inside a
  pump, the function that called it goes on with the freed connection
  (`pxprpc_pipe.c:189`, `:66`), and a send may be completed twice, which
  `CompletedOnce` allows once both sides closed.  When pumps nest, a later send
  is completed before an earlier one (`:62`).
* `PxpServer`, `NoUseAfterFree` without its exception: `on_closed` deletes the
  context under `step2`, which goes on to `step1` (`server.c:303`,
  `pxprpc_rtbridge_host.cpp:15`).
* `PxpServer`: a request that is answered, or whose callable returns, on a closed
  context is never finished (`server.c:158`); its reference keeps the context.
* `PxpServer`: a request with a negative index that names no operation has no
  continuation, and a null pointer is called (`server.c:282`; clients of the
  repository send none).
* `PxpServer`, `CallsCallable` [`FreeWhilePolled = TRUE`]: the next round of a
  poll calls through an emptied slot (`server.c:234`).
* `PxpServer`, `SignalUnanswered` [`PollBySignal = TRUE`]: a poll sent as a
  signal is answered (`server.c:241`).
* `RtBridge`, `NoUseAfterFree` [`SharedClose = TRUE`]: the queue is a stack, so a
  close overtakes a receive that was queued before it (`pxprpc_rtbridge.c:50`).
* `RtBridge`, `ResultTrue` [`Overlaps = TRUE`]: the error is read from the io,
  where an overlapping receive left it (`pxprpc_rtbridge.c:73`).
* `RtBridge`, `CallsReturn` without the exception for a stopped loop: a request queued after the loop's
  last batch is never executed (`pxprpc_rtbridge.c:107`).
* `RtBridge`, `StartsAfterDeinit` [`Deinits = TRUE`]: deinit returns before the
  loop has ended, so a start right after it answers "inited"
  (`pxprpc_rtbridge.c:99`).
* `EventDispatcher`, `st[r] # "finished"` for every `r` of the io's queue: an
  event, a free or an overlapping call during the send of an answer calls
  `next_step` of the answered request again.  A call is finished under the io; a
  poll begins its next round, which the end of the send then answers without an
  event (`pxprpc_ext.hpp:480`-`505`).
* `EventDispatcher`, `Is("stuck") = {}`: a request that is answered during the
  close is never finished (`server.c:158`).
* `Rpc`, `AnswerIsOwn` [`StaleReuse = TRUE`, `Cancels = TRUE`]: a late answer to a
  cancelled call reaches the call that was given its id (`base.py:134`).
* `Rpc`, `CallsReturn` without the exception `Blocked`: the exception of Python's
  `run` stops at the first poll or cancelled call of the table
  (`base.py:143`).  Without the exception for a closed client: `TcpClient.stop`
  and `Client.close` may leave operations waiting (`backend.py:86`,
  `base.ts:134`).  Without the exception `HalfClosed`: a close method that raises
  stops Python's `close` before `io1` is closed, and the clients wait for ever
  (`base.py:284`).
* `Rpc`, `HookRunsOnce` counting calls instead of returns: `onFree` is cleared
  after it returned, so one that raises is run again by the close its error
  leads to, and the hooks of the slots behind it are not run (`base.py:257`,
  `base.ts:277`).

* `LibuvIo`, `InOrder` without the exception `split`: the first read of a packet
  is taken for the whole header, so that the rest of the header is read as the
  packet (`pxprpc_libuv.c:61`).
* `LibuvIo`, `~down`: the callback of a failed write follows `sockconn`, which
  nothing sets (`pxprpc_libuv.c:127`); a connection that could not be accepted
  has a handle without data, whose close callback follows a null pointer
  (`:221`); after a failed bind `tcp` stays set and `stop` deletes a server that
  was never made (`pxprpc_rtbridge_host.cpp:60`, `:69`).
* `LibuvIo`, `touched = {}`: a signal's callable that returns after its
  connection was freed reads `io->send_error` in it (`server.c:125`).
* `UvRpc`, `touched = {}`: the wrap that `getStdio` makes neither owns the stream
  nor takes its pointer back: freeing the wrap, or the process, leaves the other
  with freed memory (`init.hpp:293`).
* `UvRpc`, `fault = "none"`: on a pipe a poll of `stream_read`, or any read or
  accept the client sends on getting an answer, runs before the reader leaves
  the queue and the buffer is cleared; it answers the same, deleted
  `AsyncReturn` again, with the same bytes (`init.hpp:101`; the loops that
  reject do the same, `:107`).  A stream freed there has its queue used
  afterwards (`:104`, `:137`).
* `UvRpc`: requests that are never answered.  `uv_write`'s result is not looked
  at (a write on a listener or on a closing handle, `init.hpp:155`), nor is an
  error `UvTcpWrap::connect` returns at once (`:887`); the end of a stream and
  read errors reach no reader (`:179`); requests queued on a wrap that is freed
  are forgotten (`:166`).  `CallsBack` is about the others.
* `PipeServers`, `fault = "none"`: stopping a server whose entry heads the list
  does not unlink it (`pxprpc_pipe.c:223`), so that the name in it is freed; a
  name that is served again keeps its old argument, which `__wrap_on_connect`
  casts; `~PxpPipeServer` calls `newConn` when it is empty and when it was
  called before (`pxprpc_rtbridge_base/init.hpp:69`).  Connections still in the
  queue are never closed.
* `PipeServers`, `reentered = {}` and `fault # "pop"`: `accept` pops the queue
  after `newConn` returned.  A polled `accept` on a pipe runs inside it and hands
  the same connection out again; both then pop, so another connection is lost,
  or the queue is empty or freed (`pxprpc_rtbridge_base/init.hpp:65`).
* `Host`, `~lost` and `StartExact` with `overlap` as if there were none: two
  threads pass `inited==0` (`pxprpc_rtbridge_host.cpp:84`).  The later loop
  thread then frees the loop the first one runs or sets its own over it, or both
  are told of success with one loop, or the one whose loop runs is told of the
  other's error (`pxprpc_rtbridge.c:181`-`187`).
* `Table`, `RoundTrip` without `~Ambiguous`: a length or count of 255 is written
  as one byte, `0xff`, which the readers take for the long form
  (`serializer.c:54`); without `~literal`: `addValue("text")` takes the overload
  for `bool`, so that the names of `fs_scandir`, `fs_stat` and
  `interface_address` are lost (`pxprpc_ext.hpp:258`).

Seen in the code, where no module goes: `io_set_auto_close` never answers
(`pxprpc_rtbridge_base/init.hpp:248`); `process_get_result` never waits, since
`alive` is never set; `AsyncReturn::reject` replaces the hook that frees the
request (`pxprpc_ext.hpp:395`); `udp_bind` passes the parameter's descriptor for
its bytes and never starts reading; `FileHandler`'s destructor closes the file
under operations that run; `runInNewThread` queues its work from other threads
than the loop's, which libuv does not allow.

Read in the code and modelled as it is: `expandRefPools` in Python chains one
slot less than it adds (`base.py:242`, the term `Unchained` of `ChainExact`);
`TcpServer.stop` clears `running` itself, so that `close` runs no hooks
(`backend.py:58`); in Python an awaited operation overtakes a signal sent before
it (`base.py:191`); `free` loses its object when no session id is left
(`extend.py:226`); in TypeScript a poll whose send failed is told of its end
twice (`base.ts:224`).  `freeRefHandler` in Python frees only every fourth index
(`base.py:302`); clients free one at a time.

## Not modelled, and the plan

In the order in which they are to be added:

1. `WebMessage` and `WebSocketIo` of `backend.ts`.
2. The Java client and server, on `RpcState`'s shape but with threads and locks,
   with Java's `PipeServer` on `PipeServers`.
3. An abstract RPC (an operation is requested, executed at most once, answered)
   that `Rpc` refines.
4. The rest of `pxprpc_rtbridge_base` (`io_send`, `io_receive`, memory chunks,
   variables), and of `pxprpc_libuv_rpc` (UDP, the closing of file descriptors).
5. The helpers of `pxprpc_rtbridge_host.hpp` that answer from other threads.
6. The serializers of the other languages, against `Table`'s.

Proof to follow: `InOrder` of `LibuvIo`, in a module without the recursive
`Chain`.

Not planned: the C# server (an older protocol), the IDL generators (text from
declarations), reflection and type declarations of the Java and Python wrappers,
`memfile.h` (vendored).
