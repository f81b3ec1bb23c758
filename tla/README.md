# TLA+ models of libsvr2

libsvr2 is a C/C++ library for game and web servers: TCP and TLS sessions over epoll (Linux) and
IOCP (Windows), a WebSocket layer on top of them, ring buffers, lock-free queues, memory pools, a timer
wheel, ordered trees, a logger, a MySQL client with work threads, JSON, and a generator of message
classes. This directory models all of these. Paths are relative to `src/`: `src/epoll_tcp.c` is
`src/src/epoll_tcp.c` of the repository.

## 1. Inventory

### TCP sessions: `src/epoll_tcp.c`, `src/iocp_tcp.c`, `include/net_tcp.h`

*State.* A pool of socket slots, each with a descriptor, a state (`NONE`, `CONNECT`, `ESTABLISH`,
`TERMINATE`, `DELETE`), a send and a receive `loop_cache`, counters, flags and two timers. epoll: io
threads with two single-producer single-consumer queues each, `list_net_evt` (io to main) and
`list_net_req` (main to io). IOCP: any io thread takes any completion; one locked queue leads to the
main thread; `send_req`/`send_ack` and `recv_req`/`recv_ack` count operations and completions.

*Operations.* On the main thread `net_tcp_run` (events and timers), `net_tcp_connect`, `net_tcp_send`,
`net_tcp_close_session`, the listeners' calls; on the io threads the requests and the handlers of
readiness or of completions.

*Hard.* Slots are shared without a lock. A slot is freed on equal counters while the other thread may
still refer to it; both sides close at once; readiness is edge-triggered and reading is suspended
when the cache is full; messages of an old session meet a slot in its next; queues whose
overflow ends the process (`CRUSH_CODE`).

*TLS* (with `src/net_ssl.c`) puts OpenSSL and two more buffers between socket and caches, and a second
establishment behind the first. *Listeners and io threads*: an accepted descriptor travels io, main, io;
`net_tcp_close_listener` waits twice on the main thread; threads are started and joined.

*Correct when* a released slot is referred to by nothing; the application sees `on_establish`, then data,
then one terminal callback; accepted bytes are sent and arrived bytes delivered unless the session ends;
every ended session returns its slot; calls return.

### What the threads share

| part | state and operations | hard | correct when |
|---|---|---|---|
| `src/loop_cache.c` | `head` and `tail`, plain fields of two threads; push, pop, and access in place | each side decides on an old value of the other's pointer; wrap-around | it is a bounded FIFO of bytes, and fixed-size messages are never split |
| `include/lock_free_queue.hpp` | four templates over nodes with sequence numbers | a thread resting between claiming and filling; a lap between test and compare-and-swap | every value is popped once, in the order of the claims |
| `src/memory_pool.c` | units of equal cells with a plain and two tagged lists, pools and managers | reuse of a list's head, tidying against frees of other threads; sizes at the edge of a pool | a cell is in one place, and a block fits and is found again |
| `src/smemory.cpp`, `include/smemory.hpp` | a thread's memory and its memory of a class; the owner allocates, anyone frees | the owner ends while its blocks are in use; several threads free the last ones | memory outlives its blocks, is deleted once, and is not left behind |
| `src/memory_trace.cpp` | a record for each place and stack that allocates, counters | trees searched without the lock | one record a place, and it counts every block |
| `src/logger.cpp` | a queue of commands and one of recycled commands per thread, the log thread, the print thread | ends of threads, of the logger and of the manager against calls and against each other | no command lost, written twice or out of order; calls return |
| `src/db_mysql.cpp` | a queue of commands and of results per thread and work thread, connections with counters | results without room; closing against posts and against a full queue | commands are carried out once and answered in order |

### What keeps to itself

| part | state and operations | hard | correct when |
|---|---|---|---|
| `src/timer.c` | five wheels of lists, `last_tick` of 32 bits | cascades, the wrap, calls from inside a callback | a timer fires once, in its tick |
| `src/rb_tree.c`, `src/avl_tree.c`, `src/tree_help.c` | nodes from a unit; string keys, segments | the cases of rebalancing, erasure with two children | order, balance, and the keys and values put in |
| `src/websocket.c` | handshake, frames, fragments, close | control frames between fragments, callbacks in callbacks, failures in each state | messages arrive whole, a session ends once |
| `src/client_mysql.c` | one connection, reopened; results read one by one | a lost answer, a failed reopening, unread results | what the caller is told is what happened |
| check of tables (`src/db_mysql.cpp`) | statements that alter a table to its description | one of several fails | a table a check found right is right |
| `src/json.c` | parser, tree, writer into a buffer | every place a text can end or err; the buffer's end | a text comes out as it went in |
| `include/net_data.hpp`, `tools/protocol_maker` | wire encoding, arrays with an inner cache, JSON handlers of printed classes | cut streams, counts at their limit, documents in any order | an object comes out as it went in |
| hashes, shared memory, utilities, table makers | see 8 | | |

## 2. Plan

| order | module | composes / refines | state |
|---|---|---|---|
| 1 | `EpollTcp` | refines `SessionCallbacks` | modelled; its safety properties proved |
| 2 | `LoopCache` | refines `ByteQueue`; the storage of every queue of the library | modelled and proved |
| 3 | `LockFreeQueue`, `LockFreeSpsc` | refine `FifoQueue` | modelled and proved |
| 4 | `EpollTls`, `EpollListener` | the rest of `epoll_tcp.c` | modelled |
| 5 | `IocpTcp` | `SessionCallbacks` | modelled: plain sessions; its safety properties proved |
| 6 | `TimerWheel`, `MemoryUnit`, `MemoryManager` (on `AvlTree`) | | modelled |
| 7 | `RbTree`, `AvlTree` (on `OrderedTree`), `TreeHelp`, composed by `OrderedMaps` | agree with a dictionary | modelled |
| 8 | `WebSocket`, `Logger`, `LogFiles` | | modelled; `Logger` proved |
| 9 | `DbWork`, `MySqlClient`, `DbSchema` | the work threads, a statement, a table's check | modelled; `DbWork` proved |
| 10 | `JsonText`, `NetWire`, `DataArrays`, `JsonEvents` | data on its way out and in | modelled |
| 11 | `ThreadMemory`, `MemoryTrace` | what threads leave behind in memory, and count of it | modelled |

Theorems worth proving next, most important first: `EpollListener`'s accounting of descriptors and slots;
`MySqlClient`'s answers; `WebSocket`'s single end. The modules on trees, texts and documents use recursion
over data and stay with TLC.

## 3. The modules and the code

Every state variable and action carries the source's name where it has one, and `map` in `PROJECT.json`
gives the lines of each definition.

`EpollTcp`. One record per slot in `sock` with the fields of `epoll_tcp_socket`; `list_net_evt[p]` and
`list_net_req[p]` are sequences of messages; `io[p].at` and `main.at` are program counters, present
only where the other thread can observe the middle of a handler. Bytes are counted, not stored: their
order is `LoopCache`'s matter. Time is left out: an armed timer fires whenever the main thread is between
two handlers. A process that reaches `CRUSH_CODE` stops, with the reason in `crush`.

| actions | code |
|---|---|
| `IoReq...` | the cases of `_do_net_req` |
| `IoEpollWait`, `IoOn...`, `IoSend...`, `IoRecv...` | `_do_epoll_evt`, `_epoll_tcp_socket_on_send`, `_on_recv` |
| `IoListenerAccept` | `_epoll_tcp_listener_on_accept` |
| `MainEvt...` | the cases of `_do_net_evt` |
| `MainTimerSend`, `MainTimerClose`, `Main...Check` | the two timers of a socket |
| `AppConnect`, `AppSend`, `AppClose`, `AppSetSendControl` | the functions of `net_tcp.h` |
| `Kern...`, `Peer...` | external: the kernel's edge-triggered readiness and the other end |

`SessionCallbacks`. The order of the callbacks of `include/lib_svr_def.h` for one session; the history
variable `cb` of the transports maps to its `seen`.

`EpollTls`. One TLS session from its first request to the release of its slot: OpenSSL (external) with
its two memory buffers, the loops of `_epoll_tcp_socket_on_ssl_send` and `_on_ssl_recv`, the handshake at
both ends, the timers of the main thread. A record is a flight, a byte of data or a bad record.

`EpollListener`. Creating and closing a listener, accepted connections on their way, start and join of
the io threads. Use of a freed listener is undefined: the process stops, or finds the old values
and goes on; both are modelled.

`IocpTcp`. Handlers of completions on several threads, with the points where another thread can step
in. Whether a send is under way the main thread asks by two loads, `send_req` and `send_ack` in the order the compiler
chose (`FirstLoad`, then `Agree` with what follows, or `Differ`), while the io threads move both; `look` is where it
stands. Where the loads agree although a send is under way, a structure in use would be posted again: the model ends
there with the name `misread`. The library releases a slot a fixed time after its end (`DELAY_CLOSE_SOCKET`) and relies on
no handler of it running, and no event of it waiting, by then (`Quiet`); where one is, the model ends with the name
`outlasted`. Posted completions may be refused (`PostRefused`, `EvtRecvActive`). `Announcements` holds the
sum of the bytes that queued events announce, which both transports speak of.

`LoopCache`. `head`, `tail`, `size` and the bytes, written and read one by one between the steps of the
other thread; `ByteQueue` is what its two users see. `LockFreeQueue`. Every load, store and
compare-and-swap is a step; `MultiProducer` and `MultiConsumer` tell the templates apart; a node holds a pushed
value, raw memory (`NoValue`) or the `T` that `new Node[]` made in it (`Blank`); `LockFreeSpsc` is the one with indices only; `FifoQueue` is what its callers see. Memory order is x86's; 64-bit
sequence numbers do not wrap.

`MemoryUnit`. The lists of a unit and the word in front of each cell; a step is what another thread can
observe; `memory_unit_tidy` looks at one cell a step while the other threads go on. `MemoryManager`. Which pool and unit a size goes to, and back. `ThreadMemory`. The memories of one
owner, whose managers are reduced to two counters that `InUse` adds up one after the other; freeing
and what a thread asks afterwards are steps of their own; x86 may hold back the owner's store of
`m_can_destroy`. `MemoryTrace`. Searching and inserting stacks and records; a search may miss what is in a tree
while another thread changes it.

`TimerWheel`. The wheels with `TVR_BITS` and `TVN_BITS` as constants; a callback may add, change and delete
timers. `OrderedTree`, `RbTree`, `AvlTree`. Nodes with the links of the code, each named by its key;
the rotations and both balancings are operators with the source's names. `TreeHelp`. String keys
as owned copies, segments. `OrderedMaps` does each call on both trees and on a dictionary.

`Logger`. Commands with an identity, so that losing one and handling it twice can be told; both
counters of requests; the passes of the log thread; the print thread. A thread may end at any time, also while the
manager is taken down. `LogFiles`. File names, days,
numbers, sizes.

`WebSocket`. Two ends of this code over a session that keeps `SessionCallbacks`, or one end and a
foreign peer that sends any frames, compressed ones in fragments too. A payload is a value with a size; the lengths
are coded as on the wire, and deflating and inflating are what `_ws_deflate` and `_ws_inflate` make of a size. `websocket.c` reaches a
session without its socket, or the handle of a session long gone, in two of its ends: the behaviour stops there.

`DbWork`. For each thread of the application and each work thread `cmd_queue`, `ret_queue` and
`ret_cache_queue`; a connection's counters; posting, `db_manager_run`, destroying a connection, closing
the manager. The application destroys a connection in the thread that made it, when no thread posts on it
any more, and closes the manager when no other thread is inside a call; the callbacks that run meanwhile may post. `MySqlClient`. A statement may be
carried out and its answer lost; the client reopens and sends again, and opening may end the process. `DbSchema`. The loops of `db_check_fields` and `db_check_index` with statements that fail,
or succeed without having been sent.

`JsonText`. The modes of `string_to_json` over tokens, the tree it builds, the walk with its own stack that
`json_to_string` and `destroy_json` share. `NetWire`. `BuildProtocol`, a stream cut anywhere, `HandleProtocol`
with `Reset` of its position; copies and comparisons of the printed classes. `DataArrays`. `DataArray` and
its form for objects, with the arithmetic of the counter's type. `JsonEvents`. The handlers a document's
calls pass through, `IsAllMemberSet`, `ToJson` and reading the result again. `MCComponents` holds the
sample messages, classes and documents.

`MC...` modules hold instances for TLC. Parts that share nothing are put side by side, one per behaviour:
`MCComponents`, `MCServices` and `MCSecure` have a variable that says whose a behaviour is, and the
variables of the others stay at `Absent`; every module keeps its own state, actions and properties.

## 4. The runs

| run | question | bounds |
|---|---|---|
| `epoll_reuse` | is a slot released only when nothing refers to it, and does its next session see nothing of the last? | 1 slot, 1 io thread, 2 sessions, 1 byte each way |
| `epoll_recv` | is every byte in the cache announced once, is what arrives read, and a hang-up noticed? | 1 session, 3 bytes in, a cache of 2 |
| `epoll_live_send` | is what is accepted sent, and does every slot return? | 1 session, 3 bytes out, a cache of 2 |
| `epoll_slow_main` | is the event queue long enough? No: see 7 | the real 16 entries for one socket |
| `iocp` | is a structure never posted twice, which order of the loads misleads, what can outlast a session, is no byte lost? | 1 slot, 2 threads, 1 session, 2 bytes out, 2 in; threads are alike (957130 states; `misread` and `outlasted` are reached after 14 and 13 steps) |
| `iocp_live` | stay the callbacks in order when the slot is used again, do slots return, and is what is accepted sent? | 1 slot, 2 sessions in turn, 2 bytes out, none in, so that a receive ends with the stream or fails (183187 states) |
| `services` | two sessions beside each other (`PairSafe`); a TLS session through every handshake and end (`TlsSafe`); messages whole and one end (`MessagesIntact`, `EndsOnce`) | 2 slots, 2 threads; caches of a byte or a record; messages of 0 and 262200 bytes, 2 of them, 3 frames of a foreign peer, 1 ping |
| `secure` | listeners, commands and statements (`ListenerSafe`, `CommandsSafe`, `DatabaseSafe`), and who waits for whom (`ServiceGoesOn`) | 2 io threads, 1 slot, 2 connections; 1 or 2 threads with up to 3 commands and a queue of 1; 2 statements, 4 failures; 2 failures, 3 checks |
| `loop_cache` | is the ring a queue of bytes under every mixture of calls? | sizes 1, 3, 4; 2 byte values |
| `lock_free` | owners, lifetimes, reasons of refusals, order, and is every value popped, for the four templates? | 2+2 threads, 2 nodes, 3 pushes; 4 places of indices |
| `components` | the parts that keep to themselves, one per behaviour | see below |
| `logger` | is no command lost or freed twice, is everything accepted written, do the calls return? | 2 threads, 4 calls, a queue of 1, a print cache of 1 record |

`components`: seven keys, which reach every case of both balancings (erasing needs trees of three levels
below the root's child); wheels of two lists with 32 ticks a turn, so that the counter wraps and
every wheel cascades; two blocks of two cells with three threads; three managers whose pools meet,
overlap and leave a remainder; a thread with two blocks and another one that frees and reallocates them;
two threads that trace three blocks of one place; days of four seconds with files of two records; messages of two bytes in
caches of two and three; JSON texts of up to eight tokens, with a string that is escaped; two messages
of two protocols; arrays of one inner element, a counter of eight values and three calls; documents of
up to three members of a class with every kind of member.

Why the bounds are enough. In a transport a slot meets one or two io threads in a session, so the
interleavings that matter are those of two or three threads over one slot; two sessions reach every
reuse; three bytes through caches of one or two reach empty, full and partly full caches with a refused
kernel write in between. A queue of one place is full as often as empty, so results of the database and
commands of the logger wait for room. The third push is the first to find a used node. A
TLS handshake has three flights and each buffer holds one record, so every loop stops at every place. Two
failures reach a failure while another is dealt with. Beyond the bounds the theorems of section 6 take over
for the rings, the lock-free queues, both transports, the logger and the work threads of the database.

All runs have `CHECK_DEADLOCK FALSE`, since the systems may stop: the process ends on a crush, calls are
bounded, and nobody has to push or pop.

Cases a property names instead of denying are operators of their own, so that everything else is still
demanded: `misread` and `outlasted` (`IocpTcp`), `WaitsForEver` and `Stillborn` (`EpollListener`), `StuckJoin` and `StuckPost` (`DbWork`), `Lost` (`Logger`), `Unsent`, `RowsLost` and
`NullRows` (`MySqlClient`), `Unsent` and `Rebuilt` (`DbSchema`), `Doubled` (`MemoryUnit`), `EmptyDeflated`, `CutShort`, `Garbled`, `Orphaned` and `Forgotten` (`WebSocket`), `RawKey` (`JsonText`), `Overfull` (`DataArrays`), `Strange` and
`Ambiguous` (`JsonEvents`), `overlooked`, `unseen` and `Uncounted` (`ThreadMemory`), `stray` (`MemoryTrace`). Section 7 says what each is.

Every property is also run against a changed definition, kept beside the original in the module and
marked `Mutant`, that breaks the code the way a slip would (a dropped guard, a forgotten reset, steps in
the wrong order); each one is found. `PROJECT.json` lists one per property; the properties that join
several parts were tried against the other mutants of their modules as well.

## 5. Fairness

`EpollTcp`, `EpollTls`: the io thread's loop returns to its queue and to `epoll_wait` for ever, and the
system runs it: weak fairness of its steps. The application calls `net_tcp_run` in a loop, whose events and
timers compete with the application's own calls on the same thread: strong fairness of `MainEvt` and the
timers, weak fairness of continuing a handler already begun. The peer reads what it is sent, and in TLS
goes on with its handshake, which the application cannot enforce, and without which no byte need ever
leave. Nobody is obliged to send, close, connect or reset.

`EpollListener`: the io threads run, and a call on the main thread goes on. `IocpTcp`: posted operations
complete, threads take completions, the main thread runs events and timers and finishes a comparison it has begun, and the
port does not refuse the close requests of one session for ever (strong fairness of `PostCloseReq`), for if it did the
slot would stay. `Logger`: the log and
print threads run and calls go on. `DbWork`: the work threads run, calls go on, and a thread calls
`db_manager_run` again and again, as `include/db_mysql.hpp` expects of every thread that posts.
`LockFreeQueue`: a thread inside a call is run, and the consumers keep calling `pop`; producers need not push.

`MCSecure!Fairness` puts the conditions of three modules into one formula each: a behaviour is of one
part, so each stands for the condition of that part.

## 6. The proofs

*`LockFreeQueueProofs`*: for any sets of producers and consumers, any positive capacity and any number
of pushes (assumption `QueueAssumption`). The invariant `Inv` says for each sequence number of the lap in
use what its node looks like: between `_head` and `_tail` it carries the number as its tail and either
holds the claimed value or has one producer at work on it (`ClaimedNode`); between `_tail` and the end of
the lap it holds no pushed value and carries the number, or has one consumer of the last lap at work on it
(`FreeNode`). None of the checked properties is inductive without it: that a compare-and-swap succeeds
says only that `_tail` did not move, and `ClaimedIsFree` is what turns this into "the node seen free is
still free". Lemmas `SlotsDiffer` and `SlotNextLap` carry the arithmetic of the ring. From `Inv` follow
`NodesSafe` (`NodesAlwaysSafe`), `RefusalsHaveReason` (`RefusalsAlwaysHaveReason`) and the refinement of
`FifoQueue` (`FifoOrderHolds`).

*`LockFreeSpscProofs`*: for any capacity (assumption `SpscAssumption`). Without sequence numbers what a
node holds is said by the two indices and the places of the two threads (`NodesOK`), and a thread that found
room, or a value, finds it later too because only the other side's index moves meanwhile, and away from its own
(`CallsOK`). The remainders of the index arithmetic are traded once for case distinctions (`RemIs`,
`WindowIs`); the laws of a window of the ring then make `PushPublish` an append, `PopBegin` a removal and
`PopTake` a return of `FifoQueue` (`RingIsQueue`). `ValuesLiveOnce` says no value is built over another pushed one.

*`LoopCacheProofs`*: for any size (assumption `CacheAssumption`) types, `AreasHold`, `BytesInPlace` and the
refinement of `ByteQueue`, with `Inv == TypeOK /\ AreasHold /\ BytesInPlace`: the areas promised to the two
threads stay apart, so a byte stored or read is not touched by the other thread before the pointer
moves.

*`EpollTcpProofs`*: for any number of slots, io threads and sessions and any sizes of caches and queues
(assumption `ConstantsAssumption`). `TypeOK` comes first, with `MainHasSlot`: the main thread's
continuation labels always concern a slot, without which the fields they store would be stored nowhere. The
inductive invariant (`SessionsInvariant`) says for each session how its
state, its descriptor, the requests and events queued for it, the io thread's and the main thread's places
and the callbacks seen fit together. Its core is a case distinction on how far the session's end has come:
what is still queued then, and who will queue the one message that carries the end on. None of the
properties is inductive alone: that a freed slot has nothing queued rests on its two counters, which
mean something only because each queued request is counted by one of them, and a terminal
event comes last only because the io thread that queues it never handles the session again. The invariant
gives `OnlyFullQueuesEnd` (three of the five `CRUSH_CODE`s are unreachable), `SessionsSafe`, `ReceivingSafe`
and `CallbackOrder`. A process whose queue was full has ended with a message unsent, which the invariant cannot
describe; so `SessionsStaySafe` and `ReceivingStaysSafe` speak of all states but these. `evt_full` does
happen (section 7), and `req_full` depends on sizes the model takes as they are; the runs at their bounds check both
properties without the condition. `CallbacksInOrder` needs none. The receive bytes that
events announce are a sum over a queue (`Announced`, a recursive function); its laws (append, tail, splitting) are
proved by minimal counterexample over the natural numbers.

*`IocpTcpProofs`*: for any numbers of slots and threads and any sizes (assumption `IocpAssumption`: a finite set of
threads, so that senders can be counted). The invariant has global parts, `Types`, `ThreadsOK` (a session
has at most one handler of each kind: receiving, sending, ending) and `QueueOK` (an event
that opens a session comes before its others, and only one ends it), and one part a slot, stated over a *view* of it: its
structure, its posted operations, the types of its events, where its handlers are, how many
owe the acknowledgement of a send. `OpeningOK`, `ReadingOK`, `SendingOK`, `EndingOK` and `HeardOK` say what goes
with what in a view; `CachesOK` counts the bytes. The two counters of an operation mean something only in the
view: they differ while it is posted, or while a handler still has its acknowledgement to make. The main thread reads
them one after the other, so the invariant is kept together with `LookOK`: what was loaded first is a value from before,
the session compared is in use, an orderly close looks at one whose turns and bytes are spent. Since requests are
never behind acknowledgements, the loads agree wrongly only if the requests came first and a handler has posted since
(`MisreadOnlySo`). A refused close leaves its code behind, on a session that sends nothing more (`Spent`). A session ends once because of the threads
that find a reason only the one whose swap of the state succeeds queues the terminal event; a DATA event may still follow
it, whose `on_recv` then comes after `on_terminate` (section 7; `SessionCallbacks` leaves `on_recv` out). With the view, a step is checked against its own slot, and the other
slots by one frame lemma. No assumption about time is left: the free timer puts the slot back when the session is `Quiet`
and ends the process as `outlasted` when it is not, and `ReleaseSafe` says what can be left then, the one receive
handler and its DATA and RECV_ACTIVE events; the invariant holds in that state, and in a `misread` one, too.
`SessionsKeepInvariant` gives `HeardInOrder`, `HandlersStaySafe` and `BytesStayAccounted`; the last two except a process that
found the event queue full: its 16 entries per socket (`src/iocp_tcp.c:2443`) do not bound its events, and the handler
that ended it has left its work half done. What a process does after a misread or a premature release is not claimed.

*`EventLemmas`*: laws of sequences of events that both transports' proofs cite: what is queued for a session after
an append and after a removal, and the sum `Announced`.

*`LoggerProofs`*: for any threads, scripts of calls and sizes (assumption `LoggerAssumption`), without
condition. `LoggerInv` joins the types with five parts. `PlacesInv`: every command is in exactly one of a
thread's hand, the log thread's hand and the three queues of a thread, once. `AppInv`, `LogInv`: what a thread
at each place holds, and that in its last round the log thread has visited every thread before it ends.
`CountInv`: requests counted and about to be counted equal the answers given and pending, until the
destruction of the logger has seen them equal, after which only its own command may be left; this is what
makes freeing the logger safe. `OrderInv`: the calls a thread is owed are those of its queued commands,
in order. `PrintInv`: the print queue cuts into whole records, and has room for what is left of a record begun. From
it follow `CommandHasOnePlace` (`CommandsHaveOnePlace`) and `OutputComplete` (`OutputIsComplete`).

*`DbWorkProofs`*: for any threads, connections and sizes of queues (assumption `DbAssumption`: a finite set of
threads, so that those about to count a command can be counted). The invariant `DbInv` says where every thread is
(`WorkOK`, `PostOK`, `ClosedOK`: after `uninit_db_manager` nobody is inside) and what the queues hold. `FlowOK` splits a
thread's commands for a work thread by the places they pass, `ret_queue`, `ret_cache_queue`, the hand of the work
thread, `cmd_queue`: each increases, each lies before the next, together they are what is unanswered.
`CommandsInOrder` as it stands is not inductive, for it does not say that the command a post is about to push is
the newest of its thread (`PostOK`), which is why a push keeps the order. `DoneOK`: a command is executed between `cmd_queue` and the result
queues, once. `CountOK`: `db_req`, `db_req_mt` and what threads are about to count equal `db_ack` and
the commands ahead of it, on each connection; as a post is counted after it is pushed, the equality that
`destroy_mysql_connection` waits for means that nothing is ahead only because no thread is then posting on the
connection (section 3). From `DbInv` (`DbInvariant`)
follows `CommandsSafe` (`CommandsStaySafe`).

*Only model-checked*: `MessagesWhole`; everything of the other modules. All liveness
properties: the prover has no rule for `ENABLED`. What the recursive operators on trees, texts and documents
compute: the prover takes no recursive operator, and no induction scheme. Induction over natural numbers is within
reach for a recursive function, as a set of counterexamples without a least element.

## 7. What the models show

*The finding.* `create_net_tcp` raises `max_event_num` to 16 per socket, and
`_epoll_tcp_proc_push_evt_data` ends the process when an event finds no room. DATA events are bounded by
nothing but the receive cache: in `epoll_slow_main` the main thread takes no event for a while (it is in some
callback, or between two calls of `net_tcp_run`), so a session's ESTABLISH event stays at the head of the queue, and
a peer sends single bytes, each read by itself. ESTABLISH and fourteen DATA events fill the 15 usable entries; the
fifteenth byte's event is the end of the process.
`findings` in `PROJECT.json` quotes the lines.

*Cases the properties name.* They contradict nothing written down, but a user of the library may meet them.

- `WaitsForEver`: `net_tcp_close_listener` waits on the main thread for accepts that only the main thread's
  own events acknowledge (`src/epoll_tcp.c:3222`). `Stillborn`: an io thread that reads `is_running` before
  `create_net_tcp` sets it ends at once (2493). A connection accepted between the two waits of the close
  uses the freed listener (3232).
- A late `on_recv`: `_push_data_event` reads the session's state before it takes the lock of the event queue
  (`src/iocp_tcp.c:440`), so a thread that ends the session meanwhile may queue the terminal event first, and
  `on_recv` comes after `on_terminate`.
- `StuckJoin`: `uninit_db_manager` waits for a work thread that waits for room among results nobody
  collects any more (`src/db_mysql.cpp:514`). The model's queues have room for one at least: with
  `max_db_event_num` 1 a post goes round for ever. `StuckPost`: callbacks that `uninit_db_manager` itself runs may post
  to a work thread that has ended; the command is never carried out, and once the queue is full the post spins for ever (861).
- `Lost`: when the file of a new day, or the next one after a full file, cannot be opened, the record is dropped
  (`src/logger.cpp:836`, 876). A thread that ends while `uninit_logger_manager` frees the `log_proc`s writes into one
  that is gone (250; `wrong` holds `"stray"` then): no property forbids that.
- `rb_tree_clear`, `destroy_rb_tree` and their counterparts for AVL trees read a node's `next` after giving the node
  back (`src/rb_tree.c:514`, `src/avl_tree.c:290`). The models take the list as it was.
- `Unsent`, `RowsLost`: a statement is answered with success though no connection could be opened, or
  though its rows were lost on the way (`src/client_mysql.c:440`, 494). Behind a statement that failed for want of a
  connection `db_check_table`, `db_check_fields` and `db_check_index` therefore report no error while the server stays
  away, on a table that is not as described: `SchemaAgrees` names the parts whose own statements were not sent (`Unsent` of
  `DbSchema`). A question without a result set makes `mysql_fetch_row` look at a null pointer
  (`src/db_mysql.cpp:996`): the model lets the process end there, or find no row. `NullRows`: the rows of the two questions a new connection asks
  are looked at even when `mysql_store_result` lost them (`src/client_mysql.c:153`, 220, 325, 374), which ends the process.
- `Rebuilt`: `db_check_index` steps through four entries a column where the description has three
  (`src/db_mysql.cpp:1247`), so that an index of several columns may be built again at each check.
- `RawKey`: `json_add_float` stores its key with the backslashes of the text.
- `Overfull`: an array resized to the highest value of its counter has no room for the next, and writes
  outside or starts again at 0 (`include/net_data.hpp:275`). An object array assigned to itself is emptied.
- `Strange`, `Ambiguous`: a document's key that is the beginning of a member's name, members named twice,
  values of other kinds (`include/net_data.hpp:2024`).
- Memory of an ended thread: a free whose block is given back looks at `m_can_destroy` and adds up what is in
  use while another thread may already have deleted the memory (`src/smemory.cpp:160`). `overlooked`: the sum
  misses a block that is reallocated from a pool not yet read to one already read. `unseen`: a free that comes
  before the owner's store is visible leaves the release to nobody. `Uncounted`: `New` counts an array of objects
  after its loop has brought the number of elements to 0, so the class may go first
  (`include/smemory.hpp:230`).
- `Doubled`: `memory_unit_tidy`, which `memory_tidy` calls for every unit, takes each cell whose word is not the
  sign for one of the creator's list (`src/memory_pool.c:86`, `src/memory_trace.cpp:381`). A cell that another
  thread has freed and that the creator has not yet taken over is such a cell too: it is chained a second time, or
  its block is given back under it. `TidyGoesWrongOnlySo` says that nothing else goes wrong.
- `stray`: a block allocated before `g_mem_trace` is constructed has no record, and freeing it afterwards
  changes counters at an address that was never set (`src/memory_trace.cpp:399`).
- TLS: bytes decrypted in the pass that meets the end of the stream are never announced
  (`src/epoll_tcp.c:1879`); a client whose handshake fails gets no callback.
- `EmptyDeflated`: an empty message sent with compression is one byte on the wire, from which `_ws_inflate` gets
  no byte, which it takes for a failure: the receiver closes with 1002, and still reports what it read together with it
  (`src/websocket.c:138`, 188, 893). `CutShort`: a compressed message that is a little larger than the inflation's cache of
  262144 bytes may arrive without its end, since `_ws_inflate` stops when its input is used up, which zlib may do before
  it has room for all that came out (161); 262200 zeros are such a message. `Garbled`: the code asks each frame for the bit that
  RFC 7692 sets in the first fragment only, so the later fragments of a compressed message are joined as they came (853).
- `Orphaned`: `net_ws_connect` gives up a request of more than 1024 bytes by freeing the `ws_socket`, while the session
  below goes on connecting without session data; `_ws_on_establish` or `_ws_on_error` then writes through a null pointer
  (`src/websocket.c:1844`, 1366). `Forgotten`: when the handshake of a secure client fails no callback comes, so its
  `ws_socket` is never freed, and the application, which is told nothing, may later close a handle that is another session's.
- `misread`: the main thread compares `send_req` with `send_ack` by two plain loads (`src/iocp_tcp.c:2172`, 2197, 2210,
  2905). It loads `send_req` = 1; the handler of that send posts the next one (797) and counts its acknowledgement
  (1175); it loads `send_ack` = 1, finds no send under way, and posts the `OVERLAPPED` in use once more. Loading
  `send_ack` first would be safe, whatever the handlers do (`MisreadOnlySo`).
- `outlasted`: the receive handler counts its acknowledgement first (1067), so that after the end of the session only the
  delay of 15 ms keeps the slot from being released while that handler runs or its late DATA event waits (2228).
- A close request the port refuses is tried again by the next timer, but `IOCP_OPT_CLOSE_REQ` stays stored (714): harmless,
  since nothing is sent any more by then (`Spent`).
- Objects of the lock-free queues: `new Node[_capacity]` makes a `T` in every node, over which the first lap's
  placement `new` builds without destroying it, and `delete[]` destroys again in each node what a pop has destroyed
  (`include/lock_free_queue.hpp:33`, 75, 99, 46). Harmless for pointers and other trivial types, which is what this
  repository puts there; `PushedLiveOnce` is about the pushed values and says where a push meets such an object.
- `push` of the lock-free queues may report a full queue when another producer has merely advanced the
  tail (`RefusedPushHasReason`, third reason); `size()` of the template with indices subtracts masked
  values without masking the result.

## 8. What is not modelled

*Parts of modelled components.* `create_memory_pool` answers 0 for sizes in the wrong order (`src/memory_pool.c:680`); the
model's pools have been made. IOCP: TLS, listeners, start and stop of its threads; they repeat, with
completions, what `EpollTls` and `EpollListener` show. MySQL: the conversion of rows to fields and the
wording of statements. JSON: digits of numbers and white space. Serialisation: the formatting templates, which
have no state. TLS core: certificates, keys and ciphers. Code generators: makers of tables and the
reader of definitions; what the protocol maker prints is modelled, how it prints it is not.

*Components.* Memory trace: its lists of units and managers, which `memory_alloc_size` walks without the lock, and
the copy for display. SHA-1 (whose context is one block and a length) and base64 are
standard functions. Shared memory and
utilities wrap single calls of the system. OpenSSL, the MySQL client library, rapidjson and the vendored
XML library are external: the first three are modelled as this code uses them.
