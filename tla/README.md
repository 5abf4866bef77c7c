# TLA+ models of the LD_PRELOAD compatibility layer and of F-Stack's processes

The repository is F-Stack (a user-space TCP/IP stack on DPDK) with two additions
of its own:

* `app/LD_PRELOAD`: unmodified programs use the stack through a preloaded
  library that turns every socket call into a request in shared memory, and a
  monitor process that owns the stack and executes the requests;
* `lib_modify`: the F-Stack library with received packets handed to the protocol
  stack in batches.

The first is the core of this directory: two processes, no lock, one slot per
call, and orders of stores that differ from function to function. Around it are
models of what F-Stack's processes share with each other and with its tools: the
lock-free rings, the messages of the tools, and the packet buffers that travel
between processes, the kernel and the wire.

## 1. Inventory

### The parts

| Part | State it keeps | Operations | Hard behaviour |
|---|---|---|---|
| Shared-memory channel (`ft_hook.h`) | `fmt_action` (key 1000): `ds_form` = channel flag and form, one request slot per call. `fmtr_action` (key 1001): one reply slot per call | `ft_init` attaches both segments | plain loads and stores, no atomics; the segments outlive both processes |
| Socket hooks (`ft_hook.c`) | the caller's position in its round trip | `ft_hook_socket` ... `ft_hook_select`, 15 functions | every word is a separate access, and the order of `flag`, `form`, `fd` and the arguments differs |
| Interposed calls (`ft_sys_hook.c`) | the descriptor table `ft_fds` (never filled by the present calls) | `socket` ... `select`, retry of -1 in `write`, `send`, `recv`, `recvfrom` | a retry is a new request |
| Monitor (`monitor/main.c`) | `running`, `ep_status`, `udp_status`, `epfd`, the events of the last `ff_epoll_wait` | `preparatory_work`, `service`, `service_epoll` (UDP loop, TCP loop, accept loop), called from `loop()` | four dispatchers that know different forms; loops inside `loop()`, where no packet can be received |
| The stack as the monitor sees it (`ff_syscall_wrapper.c`, `ff_epoll.c`) | descriptors, receive and accept queues, end or error of a connection, the epoll registrations | the `ff_*` calls; packets between two calls of `loop()` | edge-triggered events; an error is reported once; non-blocking calls only |
| Sample programs (`app/LD_PRELOAD/app`) | none | `tcp_client`, `tcp_server`, `http_server`, `udp_client`, `udp_server` | which call follows which outcome |
| Packet batching (`lib_modify/ff_veth.c`, `ff_dpdk_if.c`) | `flag`, `pkt_arg[128]`, `pkt_m[128]`, `t_receive` (one per file) | `ff_veth_input`, `ff_veth_process_packet` | a buffer shared by all interfaces, index arithmetic, time |
| Rings between processes (`rte_ring`) | head and tail of producers and of consumers, the slots | `rte_ring_enqueue`, `rte_ring_dequeue` | lock-free, indices that overflow, several producers |
| Tools and messages (`tools/compat/ff_ipc.c`, `tools/*`, `handle_msg`) | a pool of messages, one ring to the process, one ring of answers per message type | allocate, send, receive until the answer is one's own, free; poll, handle, answer | time-outs, tools killed half-way, answers of earlier calls, full rings |
| Packet input and output (`ff_dpdk_if.c`), KNI (`ff_dpdk_kni.c`) | a pool of buffers, a dispatch ring per queue, the kni ring, the table of packets to send | `process_packets`, `process_dispatch_ring`, `send_burst`, `ff_dpdk_if_send`, `ff_kni_process` | who owns a buffer when a ring is full or the pool empty; copies for every process |
| Message queue (`msgQueue`) | a list and a lock word | `msgQueue_getMsg`, `putMsg` | linked by no program |
| Callouts, kernel shim, memory, configuration, `micro_thread` | see `PROJECT.json` | | |

The application and the monitor share nothing but the two segments. A call is:
spin until `ds_form.flag` is 0, set it, store the form, fill the slot, raise its
flag; the monitor sees the channel's flag, switches on the form, waits for the
slot's flag, executes the `ff_*` call, lowers the slot's flag, stores the result,
raises the reply's flag and frees the channel; the hook sees the reply's flag,
lowers it and loads the result. The stack has no thread of its own: `main_loop`
delivers packets and then calls `loop()`. The same `main_loop`, once per process,
passes packets to the other processes through the dispatch rings, serves the
kernel's interface and polls the ring on which the tools send their messages.

### What makes the parts correct

* Channel: a result returned to a caller belongs to the one execution of that
  very call, with its descriptor and arguments; a reply never waits for a later
  call; the monitor never frees the channel over a request it has not executed.
* Monitor: a call that was executed is answered; the accept loop is entered for
  the listener only; `connect` returns what it is meant to return.
* Batching: no packet is lost, doubled, reordered or handed to another interface;
  the index stays inside the arrays; held packets leave within the stated limit.
* Rings: a bounded queue, whatever the number of producers.
* Tools: a message has one owner, unless its call gave it up while it was on its way
  or a killed tool left an unfilled entry for it; a call gets the answer to its own
  request and returns; only a killed tool, or an answer that finds its ring full,
  costs a message.
* Packets: a buffer is in one place; a packet has one receiver, ARP one per process;
  nothing stays in a ring or table for ever.

The hazards behind these, each with its line, are in `PROJECT.json`.

## 2. Modules

| Module | Models | Extends |
|---|---|---|
| `FtShm` | the two segments, `ft_init` | |
| `FtHook` | `ft_hook.c`, `ft_sys_hook.c`: the caller, one action per access of a shared word | `FtShm` |
| `FtStack` | the `ff_*` calls as sets of outcomes, epoll readiness, packets | `FtShm` |
| `FtMonitor` | `monitor/main.c`, one action per access | `FtStack` |
| `FtSystem` | both processes and the network, the properties, the inductive invariant | `FtHook`, `FtMonitor` |
| `FtApps` | the five sample programs and the most general program | `FtHook` |
| `MCFtSystem` | instances for TLC | `FtSystem`, `FtApps` |
| `FtRpc` | abstract: a call that is executed once, at one instant, between request and return | `FtStack` |
| `FtSlotProofs` | lemmas about the handshake over one slot, for any caller | `FtMonitor`, `TLAPS` |
| `FtSystemProofs` | proofs about `FtSystem`, and that it implements `FtRpc` | `FtSystem`, `FtSlotProofs` |
| `FtRestart`, `MCFtRestart` | `FtSystem` with either program killed and started again, and `del_shm.sh` | `FtSystem` |
| `FtRestartProofs` | proofs about `FtRestart` | `FtRestart`, `FtSystemProofs` |
| `FtCallers`, `MCFtCallers` | two programs on one channel: two instances of `FtHook` with one monitor | `FtMonitor` |
| `FtCallersProofs` | proofs about `FtCallers` | `FtCallers`, `FtSlotProofs` |
| `VethBatch` | `ff_veth_input`, `ff_veth_process_packet` | |
| `MCVethBatch`, `VethBatchProofs` | instances and proofs | `VethBatch` |
| `RingFifo` | abstract: a bounded queue | |
| `RteRing`, `MCRteRing` | `rte_ring_enqueue`, `rte_ring_dequeue`, one action per access | |
| `RteRingProofs` | proofs about `RteRing`, and that it implements `RingFifo` | `RteRing`, `TLAPS` |
| `FfIpc`, `MCFfIpc` | the tools' calls, `process_msg_ring`, `handle_msg` | |
| `FfIpcProofs` | proofs about `FfIpc` | `FfIpc`, `TLAPS` |
| `FfDispatch`, `MCFfDispatch` | `main_loop`, `process_packets`, `send_burst`, the KNI ring, in several processes | |
| `FfDispatchProofs` | proofs about `FfDispatch` | `FfDispatch`, `TLAPS` |

### Channel, hooks and monitor

A request slot is `[flag, fd, arg]`. `arg` is a token for the remaining
arguments: a number that is different for every call, so that a property can
tell whose arguments were used (for `socket` it is the type, the only argument
the monitor looks at; for `select` it is 0, because the hook copies its own
pointer variables instead of the caller's sets). A reply slot is `[flag, ret]`.

The 15 hooks are built from the same actions (`Spin`, `Claim`, `StoreForm`,
`StoreFlag`, `StoreFd`, `StoreArg`, `SeeReply`, `ClearReply`, `LoadRet`), each
taking the position it continues at, and each `ft_hook_*` definition is the order
in which that function makes its stores: slot flag first in `socket`, `close`,
`connect`, `listen`, `bind`; last in the others; no form at all in `read`.

The monitor's case blocks are the actions `Wait`, `Guard`, `Exec`,
`ClearRequest`, `PutRet`, `PutFlag`, `SocketPost`/`BindPost`/`ListenPost`,
`Release` and `SocketAgain`, with `mon.mode` telling which of the dispatchers is running and
`Handled(mode)` which forms it has a case for. Differences between the cases are
in these actions: `connect` raises the reply's flag before it stores the result;
`socket` raises its reply's flag a second time after the channel is free; the
cases with `fd > 0` free the channel without a reply and leave `ret`
uninitialised (a choice of values that matter to the test of `ret == 0`); the
TCP loop repeats `ff_recv` until it returns more than 0; the accept loop never
lowers the request's flag. `Tail` is the test after the switch of
`preparatory_work`.

The application is the constant `Follow`: which calls may come after a call and
its outcome. `AnyProgram(S)` lets any call of S follow any other, whether results
are checked or not, also a second `socket` (or the first call of a program
started anew, since the segments stay).

`done` is a history variable: what the stack executed since the call in progress
took the channel. No action's guard reads it.

### Batching

`VethBatch` has the code's numbers as constants: `Warmup` (10) packets go straight
to the interface, then `Slots` (128) packets are collected; 137 is
`Warmup + Slots - 1`. `t_receive` is a `static` variable of a header, so each file
has its own; the model has both, and the comparison in `ff_veth.c` uses the one
that is never assigned. `t_now` is never assigned either and may be anything.
That only whole batches leave the buffer is not stated as a property: it is what the
code does, and what the comment at `ff_veth.c:260` says it should not (`veth_timeout`).

### Calls as direct calls

`FtRpc` has no channel: a call is asked for, executed by the stack with its own
arguments, delivered, finished. `rpcCall` in `FtSystem` maps the state of the hook
and the history of executions to the abstract call, and `DirectCall` is the
abstract specification under that mapping. It covers the calls whose hook fills
the slot before it raises the slot's flag (`ArgsFirst`); the others can be executed
with the fields of an earlier call, as `close_closes` shows.

### Restarts and two callers

`FtRestart` adds a kill and restart of the application (its hook begins anew, the
monitor and the sockets stay), of the monitor (with an empty stack), and of both
with new segments. Neither `ft_init` resets a segment, so these actions leave `shm`
alone. `asked` is a history variable: every call any program has made.

`FtCallers` instantiates `FtHook` twice over the same segments. `Spin` and `Claim`
are two steps, so both callers can take the channel.

### Rings

Every load and store of `prod`, `cons` and a slot is a step. An index has `Word`
values (2^32 in the code) and `NoLap` (`NoLapCons` for consumers) is the assumption
that goes with a finite word: nobody sleeps between its load of the head and its
compare-and-set while the others go once round the word. (With the word of 8 used here the ABA
that follows is easily reached; with 2^32 it takes four thousand million enqueues.) The code
leaves the pointer in a slot it has emptied; the model clears it so that a slot
read too early shows.

### Tools and messages

A message is an element of shared memory: it is in the pool, in a ring, with the
process, or with a tool. `pool[m]` counts how often it is there, so that freeing it
twice shows. The rings are created for one producer and one consumer
(`ff_dpdk_if.c:475`), and "these tools must be executed serially"
(`tools/README.md:19`): one call, of any type, is under way at a time. It makes every
access that matters to the next tool a step of its own: the enqueue moves `prod.head`
(`ff_ipc_send`), fills the entry (`Store`) and moves `prod.tail` (`Publish`); the dequeue
moves `cons.head` (`Take`) and `cons.tail` (`Received`).

* `Kill` ends the tool between any two of these steps, and the indices stay as they are.
  A reserved entry that was never filled is published by the next tool's enqueue; the
  process then handles a message of an earlier round, or stops at a null pointer.
  The pool's get and put are one step each: a kill inside them is not modelled.
* `GiveUp` is possible whenever the ring of answers is empty, wherever the message is.
  A message that is given up on its way goes into the history `stray`, and so does one
  that is handled out of an unfilled entry. What becomes of a stray message is left
  open by the properties; that no other message is drawn in is what they say.

### Packets between processes

Buffers are alike, so the pool is a number and the rings, bursts and tables are
sequences of frames. A process does one packet, or one copy of it, at a time, and
the other processes may act in between. What the dispatcher decides, how many
packets NIC and kernel take and what the stacks send is open. `seen` and `gone` are
histories: a frame is seen by a process when it is handed to the code of its interface
(`ff_veth_process_packet`), which is not yet its stack. That code holds packets in `pkt_m`;
here `flag` counts them and their buffers are in use until the batch is full, while
`VethBatch` has the packets themselves. A buffer that is given to the stack, the kernel
or the wire is returned at once.

### Assumptions

* Memory is sequentially consistent and every access of a shared word in the
  source is one access in the program. The words are not `volatile`, but the
  Makefiles build the preloaded library with `-O0` and the monitor without
  optimisation.
* The segments are fresh (zero-filled) when the system starts; `FtRestart` has later
  starts that find them as they were left.
* One thread of one program makes calls at a time, except in `FtCallers`.
* `rte_ring`: loads are not reordered, as on x86, where the read barriers are empty.
* A packet has one segment, so a copy takes one buffer. The loop of `ff_veth_input` over
  further segments (`ff_dpdk_if.c:994-1008`), with its error path, is left out.
* The tools run one after the other.
* The stack answers as `FtStack` says; it is modelled from how the monitor uses
  it. A failure is always possible for calls that allocate or may be refused.

## 3. Runs

All runs of `FtSystem` interleave the two processes access by access. Deadlock is
not checked: a program may end, and the monitor and a hook really can wait for
ever (that is what several runs are about).

| Run | Instance | Checks |
|---|---|---|
| `stream` | any order of 11 stream calls, 4 calls, 2 descriptors, fair scheduling | `IInv`, `NoLostRequest`, `ConnectSucceeds`, `DirectCall`, `Answered` |
| `dgram` | any order of 6 datagram calls, 5 calls, fair scheduling | `NoSpuriousReply`, `NoLostRequest`, `Answered` |
| `tcp_server` | `tcp_server.c`, 7 calls, 3 descriptors (listener and two clients) | `SlotInv`, `ServerInv`, `OwnResult`, `AcceptsOnListener`, `DirectCall` |
| `restart` | any order of 4 datagram calls, 4 calls, 3 kills | `WholeInv`, `WholeRequests` |
| `callers` | one program that sends, one that receives, 3 calls each | `CallersInv`, `OwnResults` |
| `veth_batch` | warm-up 2, 3 slots, 9 packets of 2 interfaces, 3 seconds | `TypeOK`, `NothingLost`, `SlotFree` |
| `ring` | 2 producers, 1 consumer, 4 slots, words of 8 values, 4 objects | `RingInv`, `Conserved`, `IsFifo`, `Published` |
| `ipc` | calls of 2 types, one at a time, 3 messages, rings of 2, 2 kills, 2 late give-ups | `IpcInv`, `OneOwner`, `OwnAnswer`, `NoLeak`, `CallReturns` |
| `dispatch` | 2 processes, 4 buffers, rings of 1, bursts of 2, batches of 2; an ARP frame, one for the kernel, one sent | `DispatchInv`, `Conserved`, `OneReceiver`, `BuffersReturn`, `ArpHandedToAll` |

What the properties say:

* `OwnResult`: a call whose hook fills the slot first returns the result of
  exactly one execution, with its own descriptor and arguments. Breaking it takes
  a wrong order of stores, a stale reply or a second answer.
* `NoSpuriousReply`: a reply flag is up only while the call it answers is there
  to take it.
* `NoLostRequest`: the channel is not freed over a published, unexecuted request.
* `ConnectSucceeds`: `connect` returns 0, although its flag is raised before its
  result is stored.
* `AcceptsOnListener`: the accept loop recognises the listener by the last
  `socket` reply, and that descriptor is listening.
* `Answered`: a call that the stack executed returns.
* `DirectCall`: the refinement of `FtRpc`, see above.
* `WholeRequests`: the descriptor and the arguments of an execution were given by
  one call of one program, never half by one that died while it filled the slot. It
  is about the forms whose hook fills the slot before it raises the flag (`ArgsFirst`).
  `socket` and `close` raise the flag first: overtaken or killed there, they are executed
  with fields nobody asked for. And it is about programs that make none of the calls
  whose case tests `fd > 0` (`NoGuardedCalls`); `restart_bind` shows what such a call left
  behind can do.
* `OwnResults`: of two callers that both hold the channel, each gets its own result
  from the calls that fill their slot first.
  (They can block each other; nobody gets the other's result.)
* `NothingLost`, `SlotFree`: batching keeps every packet, in order and on its
  interface; the slot used next exists and is free.
* `IsFifo`: `RteRing` implements `RingFifo`, so what is enqueued comes out once, in
  order, and no slot is refilled while it is read. `Conserved` counts the objects when
  the ring is at rest; `Published`: a producer does not wait for ever for the ones
  before it.
* `OneOwner`: a message that is not stray is in the pool at most once, or in one ring,
  once, or with the process, or with the tool. `OwnAnswer`: a call succeeds with its own
  message only, and unless that is stray its request was handled. `NoLeak`: a message
  gets lost only when a tool is killed or an answer finds its ring full. `CallReturns`: a
  call returns, also when the process is dead.
* `Conserved` (of `FfDispatch`): free buffers, buffers in rings, bursts and tables, and
  buffers that the batching holds add up, whatever is full or empty. `OneReceiver`: the
  interface of a process is handed an ARP frame once, another frame has one receiver.
  `BuffersReturn`: a frame leaves the rings and tables (not `pkt_m`, see `veth_timeout`).
  `ArpHandedToAll`: an ARP frame is handed to the interface of every process unless a copy
  was dropped or a dispatcher decided about it.

Three runs show that the code does not do what its programs, comments or README
say; each is explained in `PROJECT.json` under `findings`:

| Run | What TLC shows |
|---|---|
| `send_returns` | `send` hangs: the channel's flag is raised before the form is stored, so the monitor waits on the slot of the call before |
| `close_closes` | `close(fd)` closes another descriptor: the slot's flag is raised before `fd` is stored |
| `veth_timeout` | held packets stay held when no packet comes, although the comment promises a limit of 1000 ms |

### Further instances

These `.cfg` files are kept beside the runs; they show where a promise ends.

| File (module) | Result | Why |
|---|---|---|
| `datagram_returned` (`MCFtSystem`) | `DatagramReturned` violated | the second of two queued datagrams is not returned: the UDP loop is left after one answer (`main.c:283`) and the edge has been reported |
| `end_reported` (`MCFtSystem`) | `EndReported` violated | `recv` does not report the end of a connection: the TCP loop repeats `ff_recv` until it is above 0 (`main.c:416`) |
| `socket_restart` (`MCFtRestart`) | `SocketReturns` violated | after a crash the segments can be such that no `socket` ever returns; `del_shm.sh` is needed |
| `restart_tcp` (`MCFtRestart`) | pass | `ConnectSucceeds` for `tcp_client.c`, 6 calls, 2 kills, which is also proved for every program |
| `restart_bind` (`MCFtRestart`) | `WholeRequests` violated | a `bind` that failed the test `fd > 0` leaves its request visible and the channel free (`main.c:583`); two kills later a slot is executed half filled |
| `udp_server`, `udp_client`, `tcp_client` (`MCFtSystem`) | pass | `Answered` for the programs themselves; `tcp_client` also `SocketReturns` |
| `ring_tools` (`MCRteRing`) | `Conserved` violated | two producers on a ring created for one: that is what two tools at once are to `ff_msg_ring_in` (`ff_dpdk_if.c:476`) |
| `ipc_slow` (`MCFfIpc`) | `NoDoubleFree` violated | a tool that gives up frees a message that is still on its way (`top.c:39`) |

`ring_tools` is what `tools/README.md` warns of, "Note that these tools must be executed
serially"; the release note's "All tools can work in one time."
(`doc/F-Stack_Release_Note.md:35`) does not mean at one time. `ipc_slow` needs a process
that does not answer for a second.

### Bounds

* `MaxCalls`: one round trip involves the channel, one request slot and one reply
  slot, so what a call can inherit comes from the call before or from the last
  `socket`. Four arbitrary calls hold socket, a call that ends
  `preparatory_work`, and two calls after it; the program runs are long enough to
  go round each program's loop. The proofs have no such bound.
* `Fds`: two descriptors let a close hit the wrong one; three let a server have
  a listener and two connections.
* `MaxRx`: one message is enough for data to be ready or not; two are needed for
  the second datagram.
* `Warmup`, `Slots`, `MaxPkts`: 2 + 3 + 3 + 1, so two full batches and one packet
  into the third.
* `MaxTime`: the clock only needs to change between two packets.
* `MaxCrashes`: 2 or 3, so that a kill finds what the one before it left. The
  proofs have no such bound.
* `Size`, `Word`: two turns of the ring for each overflow of the word, so that
  overflow and wrap-around happen at different slots. Four objects fill the ring
  (3) with a producer left over. The proofs are for every size and word.
* `Msgs`, `Capacity`, `MaxKills`, `MaxLate` of `FfIpc`: two kills fill a ring of two with
  answers, or with torn entries, before the call that finds them. `MaxLate` stops
  new calls after the second late give-up, since without it `pool` can grow for ever:
  one such call has freed a message, the next one uses it. The proofs have no such bounds.
* `NbMbufs`, `RingCapacity`, `MAX_PKT_BURST` of `FfDispatch`: the frames with their copies
  and one held packet per process need more than four buffers; a ring of one is full
  after one packet. `Warmup` is 0 and `Slots` 2, so that the first packet is held and the
  second flushes; the warm-up is in `veth_batch`. The proofs have no such bounds.

### Fairness

`FairSpec` of `FtSystem` is weak fairness of the application and of the monitor:
both spin in user space on a core of their own and never sleep in the kernel. An
application that has ended, or that waits for user input, has no step enabled and
is not forced to make one. Packets are not fair: nobody promises that one comes.
In `VethBatch` only the clock is fair.

In `RteRing` every process that has begun an operation goes on: update_tail spins
until the others have published, and the processes have cores of their own. In
`FfIpc` a tool that has its message runs on until it returns (unless it is killed);
nothing is assumed of the process, which may be slow or dead. In `FfDispatch` every process runs its
`main_loop`; the drain of the send table is strongly fair, since `drain_tsc` is a
fixed number of cycles: it is not due in every turn, but again and again.

## 4. Proofs

The eight modules `*Proofs` are checked by TLAPS without a leaf left open. They are
about every value of the constants, within the `ASSUME`s of the modules; a premise
beyond these is named with its theorem. In each module there is one lemma per action
that shows that it keeps the inductive invariant; the temporal step is at the end. A
run checks each inductive invariant on an instance.

| Module | Theorems | Premise |
|---|---|---|
| `FtSystemProofs` | `SpecSlotInv`, `TypeCorrect`, `CallsReturnOwnResult`, `ConnectReturnsZero`, `CallsAreDirect` | none: every application |
| | `SpecIInv`, `RequestsAreNotLost`, `RepliesAreConsumed` | `NoAcceptCalls` |
| | `SpecServerInv`, `AcceptLoopServesListener` | `ServerProgram` |
| `FtCallersProofs` | `SpecCallersInv`, `CallersGetOwnResults` | `DifferentCalls` |
| `FtRestartProofs` | `RestartTypeCorrect`, `ConnectReturnsZeroAfterRestarts` | none |
| | `SpecWholeInv`, `RequestsAreWhole` | `NoGuardedCalls` |
| `RteRingProofs` | `SpecRingInv`, `SpecConserved`, `RingImplementsFifo` | `FlagsAreTrue` |
| `FfIpcProofs` | `SpecIpcInv`, `SpecOneOwner`, `SpecOwnAnswer`, `SpecNoLeak` | none |
| `FfDispatchProofs` | `SpecDispatchInv`, `SpecConserved`, `SpecOneReceiver` | none |
| `VethBatchProofs` | `TypeCorrect`, `BatchingLosesNothing`, `SlotAlwaysFree` | none |

### `FtSystem`, every application

`SlotInv` is the channel slot by slot. `Handshake(f, h, d)` says, for a form f of
`ArgsFirst`, a caller h and the history d of f, where the call is: the fields stored so
far are the caller's; while the request's flag is up nothing was executed; afterwards
the one execution had the caller's arguments, and its result is in `mon.ret`, in the
reply slot or in `hook.ret`. It does not mention `ds_form`: a slot of `ArgsFirst` is
touched by one form's hook and one form's case only, and both go by the slot's two
flags. That is why `OwnResult` and the refinement survive the accept loop of
`service_epoll`, which frees channels it does not hold, and why the same lemmas
(`FtSlotProofs`) serve two callers. Besides, `ConnectInv`: only 0 is stored as the
result of `connect`; `ModeInv`: the accept loop serves no other form.

`CallsAreDirect` shows that `FtSystem` implements `FtRpc`. The initial states map to
`NoCall`. A step maps to a stutter of the call unless it is the claim of the channel
(`Ask`), the execution (`Execute`: `SlotInv` says that the slot holds the caller's
arguments and that nothing was executed yet), the load of the result (`Deliver`:
`SlotInv` says that what is loaded is what was executed) or the return (`Finish`).

### `FtSystem` without `accept`

`NoLostRequest` and `NoSpuriousReply` are about the channel and about every form, and
need `NoAcceptCalls`: the accept loop leaves the request flag raised and keeps
answering, so a reply to `accept` can be left for a later `accept`, and the channel can
be freed over another call's request (TLC shows `NoLostRequest` violated for
`tcp_server.c`). `IInv` follows the request through the protocol:

* `HoldInv`: while the monitor looks at a request the channel's flag is up;
* `FillingInv`: while a slot is being filled no request flag is up, no reply flag
  of that form is up, and the monitor can at most have read a flag and an (old)
  form. This is what makes the early `ds_form.flag` harmless for safety;
* `RequestInv`: a raised request flag belongs to the call in progress, except
  that `socket` may return on a left-over reply and leave its request behind, and
  then the channel is still taken;
* `ServingInv`: what is being executed is the call in progress, unanswered;
* `ResultInv`: where the result is: in the monitor, in the reply slot, in the
  hook;
* `NoAcceptInv`: without `accept` the accept loop can only wait.

### `FtSystem`, servers

`service_epoll` takes an event for the listener's when its descriptor equals what the
last reply to `socket` left in the segment (`main.c:338`). `AcceptsOnListener` says that
this descriptor is then listening. It is not true of every program: a second `socket`
or a `close` of the listener breaks it. The premise `ServerProgram` is what a server
does: one `socket`, of type `SOCK_STREAM`, as its first call; no `connect`; `recv`,
`send`, `read`, `write` and `close` only after an `accept` that succeeded.
`tcp_server.c` and `http_server.c` satisfy it (an `ASSUME` of `MCFtSystem`), whether they
check the results of their calls or not. `ServerInv` follows two descriptors through the
segments:

* `SocketInv`: before the reply to `socket` is stored nothing else was asked for or
  executed, and no descriptor but its own is open (`BeforeSocket`); afterwards no case
  of `SOCKET` runs, so the value stays (`AfterSocket`);
* `ListenerInv`: the listener is never connected, closed or sent data, and has events
  only once it listens;
* `ConnectionInv`: what `accept` returns, what the program remembers of it and what
  `close` left in its slot is never the listener. The hook of `close` raises its flag
  before it stores the descriptor, so the monitor may close what an *earlier* `close`
  named (`close_closes`): that must not be the listener either.

The proof uses that a new descriptor is one that is not open, and that a connection in
error which the monitor closes itself is not the listener.

### `FtCallers`

For any two programs that have no call of `ArgsFirst` in common (`DifferentCalls`):
`CallersInv`, the handshake of each caller over the slots that are its own, and
`OwnResults`. Nothing is assumed about who holds the channel. Two programs that make
the same call share its slot, and there is nothing to prove: either may take the
other's reply.

### `FtRestart`

`ConnectReturnsZeroAfterRestarts` is for every program: `ConnectInv` does not depend on
who is alive. `WholeRequests` needs more, since a restart breaks the handshake:

* `ChannelInv`: at most one request is visible, the channel is taken while one is, and
  nobody fills a slot meanwhile. So a request left by a dead program is executed or
  blocks the channel, and is never filled a second time;
* `AskedInv`: what is visible, and what has been filled in so far, was asked for by one
  call;
* `NoGuardedInv`: no call that frees the channel without lowering its request's flag.

Programs of `NoGuardedCalls` are those without `bind`, `listen`, `connect`, `accept`,
`send` and `recv`, such as `udp_client.c`; the restriction is needed for `bind`, as
`restart_bind` shows.

### `RteRing`

For every size and word, any objects and any number of producers and consumers, as
long as an end created for one user has one (`FlagsAreTrue`; `ring_tools` shows the
other case):

* `OrderInv`: seen from `cons.tail`, the indices are in the order `cons.head`,
  `prod.tail`, `prod.head` within the capacity, modulo the word;
* `HeadInv`: a producer that is about to move an unchanged head has room, although the
  room was computed from an older `cons.tail`; a single producer's head is current;
* `OwnerInv`: the slots between tail and head, on both ends, are owned by exactly one
  process each;
* `SlotInv`, `ObjInv`: what slots and processes hold; an object is in one place.

`Conserved` follows. For `IsFifo` the queue is the objects from `cons.head` to
`prod.tail`: the move of `cons.head` is `RingFifo`'s dequeue, the store of `prod.tail` its
enqueue, everything else a stutter or the change of one process' own state.

### `FfIpc`

For any messages and types, rings of any size, any number of kills and of calls that
give up, at any moment: `SpecIpcInv` (`IpcInv`), `SpecOneOwner` (`OneOwner`), `SpecOwnAnswer`
(`OwnAnswer`) and the action property `SpecNoLeak` (`NoLeak`). That one call is under way
at a time is part of the specification. `OneOwner` alone is not inductive:

* `CallInv`: the message of a call in progress keeps a type, and is out of the pool unless
  it is stray; it is what lets a tool that gives up free it;
* `StoreInv`: the entry a tool is about to fill is the last one, not yet published, and
  empty, so that filling it puts the message there once;
* `AnswerInv`: what was sent has a type, and what is in a ring of answers was handled.

The argument is that a stray message cannot draw in another one: every step that moves a
message moves the one it names, and a message that is not stray is named by one holder.
`NoLeak` also needs `ToolInv`: a tool remembers no message but that of its call and the
one it drains, so that forgetting a message means freeing it.

### `FfDispatch`

For any number of processes, frames and buffers, rings and bursts of any size, any set
of dispatchers and with or without the kernel's interface:

* `ControlInv`: which frames a process can have at which point of its loop;
* `OnceInv`: no holder (ring, burst, table) has a frame twice;
* `FrameInv`: a frame that is not ARP is in one place or was given to one receiver; an
  ARP frame has one original, and a copy is made for a process only when nothing has
  been made for it yet (which is where `pkts_from_ring` comes in).

`Conserved` is inductive together with them: a frame moved from one holder to another
moves one buffer, by the cardinality of `Places`; a packet handed to an interface adds one
to `HeldPlaces`, or empties those of its process when the batch is full, for any warm-up and
batch size.

### `VethBatch`

For every warm-up, every buffer size and all interfaces: `TypeCorrect`,
`BatchingLosesNothing` (`NothingLost`) and `SlotAlwaysFree` (`SlotFree`). The strengthening is that `ff_veth.c`'s
copy of `t_receive` stays 0, so that the branch which drops the packet is not taken, and
that every slot below the next one is in use.

### Only model-checked

* Liveness, which is out of the prover's reach: `Answered`, `Published`, `CallReturns`,
  `BuffersReturn`, `ArpHandedToAll` and the properties of the violation runs.

## 5. Not modelled

* `ft_fds` and the branches of `ft_sys_hook.c` that depend on it: no present call
  fills the table. `ft_hook_ioctl` and `ft_hook_fcntl`, which use no segment: they call the
  stack's function in the caller's own process, or libc's (`ft_hook.c:404-428`).
* In the monitor, the failed attempts of the loop around `ff_recv`: `Exec` waits for an
  outcome above 0 instead. `BindPost` reads the shared words it needs in one step.
* In the stack, readiness to write (`EPOLLOUT`): the monitor ignores an event of a
  datagram socket without `EPOLLIN`, and a listening socket is not writable.
* The contents of buffers and addresses, and how they are copied (`strcpy`).
* Time limits of the retries: a retry may happen or not after every -1.
* The message queue: no program links it.
* What the messages of the tools say, and what their handlers do to the stack.
* Bursts of several objects on a ring; the ring with several consumers (F-Stack
  creates none that has them).
* Ports, flow rules, RSS, checksum offload and segments of a packet; the port filters
  of KNI, which are a constant here; what comes from the kernel, which goes
  straight to the NIC.
* An observation on what is modelled: an ARP frame that a dispatcher hands to another
  queue is not copied to the remaining ones, since the receiver finds it in its ring.
  `ArpHandedToAll` leaves that case to the dispatcher.
* Callouts, configuration, memory, `micro_thread`; `dpdk` (but for its ring),
  `freebsd`, `nginx` and `redis` are third-party code.

## 6. Plan

1. `WholeRequests` for programs with `send` and `recv` that check the result of `socket`,
   so that their descriptors are above 0.
2. A stray message of `FfIpc` followed to its end: what it takes to have it back in the
   pool once.
3. What the copies of the hooks and of the monitor do to a buffer (`strcpy`, `memcpy`,
   lengths), against the bytes the caller passed.
