----------------------------- MODULE FfDispatch -----------------------------
(***************************************************************************)
(* How packets travel between the F-Stack processes of one port, each with *)
(* a queue of the port and a stack of its own: main_loop, process_packets  *)
(* and send_burst of ff_dpdk_if.c, and the kernel network interface of     *)
(* ff_dpdk_kni.c.  A packet is handed on through the ring of the queue the *)
(* dispatcher names, an ARP packet is copied into the ring of every other  *)
(* queue, and what the KNI filter selects goes to the kernel through a     *)
(* ring that the primary process empties.  All of it is a matter of who    *)
(* owns which buffer: any ring can be full and the pool can be empty.      *)
(*                                                                         *)
(* Buffers are interchangeable: the pool is the number of free ones, and a *)
(* ring, burst or table is the sequence of the frames in its buffers.  A   *)
(* ring operation is one step (RteRing).  A packet is one segment.  The    *)
(* code of a process' interface collects the packets it is handed, and     *)
(* their buffers, before the stack gets them: here it is how many it       *)
(* holds, in VethBatch which ones.  A stack or a kernel that is given a    *)
(* buffer is done with it at once.                                         *)
(***************************************************************************)
EXTENDS Naturals, FiniteSets, Sequences, SequencesExt

CONSTANTS
  NbMbufs,             \* the size of pktmbuf_pool
  Frames, FilterOf,    \* the frames, and what protocol_filter says of those that
                       \* arrive; "OUT" are the ones the stacks send
  NbQueues,            \* nb_queues of the port, one process for each
  RingCapacity,        \* entries of a dispatch ring and of the kni ring
  MAX_PKT_BURST,
  Dispatchers,         \* the processes that have registered a packet_dispatcher
  EnableKni, KniAccept,\* enable_kni, kni_accept
  Warmup, Slots,       \* of the interface code's buffer: 10 and 128 (VethBatch)
  KniActions           \* the values of knictl_action that ff_knictl asks for

Queues == 0..(NbQueues - 1)
Primary == 0
Filters == {"FILTER_ARP", "FILTER_KNI", "FILTER_UNKNOWN", "OUT"}
\* Who can be given a frame: the interfaces of the processes, the kernel and the
\* wire.
Kernel == NbQueues
Wire == NbQueues + 1
Sinks == 0..Wire

ASSUME DispatchAssumption ==
  /\ NbMbufs \in Nat \ {0} /\ FilterOf \in [Frames -> Filters]
  /\ NbQueues \in Nat \ {0} /\ RingCapacity \in Nat \ {0}
  /\ MAX_PKT_BURST \in Nat \ {0} /\ Warmup \in Nat /\ Slots \in Nat \ {0}
  /\ Dispatchers \subseteq Queues /\ EnableKni \in BOOLEAN /\ KniAccept \in BOOLEAN
  /\ KniActions \subseteq {"DEFAULT", "ALL_TO_KNI", "ALL_TO_FF"}

VARIABLES
  pool,       \* the number of free buffers
  dispatch,   \* dispatch_ring of each queue
  kni,        \* kni_rp
  proc,       \* each process in its main_loop
  tx,         \* tx_mbufs of each process, m_table[0] to m_table[len - 1]
  knictl,     \* knictl_action of each process
  flag,       \* flag of ff_veth.c, of each process
  seen,       \* history: how often each sink was given a frame
  gone        \* history: frames that were dropped somewhere, or handed over
(* proc[q].pc      where main_loop is                                      *)
(* proc[q].burst   what is left of pkts_burst                              *)
(* proc[q].ring    pkts_from_ring                                          *)
(* proc[q].to      the next queue an ARP packet is copied to               *)

vars == <<pool, dispatch, kni, proc, tx, knictl, flag, seen, gone>>

ProcPC == {"drain", "kni", "ring", "rx", "packet", "copy", "input", "send", "loop"}
Atmost(n) == {s \in Seq(Frames) : Len(s) <= n}

TypeOK ==
  /\ pool \in 0..NbMbufs
  /\ dispatch \in [Queues -> Atmost(RingCapacity)] /\ kni \in Atmost(RingCapacity)
  /\ proc \in [Queues -> [pc : ProcPC, burst : Atmost(MAX_PKT_BURST),
                          ring : BOOLEAN, to : Queues]]
  /\ tx \in [Queues -> Atmost(MAX_PKT_BURST - 1)]
  /\ knictl \in [Queues -> KniActions \cup {"DEFAULT"}]
  /\ flag \in [Queues -> 0..(Warmup + Slots - 1)]
  /\ seen \in [Frames -> [Sinks -> Nat]] /\ gone \subseteq Frames

Init ==
  /\ pool = NbMbufs
  /\ dispatch = [q \in Queues |-> <<>>] /\ kni = <<>>
  /\ proc = [q \in Queues |-> [pc |-> "drain", burst |-> <<>>, ring |-> FALSE, to |-> 0]]
  /\ tx = [q \in Queues |-> <<>>]
  /\ knictl = [q \in Queues |-> "DEFAULT"] /\ flag = [q \in Queues |-> 0]
  /\ seen = [f \in Frames |-> [s \in Sinks |-> 0]]
  /\ gone = {}

-----------------------------------------------------------------------------
Goto(q, pc) == proc' = [proc EXCEPT ![q].pc = pc]

\* The packet at the head of the burst is dealt with.
NextPacket(q) ==
  LET rest == Tail(proc[q].burst) IN
  proc' = [proc EXCEPT ![q].burst = rest,
             ![q].ring = @ /\ rest # <<>>,
             ![q].pc = IF rest # <<>> THEN "packet"
                       ELSE IF proc[q].ring THEN "rx" ELSE "loop"]

Pkt(q) == Head(proc[q].burst)
Occurs(f, s) == Cardinality({i \in DOMAIN s : s[i] = f})
Given(to, s) == [f \in Frames |-> [seen[f] EXCEPT ![to] = @ + Occurs(f, s)]]
Dropped(s) == gone \cup ToSet(s)
Drop(s, n) == SubSeq(s, n + 1, Len(s))
BurstOf(s) == IF Len(s) < MAX_PKT_BURST THEN Len(s) ELSE MAX_PKT_BURST

\* send_burst: the NIC takes some of the first packets, the rest is freed.
send_burst(s) ==
  \E k \in 0..Len(s) :
    /\ seen' = Given(Wire, SubSeq(s, 1, k))
    /\ gone' = Dropped(Drop(s, k))
    /\ pool' = pool + Len(s)

\* Mutant of send_single_packet: the table is sent when it is over-full.
send_single_packet_Late(q, m) ==
  LET s == Append(tx[q], m) IN
  IF Len(s) > MAX_PKT_BURST
  THEN send_burst(s) /\ tx' = [tx EXCEPT ![q] = <<>>]
  ELSE tx' = [tx EXCEPT ![q] = s] /\ UNCHANGED <<pool, seen, gone>>

\* send_single_packet: a full table is sent at once.
send_single_packet(q, m) ==
  LET s == Append(tx[q], m) IN
  IF Len(s) = MAX_PKT_BURST
  THEN send_burst(s) /\ tx' = [tx EXCEPT ![q] = <<>>]
  ELSE tx' = [tx EXCEPT ![q] = s] /\ UNCHANGED <<pool, seen, gone>>

\* Mutant of AfterDrain: nobody empties the kni ring.
AfterDrain_NoKni(q) == Goto(q, "ring")

\* What follows the drain: the primary process serves the kernel's interface.
AfterDrain(q) == Goto(q, IF EnableKni /\ q = Primary THEN "kni" ELSE "ring")

\* main_loop: TX burst queue drain, once drain_tsc has passed.
TxDrain(q) ==
  /\ proc[q].pc = "drain" /\ tx[q] # <<>>
  /\ send_burst(tx[q]) /\ tx' = [tx EXCEPT ![q] = <<>>]
  /\ AfterDrain(q)
  /\ UNCHANGED <<dispatch, kni, knictl, flag>>

NoDrain(q) ==
  /\ proc[q].pc = "drain" /\ AfterDrain(q)
  /\ UNCHANGED <<pool, dispatch, kni, tx, knictl, flag, seen, gone>>

\* ff_kni_process: the kernel takes some of the burst, the rest is freed.  (What
\* comes from the kernel goes straight to the NIC or is freed, kni_process_rx.)
ff_kni_process(q) ==
  /\ proc[q].pc = "kni" /\ Goto(q, "ring")
  /\ LET n == BurstOf(kni) IN
       /\ \E k \in 0..n : /\ seen' = Given(Kernel, SubSeq(kni, 1, k))
                          /\ gone' = Dropped(SubSeq(kni, k + 1, n))
       /\ pool' = pool + n
       /\ kni' = Drop(kni, n)
  /\ UNCHANGED <<dispatch, tx, knictl, flag>>

\* process_dispatch_ring
process_dispatch_ring(q) ==
  /\ proc[q].pc = "ring"
  /\ LET n == BurstOf(dispatch[q]) IN
       /\ proc' = [proc EXCEPT ![q].burst = SubSeq(dispatch[q], 1, n),
                     ![q].ring = n > 0, ![q].pc = IF n = 0 THEN "rx" ELSE "packet"]
       /\ dispatch' = [dispatch EXCEPT ![q] = Drop(@, n)]
  /\ UNCHANGED <<pool, kni, tx, knictl, flag, seen, gone>>

\* Where buffers are, and the frames in them.
Holders == ({"dispatch", "burst", "tx"} \X Queues) \cup {<<"kni", Primary>>}
Content == [h \in Holders |-> CASE h[1] = "dispatch" -> dispatch[h[2]]
                                [] h[1] = "burst"    -> proc[h[2]].burst
                                [] h[1] = "tx"       -> tx[h[2]]
                                [] OTHER             -> kni]

\* The frames that are in a buffer, and those that have neither arrived nor been
\* sent yet.
InBuffers == UNION {ToSet(Content[h]) : h \in Holders}
New == {f \in Frames \ (gone \cup InBuffers) : \A s \in Sinks : seen[f][s] = 0}

\* rte_eth_rx_burst: nothing, or frames that have arrived, in buffers the driver
\* has taken from the pool.
rx_burst(q) ==
  /\ proc[q].pc = "rx"
  /\ \/ Goto(q, "loop") /\ UNCHANGED pool
     \/ \E S \in SUBSET {f \in New : FilterOf[f] # "OUT"} :
          /\ S # {} /\ IsFiniteSet(S)
          /\ Cardinality(S) <= MAX_PKT_BURST /\ Cardinality(S) <= pool
          /\ \E s \in SetToSeqs(S) :
               proc' = [proc EXCEPT ![q].burst = s, ![q].pc = "packet"]
          /\ pool' = pool - Cardinality(S)
  /\ UNCHANGED <<dispatch, kni, tx, knictl, flag, seen, gone>>

-----------------------------------------------------------------------------
(***************************************************************************)
(* process_packets, packet by packet.                                      *)
(***************************************************************************)
\* "enqueue the packet, and own it"
ff_kni_enqueue(f) ==
  IF Len(kni) < RingCapacity
  THEN kni' = Append(kni, f) /\ UNCHANGED <<pool, gone>>
  ELSE pool' = pool + 1 /\ gone' = gone \cup {f} /\ UNCHANGED kni

\* Mutant of ff_veth_process_packet: the loop over a batch stops one packet short.
ff_veth_process_packet_Short(q, free) ==
  IF flag[q] < Warmup
  THEN pool' = free + 1 /\ flag' = [flag EXCEPT ![q] = @ + 1]
  ELSE IF flag[q] < Warmup + Slots - 1
  THEN pool' = free /\ flag' = [flag EXCEPT ![q] = @ + 1]
  ELSE pool' = free + Slots - 1 /\ flag' = [flag EXCEPT ![q] = Warmup]

\* ff_veth_process_packet, with free buffers left in the pool: the packet goes to
\* the stack, or is held, or goes to the stack with all that are held.
ff_veth_process_packet(q, free) ==
  IF flag[q] < Warmup
  THEN pool' = free + 1 /\ flag' = [flag EXCEPT ![q] = @ + 1]
  ELSE IF flag[q] < Warmup + Slots - 1
  THEN pool' = free /\ flag' = [flag EXCEPT ![q] = @ + 1]
  ELSE pool' = free + Slots /\ flag' = [flag EXCEPT ![q] = Warmup]

\* ff_veth_input: a bad checksum or no mbuf header, or the interface is handed the
\* packet.
ff_veth_input(q, f, free) ==
  \/ /\ gone' = gone \cup {f} /\ pool' = free + 1
     /\ UNCHANGED <<flag, seen>>
  \/ /\ seen' = Given(q, <<f>>) /\ ff_veth_process_packet(q, free)
     /\ UNCHANGED gone

Asked(q) == q \in Dispatchers /\ ~proc[q].ring

\* The dispatcher answers the packet itself: FF_DISPATCH_RESPONSE.
Respond(q) ==
  /\ proc[q].pc = "packet" /\ Asked(q)
  /\ send_single_packet(q, Pkt(q))
  /\ NextPacket(q)
  /\ UNCHANGED <<dispatch, kni, knictl, flag>>

\* FF_DISPATCH_ERROR, or a queue that does not exist.
Discard(q) ==
  /\ proc[q].pc = "packet" /\ Asked(q)
  /\ pool' = pool + 1 /\ gone' = gone \cup {Pkt(q)}
  /\ NextPacket(q)
  /\ UNCHANGED <<dispatch, kni, tx, knictl, flag, seen>>

\* Another process' queue; the packet is freed when its ring is full.
HandOver(q) ==
  /\ proc[q].pc = "packet" /\ Asked(q)
  /\ \E j \in Queues \ {q} :
       IF Len(dispatch[j]) < RingCapacity
       THEN dispatch' = [dispatch EXCEPT ![j] = Append(@, Pkt(q))] /\ UNCHANGED pool
       ELSE pool' = pool + 1 /\ UNCHANGED dispatch
  /\ gone' = gone \cup {Pkt(q)}
  /\ NextPacket(q)
  /\ UNCHANGED <<kni, tx, knictl, flag, seen>>

\* Mutant of Filter: an ARP packet from the ring is copied once more.
Filter_Again(q) ==
  /\ proc[q].pc = "packet"
  /\ Goto(q, IF FilterOf[Pkt(q)] = "FILTER_ARP" THEN "copy" ELSE "input")
  /\ UNCHANGED <<pool, dispatch, kni, tx, knictl, flag, seen, gone>>

\* The packet stays.  ARP that did not come through a ring is copied first.
Filter(q) ==
  /\ proc[q].pc = "packet"
  /\ Goto(q, IF FilterOf[Pkt(q)] = "FILTER_ARP" /\ ~proc[q].ring
             THEN "copy" ELSE "input")
  /\ UNCHANGED <<pool, dispatch, kni, tx, knictl, flag, seen, gone>>

Copied(q) ==
  LET j == (proc[q].to + 1) % NbQueues IN
  proc' = [proc EXCEPT ![q].to = j, ![q].pc = IF j = 0 THEN "input" ELSE "copy"]

\* Mutant of Copy: the copies begin after the process' own queue.
Copy_Later(q) ==
  LET j == proc[q].to IN
  /\ proc[q].pc = "copy" /\ Copied(q)
  /\ IF j <= q \/ pool = 0 \/ Len(dispatch[j]) = RingCapacity
     THEN /\ gone' = IF j <= q THEN gone ELSE gone \cup {Pkt(q)}
          /\ UNCHANGED <<pool, dispatch>>
     ELSE /\ dispatch' = [dispatch EXCEPT ![j] = Append(@, Pkt(q))]
          /\ pool' = pool - 1 /\ UNCHANGED gone
  /\ UNCHANGED <<kni, tx, knictl, flag, seen>>

\* pktmbuf_deep_clone for the next queue but one's own, and its ring: nothing when
\* the pool is empty, and the copy is freed when the ring is full.
Copy(q) ==
  LET j == proc[q].to IN
  /\ proc[q].pc = "copy" /\ Copied(q)
  /\ IF j = q \/ pool = 0 \/ Len(dispatch[j]) = RingCapacity
     THEN /\ gone' = IF j = q THEN gone ELSE gone \cup {Pkt(q)}
          /\ UNCHANGED <<pool, dispatch>>
     ELSE /\ dispatch' = [dispatch EXCEPT ![j] = Append(@, Pkt(q))]
          /\ pool' = pool - 1 /\ UNCHANGED gone
  /\ UNCHANGED <<kni, tx, knictl, flag, seen>>

\* ARP: the primary process gives the kernel a copy, when it gets a buffer for it
\* and the ring has room, and its interface the packet.
InputArp(q) ==
  LET copy == EnableKni /\ q = Primary /\ pool > 0 /\ Len(kni) < RingCapacity IN
  /\ proc[q].pc = "input" /\ FilterOf[Pkt(q)] = "FILTER_ARP"
  /\ kni' = IF copy THEN Append(kni, Pkt(q)) ELSE kni
  /\ ff_veth_input(q, Pkt(q), IF copy THEN pool - 1 ELSE pool)
  /\ NextPacket(q)
  /\ UNCHANGED <<dispatch, tx, knictl>>

\* Whether a packet that is not ARP is the kernel's.
ToKni(q, filter) ==
  /\ EnableKni
  /\ \/ knictl[q] = "ALL_TO_KNI"
     \/ /\ knictl[q] = "DEFAULT"
        /\ filter = IF KniAccept THEN "FILTER_KNI" ELSE "FILTER_UNKNOWN"

InputOther(q) ==
  /\ proc[q].pc = "input" /\ FilterOf[Pkt(q)] # "FILTER_ARP"
  /\ IF ToKni(q, FilterOf[Pkt(q)])
     THEN ff_kni_enqueue(Pkt(q)) /\ UNCHANGED <<flag, seen>>
     ELSE ff_veth_input(q, Pkt(q), pool) /\ UNCHANGED kni
  /\ NextPacket(q)
  /\ UNCHANGED <<dispatch, tx, knictl>>

-----------------------------------------------------------------------------
\* The rest of a turn: process_msg_ring, where ff_knictl may have asked for
\* another action, and the application.
Loop(q) ==
  /\ proc[q].pc = "loop" /\ Goto(q, "drain")
  /\ \/ UNCHANGED knictl
     \/ EnableKni /\ \E a \in KniActions : knictl' = [knictl EXCEPT ![q] = a]
  /\ UNCHANGED <<pool, dispatch, kni, tx, flag, seen, gone>>

\* ff_dpdk_if_send: what the stack sends is copied into a buffer of the pool, or
\* given up when there is none.  (The stack also sends while it is given packets
\* and from its timers; to the table and the pool that is a send after the turn.)
ff_dpdk_if_send(q) ==
  /\ proc[q].pc = "loop"
  /\ \E f \in New :
       /\ FilterOf[f] = "OUT"
       /\ IF pool = 0
          THEN gone' = gone \cup {f} /\ UNCHANGED <<pool, proc>>
          ELSE /\ pool' = pool - 1
               /\ proc' = [proc EXCEPT ![q].pc = "send", ![q].burst = <<f>>]
               /\ UNCHANGED gone
  /\ UNCHANGED <<dispatch, kni, tx, knictl, flag, seen>>

\* ... and queued.
SendCopy(q) ==
  /\ proc[q].pc = "send"
  /\ send_single_packet(q, Pkt(q))
  /\ proc' = [proc EXCEPT ![q].pc = "loop", ![q].burst = <<>>]
  /\ UNCHANGED <<dispatch, kni, knictl, flag>>

main_loop(q) ==
  \/ TxDrain(q) \/ NoDrain(q) \/ ff_kni_process(q) \/ process_dispatch_ring(q)
  \/ rx_burst(q) \/ Respond(q) \/ Discard(q) \/ HandOver(q) \/ Filter(q)
  \/ Copy(q) \/ InputArp(q) \/ InputOther(q) \/ SendCopy(q) \/ Loop(q)

Next == \E q \in Queues : main_loop(q) \/ ff_dpdk_if_send(q)

Spec == Init /\ [][Next]_vars

\* Every process polls on a core of its own.  drain_tsc is a fixed time: a table
\* that waits is sent in one of the next turns.
FairSpec ==
  Spec /\ \A q \in Queues : WF_vars(main_loop(q)) /\ SF_vars(TxDrain(q))

-----------------------------------------------------------------------------
(***************************************************************************)
(* Why a frame has one receiver.  An ARP packet is an original until its   *)
(* process is through with copying it, and there are copies only for the   *)
(* queues it has passed.                                                   *)
(***************************************************************************)
Has(f, h) == f \in ToSet(Content[h])
In(f, k, q) == Has(f, <<k, q>>)

ControlInv ==
  \A q \in Queues :
    /\ proc[q].burst # <<>> <=> proc[q].pc \in {"packet", "copy", "input", "send"}
    /\ proc[q].ring => proc[q].pc \in {"packet", "input"}
    /\ proc[q].to # 0 => proc[q].pc = "copy"
    /\ proc[q].pc = "copy" => FilterOf[Pkt(q)] = "FILTER_ARP"
    /\ proc[q].pc = "send" => Len(proc[q].burst) = 1 /\ FilterOf[Pkt(q)] = "OUT"

OnceInv == \A h \in Holders : IsInjective(Content[h])

\* A frame that is not ARP is in one place, or one sink was given it.
Single(f) ==
  /\ \A g, h \in Holders : Has(f, g) /\ Has(f, h) => g = h
  /\ \A h \in Holders : Has(f, h) => \A s \in Sinks : seen[f][s] = 0
  /\ \A s, t \in Sinks : seen[f][s] > 0 /\ seen[f][t] > 0 => s = t
  /\ \A s \in Sinks : seen[f][s] <= 1

\* Nothing has been made of ARP packet f for queue j yet.
Fresh(f, j) ==
  /\ ~In(f, "dispatch", j) /\ ~In(f, "burst", j) /\ seen[f][j] = 0
  /\ j = Primary => ~In(f, "kni", Primary) /\ seen[f][Kernel] = 0

Original(f, q) == In(f, "burst", q) /\ ~proc[q].ring

\* Process q has still to copy f for queue j.
ToCopy(f, q, j) ==
  ~(f = Pkt(q) /\ (proc[q].pc = "input" \/ (proc[q].pc = "copy" /\ j < proc[q].to)))

\* No interface has or gets two of ARP packet f, nor the kernel, nor the wire.
Spread(f) ==
  /\ \A s \in Sinks : seen[f][s] <= 1
  /\ \A q \in Queues :
       /\ ~(In(f, "dispatch", q) /\ In(f, "burst", q))
       /\ In(f, "dispatch", q) \/ In(f, "burst", q) => seen[f][q] = 0
       /\ In(f, "tx", q) => seen[f][Wire] = 0
  /\ In(f, "kni", Primary) => seen[f][Kernel] = 0
  /\ In(f, "kni", Primary) \/ seen[f][Kernel] > 0 =>
       ~In(f, "dispatch", Primary) /\ ~In(f, "burst", Primary)
  /\ \A q, j \in Queues : In(f, "tx", q) /\ In(f, "tx", j) => q = j
  /\ \A q \in Queues : Original(f, q) =>
       /\ seen[f][Wire] = 0
       /\ \A j \in Queues : ~In(f, "tx", j)
       /\ \A j \in Queues \ {q} : ~Original(f, j) /\ (ToCopy(f, q, j) => Fresh(f, j))

FrameInv ==
  \A f \in Frames : IF FilterOf[f] = "FILTER_ARP" THEN Spread(f) ELSE Single(f)

\* The inductive invariant: nothing is copied, counted or sent twice, wherever the
\* processes are in their loops (process_packets, send_single_packet).
DispatchInv == TypeOK /\ ControlInv /\ OnceInv /\ FrameInv

-----------------------------------------------------------------------------
\* The buffers in rings, bursts and tables, and those of the packets that the
\* interface code of the processes holds in pkt_m.
Places(C) == UNION {{<<h, i>> : i \in 1..Len(C[h])} : h \in Holders}
Held(n) == IF n > Warmup THEN n - Warmup ELSE 0
HeldPlaces(F) == UNION {{<<q, i>> : i \in 1..Held(F[q])} : q \in Queues}

\* Every buffer is in one place: free, once in one ring, burst or table, or held
\* for one interface.  None is freed twice, sent twice or forgotten, whichever ring
\* is full, whether or not the pool is empty, and over the batches of
\* ff_veth_process_packet.
Conserved ==
  pool + Cardinality(HeldPlaces(flag)) + Cardinality(Places(Content)) = NbMbufs

\* The interface of a process is handed an ARP packet once, however many processes
\* copy packets to each other, and any other packet has one receiver
\* (pkts_from_ring).
OneReceiver ==
  \A f \in Frames :
    /\ \A s \in Sinks : seen[f][s] <= 1
    /\ FilterOf[f] # "FILTER_ARP" => Cardinality({s \in Sinks : seen[f][s] > 0}) <= 1

\* Every frame leaves the rings, the bursts and the tables of packets to send:
\* none stays there for ever.  (In pkt_m it may: VethBatch.)
BuffersReturn == \A f \in Frames : f \in InBuffers ~> f \notin InBuffers

\* An ARP packet is handed to the interface of every process (ff_veth_input),
\* unless a ring was full, the pool empty or the packet bad, or a dispatcher has
\* decided about it.  When the stack gets it is up to the batching of
\* ff_veth_process_packet: VethBatch.
ArpHandedToAll ==
  \A f \in Frames : FilterOf[f] = "FILTER_ARP" =>
    (f \in InBuffers ~> (f \in gone \/ seen[f][Wire] > 0 \/ \A q \in Queues : seen[f][q] > 0))
=============================================================================
