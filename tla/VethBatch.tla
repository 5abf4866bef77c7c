------------------------------ MODULE VethBatch ------------------------------
(***************************************************************************)
(* Batching of received packets in lib_modify: ff_veth_input of            *)
(* ff_dpdk_if.c hands every packet to ff_veth_process_packet of ff_veth.c, *)
(* which gives the first Warmup packets straight to the interface and from *)
(* then on collects them in pkt_arg/pkt_m until all Slots are used.  The   *)
(* code's numbers are Warmup = 10 and Slots = 128 (so its 137 is           *)
(* Warmup + Slots - 1).  Everything runs on the thread of main_loop; the   *)
(* buffer is shared by all the interfaces.                                 *)
(***************************************************************************)
EXTENDS Integers, Sequences

CONSTANTS Warmup, Slots,
          Ifs,        \* interfaces
          MaxPkts,    \* bound on the packets received
          MaxTime     \* bound on the clock, in seconds

ASSUME BatchAssumption == Warmup \in Nat /\ Slots \in Nat \ {0}
ASSUME BoundAssumption == MaxPkts \in Nat /\ MaxTime \in Nat \ {0}

VARIABLES
  flag,       \* packets seen, back to Warmup after every batch
  pkt_arg,    \* the interface of each buffered packet
  pkt_m,      \* the buffered packets
  t_receive,  \* the static t_receive of ff_dpdk_if.h, as ff_dpdk_if.c has it
  t_veth,     \* the same variable, as ff_veth.c has it: a copy of its own
  now,        \* the time of day, in seconds
  received,   \* history: the packets handed to ff_veth_process_packet
  delivered   \* history: the packets given to if_input

vars == <<flag, pkt_arg, pkt_m, t_receive, t_veth, now, received, delivered>>

Packet == [ifp : Ifs, m : Nat]
NULL   == -1
Index  == 0..(Slots - 1)

\* An element of the two arrays that holds no packet is NULL in both.
TypeOK ==
  /\ flag \in 0..(Warmup + Slots - 1)
  /\ pkt_arg \in [Index -> Ifs \cup {NULL}]
  /\ pkt_m \in [Index -> Nat \cup {NULL}]
  /\ t_receive \in Nat /\ t_veth \in Nat
  /\ now \in Nat \ {0}
  /\ received \in Seq(Packet)
  /\ delivered \in Seq(Packet)

Empty == [i \in Index |-> NULL]

Init ==
  /\ flag = 0
  /\ pkt_arg = Empty /\ pkt_m = Empty
  /\ t_receive = 0 /\ t_veth = 0 /\ now = 1
  /\ received = <<>> /\ delivered = <<>>

\* if_input for the buffered packets 0 .. k-1, in order.
Batch(arg, m, k) == [i \in 1..k |-> [ifp |-> arg[i - 1], m |-> m[i - 1]]]

-----------------------------------------------------------------------------
\* The three things ff_veth_process_packet does with a packet p.
Direct(p) ==
  /\ delivered' = Append(delivered, p)
  /\ flag' = flag + 1
  /\ UNCHANGED <<pkt_arg, pkt_m>>

Hold(p) ==
  /\ pkt_arg' = [pkt_arg EXCEPT ![flag - Warmup] = p.ifp]
  /\ pkt_m' = [pkt_m EXCEPT ![flag - Warmup] = p.m]
  /\ flag' = flag + 1
  /\ UNCHANGED delivered

\* Mutants of Flush: flag is not reset, and the loop stops one packet short.
Flush_NoReset(p) ==
  LET k == flag - Warmup IN
  /\ delivered' = delivered \o Batch([pkt_arg EXCEPT ![k] = p.ifp],
                                     [pkt_m EXCEPT ![k] = p.m], k + 1)
  /\ flag' = flag + 1
  /\ pkt_arg' = Empty /\ pkt_m' = Empty

Flush_DropsLast(p) ==
  /\ delivered' = delivered \o Batch(pkt_arg, pkt_m, flag - Warmup)
  /\ flag' = Warmup
  /\ pkt_arg' = Empty /\ pkt_m' = Empty

\* The label handler: the packet goes into its slot and the whole buffer out.
Flush(p) ==
  LET k == flag - Warmup IN
  /\ delivered' = delivered \o Batch([pkt_arg EXCEPT ![k] = p.ifp],
                                     [pkt_m EXCEPT ![k] = p.m], k + 1)
  /\ flag' = Warmup
  /\ pkt_arg' = Empty /\ pkt_m' = Empty

\* Mutant of ff_veth_process_packet: one packet too many is held.
OneTooMany(p, tv) ==
  /\ t_receive' = tv
  /\ IF flag < Warmup THEN Direct(p)
     ELSE IF flag < Warmup + Slots THEN Hold(p) ELSE Flush(p)

\* With tv the time of receipt.  define_gettimeofday ignores its argument and
\* sets ff_dpdk_if.c's t_receive, so t_now is never assigned and can be
\* anything; t_global is ff_veth.c's own copy of t_receive.
ff_veth_process_packet(p, tv) ==
  IF flag < Warmup
  THEN Direct(p) /\ t_receive' = tv
  ELSE IF flag < Warmup + Slots - 1 /\ tv > 0
  THEN /\ t_receive' = now
       /\ IF tv # t_veth
          THEN Hold(p)
          ELSE \E t_now \in 0..MaxTime :
                 IF t_now - tv * 1000 < 1000
                 THEN UNCHANGED <<flag, pkt_arg, pkt_m, delivered>>
                 ELSE Flush(p)
  ELSE Flush(p) /\ t_receive' = tv

\* A packet with a good checksum for which mbufs could be had reaches the
\* interface code, stamped with the time of day.
ff_veth_input ==
  \E i \in Ifs :
    LET p == [ifp |-> i, m |-> Len(received)] IN
    /\ Len(received) < MaxPkts
    /\ received' = Append(received, p)
    /\ ff_veth_process_packet(p, now)
    /\ UNCHANGED <<t_veth, now>>

\* A bad checksum, or no mbuf: the packet is freed, nothing else changes, so
\* such packets are no step of the model.

Tick ==
  /\ now < MaxTime
  /\ now' = now + 1
  /\ UNCHANGED <<flag, pkt_arg, pkt_m, t_receive, t_veth, received, delivered>>

Next == ff_veth_input \/ Tick

Spec == Init /\ [][Next]_vars

\* The clock goes on and main_loop keeps polling; packets need not come.
FairSpec == Spec /\ WF_vars(Tick)

-----------------------------------------------------------------------------
\* The packets that are being held back, oldest first.
Held == Batch(pkt_arg, pkt_m, IF flag < Warmup THEN 0 ELSE flag - Warmup)

\* Batching neither loses, duplicates nor reorders a packet, and hands it to the
\* interface it came in on: what was delivered and what is held is what was
\* received, although the buffer is shared by all interfaces.
NothingLost == received = delivered \o Held

\* The slot the next packet is stored in exists (pkt_arg and pkt_m have 128
\* elements and flag runs to 137), and no slot from there on is in use.
SlotFree ==
  /\ flag >= Warmup => flag - Warmup \in Index
  /\ \A i \in Index : i >= flag - Warmup => pkt_m[i] = NULL /\ pkt_arg[i] = NULL

\* The comment on the batching rules: packets that have waited longer than the
\* limit (1000 ms) are handed to the protocol stack.
HeldIsFlushed == Held # <<>> ~> Held = <<>>

\* Every slot below that one holds a packet.
SlotsUsed ==
  \A i \in Index : i < flag - Warmup => pkt_m[i] \in Nat /\ pkt_arg[i] \in Ifs

\* The inductive invariant: ff_veth.c's copy of t_receive stays 0, so the branch
\* that would return without storing the packet is never taken.
IInv == TypeOK /\ t_veth = 0 /\ NothingLost /\ SlotFree /\ SlotsUsed
=============================================================================
