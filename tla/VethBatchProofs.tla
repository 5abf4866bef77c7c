--------------------------- MODULE VethBatchProofs ---------------------------
(***************************************************************************)
(* Proofs about VethBatch, for every length of the warm-up and every size  *)
(* of the buffer: the batching loses, duplicates and reorders nothing and  *)
(* never leaves its arrays.                                                *)
(***************************************************************************)
EXTENDS VethBatch, SequenceTheorems, TLAPS

\* Extending both the received packets and the held ones by p keeps them equal.
LEMMA AppendConcat ==
  ASSUME NEW d \in Seq(Packet), NEW h \in Seq(Packet), NEW p \in Packet
  PROVE  Append(d \o h, p) = d \o Append(h, p)
  OBVIOUS

\* The sequence of the packets in slots 0 .. k-1.
LEMMA BatchType ==
  ASSUME NEW arg, NEW m, NEW k \in Nat,
         \A i \in 0..(k - 1) : arg[i] \in Ifs /\ m[i] \in Nat
  PROVE  Batch(arg, m, k) \in Seq(Packet) /\ Len(Batch(arg, m, k)) = k
  BY DEF Batch, Packet

\* Storing p in slot k appends it to the packets of the slots below.
LEMMA BatchAppend ==
  ASSUME NEW arg \in [Index -> Ifs \cup {NULL}], NEW m \in [Index -> Nat \cup {NULL}],
         NEW k \in Index, NEW p \in Packet,
         \A i \in 0..(k - 1) : arg[i] \in Ifs /\ m[i] \in Nat
  PROVE  Batch([arg EXCEPT ![k] = p.ifp], [m EXCEPT ![k] = p.m], k + 1)
           = Append(Batch(arg, m, k), p)
  <1> DEFINE a == [arg EXCEPT ![k] = p.ifp]
             n == [m EXCEPT ![k] = p.m]
             B == Batch(a, n, k + 1)
             A == Append(Batch(arg, m, k), p)
  <1>1. /\ Batch(arg, m, k) \in Seq(Packet) /\ Len(Batch(arg, m, k)) = k
        /\ k \in Nat
    BY BatchType, BatchAssumption DEF Index
  <1>2. a \in [Index -> Ifs \cup {NULL}] /\ n \in [Index -> Nat \cup {NULL}]
    BY DEF Packet
  <1>3. \A i \in 0..(k + 1 - 1) : a[i] \in Ifs /\ n[i] \in Nat
    BY BatchAssumption DEF Packet, Index
  <1>4. B \in Seq(Packet) /\ Len(B) = k + 1
    <2> HIDE DEF a, n
    <2> QED BY <1>1, <1>3 DEF Batch, Packet
  <1>5. A \in Seq(Packet) /\ Len(A) = k + 1
    BY <1>1
  <1>6. ASSUME NEW i \in 1..(k + 1) PROVE B[i] = A[i]
    <2>1. B[i] = [ifp |-> a[i - 1], m |-> n[i - 1]]
      BY <1>1 DEF Batch
    <2>2. CASE i = k + 1
      <3>1. A[i] = p
        BY <1>1, <2>2
      <3>2. a[k] = p.ifp /\ n[k] = p.m
        OBVIOUS
      <3> QED BY <1>1, <2>1, <2>2, <3>1, <3>2 DEF Packet
    <2>3. CASE i # k + 1
      <3>1. i \in 1..k /\ A[i] = Batch(arg, m, k)[i]
        BY <1>1, <2>3
      <3>2. a[i - 1] = arg[i - 1] /\ n[i - 1] = m[i - 1]
        BY <1>1, <3>1 DEF Index
      <3> QED BY <1>1, <2>1, <3>1, <3>2 DEF Batch
    <2> QED BY <2>2, <2>3
  <1> HIDE DEF A, B
  <1>7. B = A
    BY <1>1, <1>4, <1>5, <1>6, SeqEqual
  <1> QED BY <1>7 DEF A, B

-----------------------------------------------------------------------------
LEMMA InitIInv == Init => IInv
  <1> SUFFICES ASSUME Init PROVE IInv
    OBVIOUS
  <1>1. TypeOK
    BY BatchAssumption DEF Init, TypeOK, Empty, Index, NULL
  <1>2. SlotFree /\ SlotsUsed
    BY BatchAssumption DEF Init, SlotFree, SlotsUsed, Empty, Index
  <1>3. Held = <<>>
    BY BatchAssumption DEF Init, Held, Batch
  <1>4. NothingLost
    BY <1>3 DEF Init, NothingLost
  <1> QED BY <1>1, <1>2, <1>4 DEF IInv, Init

\* The two steps that touch the packets, with the new packet p.
LEMMA DirectIInv ==
  ASSUME IInv, NEW p \in Packet, flag < Warmup, Direct(p),
         received' = Append(received, p), t_receive' \in Nat,
         UNCHANGED <<t_veth, now>>
  PROVE  IInv'
  <1>1. TypeOK'
    BY BatchAssumption DEF IInv, TypeOK, Direct
  <1>2. SlotFree' /\ SlotsUsed'
    BY BatchAssumption DEF IInv, TypeOK, Direct, SlotFree, SlotsUsed, Index
  <1>3. Held = <<>> /\ Held' = <<>>
    BY BatchAssumption DEF IInv, TypeOK, Direct, Held, Batch
  <1>4. NothingLost'
    BY <1>3 DEF IInv, TypeOK, Direct, NothingLost
  <1> QED BY <1>1, <1>2, <1>4 DEF IInv

\* What is held is a sequence of packets, and p goes after it.
LEMMA HeldFacts ==
  ASSUME IInv, flag >= Warmup, NEW p \in Packet
  PROVE  LET k == flag - Warmup IN
         /\ Held = Batch(pkt_arg, pkt_m, k)
         /\ Held \in Seq(Packet)
         /\ Batch([pkt_arg EXCEPT ![k] = p.ifp], [pkt_m EXCEPT ![k] = p.m], k + 1)
              = Append(Held, p)
         /\ Append(received, p) = delivered \o Append(Held, p)
  <1> DEFINE k == flag - Warmup
  <1>1. k \in Index /\ k \in Nat
    BY BatchAssumption DEF IInv, TypeOK, SlotFree
  <1>2. Held = Batch(pkt_arg, pkt_m, k)
    BY BatchAssumption DEF IInv, TypeOK, Held
  <1>3. \A i \in 0..(k - 1) : pkt_arg[i] \in Ifs /\ pkt_m[i] \in Nat
    BY <1>1, BatchAssumption DEF IInv, TypeOK, SlotsUsed, Index
  <1>4. pkt_arg \in [Index -> Ifs \cup {NULL}] /\ pkt_m \in [Index -> Nat \cup {NULL}]
    BY DEF IInv, TypeOK
  <1> HIDE DEF k
  <1>5. Held \in Seq(Packet)
    BY <1>1, <1>2, <1>3, BatchType
  <1>6. Batch([pkt_arg EXCEPT ![k] = p.ifp], [pkt_m EXCEPT ![k] = p.m], k + 1)
          = Append(Held, p)
    BY <1>1, <1>2, <1>3, <1>4, BatchAppend
  <1>7. delivered \in Seq(Packet) /\ received = delivered \o Held
    BY DEF IInv, TypeOK, NothingLost
  <1>8. Append(received, p) = delivered \o Append(Held, p)
    <2>1. Append(delivered \o Held, p) = delivered \o Append(Held, p)
      BY <1>5, <1>7, AppendConcat
    <2> QED BY <1>7, <2>1
  <1> QED BY <1>2, <1>5, <1>6, <1>8 DEF k

LEMMA HoldIInv ==
  ASSUME IInv, NEW p \in Packet, flag >= Warmup, flag < Warmup + Slots - 1, Hold(p),
         received' = Append(received, p), t_receive' \in Nat,
         UNCHANGED <<t_veth, now>>
  PROVE  IInv'
  <1>1. TypeOK'
    BY BatchAssumption DEF IInv, TypeOK, Hold, Packet, Index
  <1>2. SlotFree'
    BY BatchAssumption DEF IInv, TypeOK, Hold, SlotFree, Index
  <1>3. SlotsUsed'
    BY BatchAssumption DEF IInv, TypeOK, Hold, SlotsUsed, Index, Packet
  <1>4. Held' = Append(Held, p)
    <2>1. Held' = Batch([pkt_arg EXCEPT ![flag - Warmup] = p.ifp],
                        [pkt_m EXCEPT ![flag - Warmup] = p.m], flag - Warmup + 1)
      BY BatchAssumption DEF IInv, TypeOK, Hold, Held
    <2> QED BY <2>1, HeldFacts
  <1>5. NothingLost'
    BY <1>4, HeldFacts DEF Hold, NothingLost
  <1> QED BY <1>1, <1>2, <1>3, <1>5 DEF IInv

LEMMA FlushIInv ==
  ASSUME IInv, NEW p \in Packet, flag >= Warmup, Flush(p),
         received' = Append(received, p), t_receive' \in Nat,
         UNCHANGED <<t_veth, now>>
  PROVE  IInv'
  <1> DEFINE h == Append(Held, p)
  <1>0. Held \in Seq(Packet) /\ Append(received, p) = delivered \o h
    BY HeldFacts
  <1>1. delivered' = delivered \o h
    BY HeldFacts DEF Flush
  <1>2. delivered' \in Seq(Packet)
    <2>1. delivered \in Seq(Packet) /\ h \in Seq(Packet)
      BY <1>0 DEF IInv, TypeOK
    <2> HIDE DEF h
    <2> QED BY <1>1, <2>1
  <1>3. TypeOK'
    <2>1. received' \in Seq(Packet)
      BY DEF IInv, TypeOK
    <2>2. flag' \in 0..(Warmup + Slots - 1)
      BY BatchAssumption DEF Flush
    <2>3. pkt_arg' \in [Index -> Ifs \cup {NULL}] /\ pkt_m' \in [Index -> Nat \cup {NULL}]
      BY DEF Flush, Empty
    <2> QED BY <1>2, <2>1, <2>2, <2>3 DEF IInv, TypeOK
  <1>4. SlotFree' /\ SlotsUsed'
    BY BatchAssumption DEF IInv, TypeOK, Flush, SlotFree, SlotsUsed, Index, Empty
  <1>5. Held' = <<>>
    BY BatchAssumption DEF Flush, Held, Batch
  <1>6. NothingLost'
    <2>1. received' = delivered'
      BY <1>0, <1>1
    <2>2. delivered' \o <<>> = delivered'
      BY <1>2
    <2> QED BY <1>5, <2>1, <2>2 DEF NothingLost
  <1> QED BY <1>3, <1>4, <1>6 DEF IInv

\* Every step keeps the invariant; t_veth = 0 < now decides the inner test.
LEMMA NextIInv == IInv /\ [Next]_vars => IInv'
  <1> SUFFICES ASSUME IInv, [Next]_vars PROVE IInv'
    OBVIOUS
  <1>1. CASE ff_veth_input
    <2>1. PICK i \in Ifs :
            LET p == [ifp |-> i, m |-> Len(received)] IN
              /\ received' = Append(received, p)
              /\ ff_veth_process_packet(p, now)
              /\ UNCHANGED <<t_veth, now>>
      BY <1>1 DEF ff_veth_input
    <2> DEFINE p == [ifp |-> i, m |-> Len(received)]
    <2>2. p \in Packet /\ now \in Nat /\ now > 0 /\ t_veth = 0 /\ now # t_veth
      BY DEF IInv, TypeOK, Packet
    <2>3. received' = Append(received, p) /\ UNCHANGED <<t_veth, now>>
      BY <2>1
    <2>4. ff_veth_process_packet(p, now)
      BY <2>1
    <2>5. flag \in Nat /\ Warmup \in Nat /\ Slots \in Nat
      BY BatchAssumption DEF IInv, TypeOK
    <2> HIDE DEF p
    <2>6. CASE flag < Warmup
      BY <2>2, <2>3, <2>4, <2>6, DirectIInv DEF ff_veth_process_packet
    <2>7. CASE flag >= Warmup /\ flag < Warmup + Slots - 1
      BY <2>2, <2>3, <2>4, <2>5, <2>7, HoldIInv DEF ff_veth_process_packet
    <2>8. CASE flag >= Warmup /\ ~(flag < Warmup + Slots - 1)
      BY <2>2, <2>3, <2>4, <2>5, <2>8, FlushIInv DEF ff_veth_process_packet
    <2> QED BY <2>5, <2>6, <2>7, <2>8
  <1>2. CASE Tick
    <2>1. TypeOK' /\ t_veth' = 0 /\ SlotFree' /\ SlotsUsed'
      BY <1>2 DEF Tick, IInv, TypeOK, SlotFree, SlotsUsed
    <2>2. Held' = Held
      BY <1>2 DEF Tick, Held
    <2> QED BY <1>2, <2>1, <2>2 DEF Tick, IInv, NothingLost
  <1>3. CASE UNCHANGED vars
    <2>1. TypeOK' /\ t_veth' = 0 /\ SlotFree' /\ SlotsUsed'
      BY <1>3 DEF vars, IInv, TypeOK, SlotFree, SlotsUsed
    <2>2. Held' = Held
      BY <1>3 DEF vars, Held
    <2> QED BY <1>3, <2>1, <2>2 DEF vars, IInv, NothingLost
  <1> QED BY <1>1, <1>2, <1>3 DEF Next

LEMMA SpecIInv == Spec => []IInv
  BY InitIInv, NextIInv, PTL DEF Spec

\* The variables of ff_veth_process_packet keep their types: in particular flag
\* never exceeds Warmup + Slots - 1.
THEOREM TypeCorrect == Spec => []TypeOK
  <1>1. IInv => TypeOK
    BY DEF IInv
  <1> QED BY <1>1, SpecIInv, PTL

\* Whatever the size of the buffer and however long the warm-up, batching loses,
\* duplicates and reorders no packet and gives it to its own interface.
THEOREM BatchingLosesNothing == Spec => []NothingLost
  <1>1. IInv => NothingLost
    BY DEF IInv
  <1> QED BY <1>1, SpecIInv, PTL

\* ff_veth_process_packet never stores outside pkt_arg and pkt_m, nor over a
\* packet that is still held.
THEOREM SlotAlwaysFree == Spec => []SlotFree
  <1>1. IInv => SlotFree
    BY DEF IInv
  <1> QED BY <1>1, SpecIInv, PTL
=============================================================================
