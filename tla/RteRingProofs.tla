---------------------------- MODULE RteRingProofs ----------------------------
(***************************************************************************)
(* Proofs about RteRing, for every size, word, number of producers and     *)
(* consumers and set of objects.                                           *)
(***************************************************************************)
EXTENDS RteRing, SequenceTheorems, FiniteSetTheorems, TLAPS

(***************************************************************************)
(* Arithmetic of the indices.                                              *)
(***************************************************************************)
LEMMA WordFacts == Word >= 2 * Size /\ Word \in Nat /\ Size \in Nat /\ Size >= 2
  BY RingAssumption

LEMMA MinusIs ==
  ASSUME NEW a \in Index, NEW b \in Index
  PROVE  Minus(a, b) \in Index /\ Minus(a, b) = IF a >= b THEN a - b ELSE a + Word - b
  BY WordFacts DEF Minus, Index

LEMMA NextIs ==
  ASSUME NEW a \in Index
  PROVE  Plus(a, 1) \in Index /\ Plus(a, 1) = IF a + 1 = Word THEN 0 ELSE a + 1
  BY WordFacts DEF Plus, Index

LEMMA PlusIs ==
  ASSUME NEW a \in Index, NEW k \in 0..Word
  PROVE  Plus(a, k) \in Index /\ Plus(a, k) = IF a + k < Word THEN a + k ELSE a + k - Word
  BY WordFacts DEF Plus, Index

LEMMA FullIs ==
  ASSUME NEW a \in Index, NEW b \in Index
  PROVE  Minus(Plus(Capacity, a), b) = 0 <=> Minus(b, a) = Capacity
  BY WordFacts DEF Minus, Plus, Index, Capacity

LEMMA SlotIs ==
  ASSUME NEW a \in Index
  PROVE  Slot(a) \in 0..(Size - 1)
  BY WordFacts DEF Slot, Index

\* Indices less than Size apart have different slots.
LEMMA SlotsApart ==
  ASSUME NEW a \in Index, NEW b \in Index, a # b, Minus(a, b) < Size
  PROVE  Slot(a) # Slot(b)
  <1> DEFINE d == Minus(a, b)
  <1>0. d \in Index /\ d = IF a >= b THEN a - b ELSE a + Word - b
    BY MinusIs
  <1>1. d \in 1..(Size - 1)
    BY <1>0, WordFacts DEF Index
  <1>2. a \in Nat /\ b \in Nat
    BY DEF Index
  <1>3. ASSUME Slot(a) = Slot(b) PROVE FALSE
    <2>1. a % Size = b % Size
      BY <1>3 DEF Slot
    <2>2. PICK k \in Int : a - b = Size * k
      <3>1. a = Size * (a \div Size) + (a % Size) /\ b = Size * (b \div Size) + (b % Size)
        BY <1>2, WordFacts
      <3>2. a \div Size \in Int /\ b \div Size \in Int /\ b % Size \in Int
        BY <1>2, WordFacts
      <3>3. a - b = Size * ((a \div Size) - (b \div Size))
        BY <2>1, <3>1, <3>2, <1>2, WordFacts
      <3> QED BY <3>2, <3>3
    <2>3. PICK w \in Int : Word = Size * w
      <3>1. Word = Size * (Word \div Size) + (Word % Size) /\ Word \div Size \in Int
        BY WordFacts
      <3> QED BY <3>1, WordFacts, RingAssumption
    <2>4. d = Size * k \/ d = Size * (k + w)
      <3>1. d = a - b \/ d = a - b + Word
        BY <1>0, WordFacts DEF Index
      <3> HIDE DEF d
      <3> QED BY <3>1, <2>2, <2>3, WordFacts
    <2>5. \A z \in Int : Size * z \notin 1..(Size - 1)
      BY WordFacts
    <2> QED BY <2>4, <2>5, <1>1
  <1> QED BY <1>3

\* The two facts above, for the values a step is about.
MinusFact(a, b) == Minus(a, b) = IF a >= b THEN a - b ELSE a + Word - b
NextFact(a) == Plus(a, 1) = IF a + 1 = Word THEN 0 ELSE a + 1

\* One more, one less.
LEMMA MinusNext ==
  ASSUME NEW a \in Index, NEW b \in Index
  PROVE  /\ Minus(b, a) < Word - 1 => Minus(Plus(b, 1), a) = Minus(b, a) + 1
         /\ a # b => Minus(b, Plus(a, 1)) = Minus(b, a) - 1
         /\ Minus(a, a) = 0 /\ (Minus(b, a) = 0 <=> a = b)
         /\ Minus(b, a) \in 0..(Word - 1)
  <1>1. /\ Plus(a, 1) \in Index /\ NextFact(a) /\ Plus(b, 1) \in Index /\ NextFact(b)
    BY NextIs DEF NextFact
  <1>2. /\ MinusFact(b, a) /\ MinusFact(a, a) /\ MinusFact(Plus(b, 1), a)
        /\ MinusFact(b, Plus(a, 1))
    BY <1>1, MinusIs DEF MinusFact
  <1> QED BY <1>1, <1>2, WordFacts DEF Index, MinusFact, NextFact

\* What happens to a window when one of its ends moves on.
LEMMA WindowNext ==
  ASSUME NEW a \in Index, NEW b \in Index
  PROVE  /\ Window(a, b) \subseteq Index /\ Window(a, a) = {}
         /\ a # b => Window(Plus(a, 1), b) = Window(a, b) \ {a} /\ a \in Window(a, b)
         /\ Minus(b, a) < Word - 1 =>
              Window(a, Plus(b, 1)) = Window(a, b) \cup {b} /\ b \notin Window(a, b)
  <1>1. Plus(a, 1) \in Index /\ Plus(b, 1) \in Index
    BY NextIs
  <1>2. /\ Minus(b, a) < Word - 1 => Minus(Plus(b, 1), a) = Minus(b, a) + 1
        /\ a # b => Minus(b, Plus(a, 1)) = Minus(b, a) - 1
        /\ Minus(a, a) = 0 /\ (Minus(b, a) = 0 <=> a = b) /\ Minus(b, a) \in 0..(Word - 1)
    BY MinusNext
  <1>3. Window(a, b) \subseteq Index
    BY DEF Window
  <1>4. ASSUME NEW i \in Window(a, a)  PROVE FALSE
    <2>1. i \in Index /\ Minus(i, a) < Minus(a, a)
      BY DEF Window
    <2>2. MinusFact(i, a) /\ MinusFact(a, a)
      BY <2>1, MinusIs DEF MinusFact
    <2> QED BY <2>1, <2>2, WordFacts DEF MinusFact, Index
  <1>5. ASSUME a # b
        PROVE  Window(Plus(a, 1), b) = Window(a, b) \ {a} /\ a \in Window(a, b)
    <2>1. a \in Window(a, b)
      BY <1>2, <1>5 DEF Window
    <2>2. ASSUME NEW i \in Index
          PROVE  i \in Window(Plus(a, 1), b) <=> i \in Window(a, b) /\ i # a
      <3>1. MinusFact(i, a) /\ MinusFact(b, a) /\ NextFact(a)
            /\ MinusFact(i, Plus(a, 1)) /\ MinusFact(b, Plus(a, 1))
        BY <1>1, MinusIs, NextIs DEF MinusFact, NextFact
      <3>2. Minus(i, Plus(a, 1)) < Minus(b, Plus(a, 1)) <=> Minus(i, a) < Minus(b, a) /\ i # a
        BY <3>1, <1>5, WordFacts DEF MinusFact, NextFact, Index
      <3> QED BY <3>2 DEF Window
    <2> QED BY <2>1, <2>2 DEF Window
  <1>6. ASSUME Minus(b, a) < Word - 1
        PROVE  Window(a, Plus(b, 1)) = Window(a, b) \cup {b} /\ b \notin Window(a, b)
    <2>1. b \notin Window(a, b)
      BY <1>2 DEF Window
    <2>2. ASSUME NEW i \in Index
          PROVE  i \in Window(a, Plus(b, 1)) <=> i \in Window(a, b) \/ i = b
      <3>1. MinusFact(i, a) /\ MinusFact(b, a)
        BY MinusIs DEF MinusFact
      <3>2. Minus(i, a) < Minus(b, a) + 1 <=> Minus(i, a) < Minus(b, a) \/ i = b
        BY <3>1, WordFacts DEF MinusFact, Index
      <3> QED BY <3>2, <1>2, <1>6 DEF Window
    <2> QED BY <2>1, <2>2, <1>1 DEF Window
  <1> QED BY <1>3, <1>4, <1>5, <1>6

\* Windows one after the other.
LEMMA WindowSplit ==
  ASSUME NEW a \in Index, NEW b \in Index, NEW c \in Index, Minus(b, a) <= Minus(c, a)
  PROVE  /\ Window(a, c) = Window(a, b) \cup Window(b, c)
         /\ Window(a, b) \cap Window(b, c) = {}
         /\ Minus(c, b) = Minus(c, a) - Minus(b, a)
  <1>1. MinusFact(b, a) /\ MinusFact(c, a) /\ MinusFact(c, b)
    BY MinusIs DEF MinusFact
  <1>2. Minus(c, b) = Minus(c, a) - Minus(b, a)
    BY <1>1, WordFacts DEF Index, MinusFact
  <1>3. ASSUME NEW i \in Index
        PROVE  /\ i \in Window(a, c) <=> i \in Window(a, b) \/ i \in Window(b, c)
               /\ ~(i \in Window(a, b) /\ i \in Window(b, c))
    <2>1. MinusFact(i, a) /\ MinusFact(i, b)
      BY MinusIs DEF MinusFact
    <2>2. /\ Minus(i, a) < Minus(c, a) <=> Minus(i, a) < Minus(b, a) \/ Minus(i, b) < Minus(c, b)
          /\ ~(Minus(i, a) < Minus(b, a) /\ Minus(i, b) < Minus(c, b))
      BY <1>1, <2>1, WordFacts DEF Index, MinusFact
    <2> QED BY <2>2 DEF Window
  <1> QED BY <1>2, <1>3 DEF Window

\* No two indices of a window that fits into the ring have the same slot.
LEMMA WindowSlots ==
  ASSUME NEW a \in Index, NEW b \in Index, Minus(b, a) <= Size,
         NEW i \in Window(a, b), NEW j \in Window(a, b), i # j
  PROVE  Slot(i) # Slot(j)
  <1>1. i \in Index /\ j \in Index /\ Minus(i, a) < Minus(b, a) /\ Minus(j, a) < Minus(b, a)
    BY DEF Window
  <1>2. /\ MinusFact(i, a) /\ MinusFact(j, a) /\ MinusFact(b, a)
        /\ MinusFact(i, j) /\ MinusFact(j, i)
    BY <1>1, MinusIs DEF MinusFact
  <1>3. Minus(i, j) < Size \/ Minus(j, i) < Size
    BY <1>1, <1>2, WordFacts DEF MinusFact, Index
  <1> QED BY <1>1, <1>3, SlotsApart

(***************************************************************************)
(* The windows of a ring that satisfies the invariant.                     *)
(***************************************************************************)
LEMMA Windows ==
  ASSUME TypeOK, OrderInv
  PROVE  /\ prod.head \in Index /\ prod.tail \in Index
         /\ cons.head \in Index /\ cons.tail \in Index
         /\ Window(cons.tail, prod.tail) =
              Window(cons.tail, cons.head) \cup Window(cons.head, prod.tail)
         /\ Window(cons.tail, prod.head) =
              Window(cons.tail, prod.tail) \cup Window(prod.tail, prod.head)
         /\ Window(cons.tail, cons.head) \cap Window(cons.head, prod.tail) = {}
         /\ Window(cons.tail, prod.tail) \cap Window(prod.tail, prod.head) = {}
         /\ Window(cons.tail, prod.head) \subseteq Index
         /\ \A i, j \in Window(cons.tail, prod.head) : i # j => Slot(i) # Slot(j)
         /\ Minus(prod.tail, cons.head) =
              Minus(prod.tail, cons.tail) - Minus(cons.head, cons.tail)
         /\ Minus(prod.head, prod.tail) =
              Minus(prod.head, cons.tail) - Minus(prod.tail, cons.tail)
         /\ Minus(prod.head, cons.tail) < Size
         /\ Minus(cons.head, cons.tail) \in Nat /\ Minus(prod.tail, cons.tail) \in Nat
         /\ Minus(prod.head, cons.tail) \in Nat /\ Capacity \in Nat
  <1>1. /\ prod.head \in Index /\ prod.tail \in Index
        /\ cons.head \in Index /\ cons.tail \in Index
    BY DEF TypeOK, HeadTail
  <1>2. Minus(prod.head, cons.tail) < Size /\ Minus(prod.head, cons.tail) <= Size
    BY <1>1, MinusNext, WordFacts DEF OrderInv, Capacity
  <1>3. \A i, j \in Window(cons.tail, prod.head) : i # j => Slot(i) # Slot(j)
    BY <1>1, <1>2, WindowSlots
  <1>4. Window(cons.tail, prod.head) \subseteq Index
    BY DEF Window
  <1>5. /\ Minus(cons.head, cons.tail) \in 0..(Word - 1) /\ Minus(prod.tail, cons.tail) \in 0..(Word - 1)
        /\ Minus(prod.head, cons.tail) \in 0..(Word - 1)
    BY <1>1, MinusNext
  <1>6. /\ Minus(cons.head, cons.tail) \in Nat /\ Minus(prod.tail, cons.tail) \in Nat
        /\ Minus(prod.head, cons.tail) \in Nat /\ Capacity \in Nat
    BY <1>5, WordFacts DEF Capacity
  <1> QED BY <1>1, <1>2, <1>3, <1>4, <1>6, WindowSplit DEF OrderInv

LEMMA IdleType == Idle \in Local(EnqPC) /\ Idle \in Local(DeqPC)
  BY WordFacts DEF Local, EnqPC, DeqPC, Idle, Index

LEMMA InitInv == Init => RingInv
  <1> SUFFICES ASSUME Init PROVE RingInv
    OBVIOUS
  <1>1. 0 \in Index /\ Size - 1 \in Nat
    BY WordFacts DEF Index
  <1>2. Minus(0, 0) = 0 /\ Window(0, 0) = {}
    BY <1>1, MinusNext, WindowNext
  <1>3. TypeOK
    BY <1>1 DEF Init, TypeOK, HeadTail, Local, Idle, EnqPC, DeqPC
  <1>4. OrderInv /\ HeadInv
    BY <1>2, WordFacts DEF Init, OrderInv, HeadInv, Idle, Capacity
  <1>5. OwnerInv /\ SlotInv /\ ObjInv
    BY <1>2, RingAssumption DEF Init, OwnerInv, SlotInv, ObjInv, Idle, Filling, Reading
  <1> QED BY <1>3, <1>4, <1>5 DEF RingInv

\* A step that moves no object.
LEMMA ObjSame ==
  ASSUME ObjInv, UNCHANGED <<prod, cons, ring, free>>,
         \A p \in Producers : enq'[p].obj = enq[p].obj
  PROVE  ObjInv'
  BY DEF ObjInv

(***************************************************************************)
(* One lemma for each step of a producer.                                  *)
(***************************************************************************)
LEMMA EnqueueInv ==
  ASSUME RingInv, FlagsAreTrue, NEW p \in Producers, Enqueue(p)
  PROVE  RingInv'
  <1> USE DEF RingInv
  <1>1. TypeOK'
    BY DEF Enqueue, TypeOK, HeadTail, Local, EnqPC
  <1>2. OrderInv'
    BY DEF Enqueue, OrderInv
  <1>3. HeadInv'
    BY DEF Enqueue, HeadInv, TypeOK, Local
  <1>4. OwnerInv'
    BY DEF Enqueue, OwnerInv, TypeOK, Local, Filling, Reading
  <1>5. SlotInv'
    BY DEF Enqueue, SlotInv, TypeOK, Local
  <1>6. ObjInv'
    BY DEF Enqueue, ObjInv, SlotInv, TypeOK, Local
  <1> QED BY <1>1, <1>2, <1>3, <1>4, <1>5, <1>6

LEMMA LoadProdHeadInv ==
  ASSUME RingInv, FlagsAreTrue, NEW p \in Producers, LoadProdHead(p)
  PROVE  RingInv'
  <1> USE DEF RingInv
  <1>1. TypeOK'
    BY ZenonT(60) DEF LoadProdHead, TypeOK, HeadTail, Local, EnqPC
  <1>2. OrderInv'
    BY DEF LoadProdHead, OrderInv
  <1>3. HeadInv'
    BY DEF LoadProdHead, HeadInv, TypeOK, Local
  <1>4. OwnerInv'
    BY DEF LoadProdHead, OwnerInv, TypeOK, Local, Filling, Reading
  <1>5. SlotInv'
    BY DEF LoadProdHead, SlotInv, TypeOK, Local
  <1>6. ObjInv'
    <2>1. \A o \in Producers : enq'[o].obj = enq[o].obj
      BY DEF LoadProdHead, TypeOK, Local
    <2>2. UNCHANGED <<prod, cons, ring, free>>
      BY DEF LoadProdHead
    <2> QED BY <2>1, <2>2, ObjSame
  <1> QED BY <1>1, <1>2, <1>3, <1>4, <1>5, <1>6

LEMMA RoomInv ==
  ASSUME RingInv, FlagsAreTrue, NEW p \in Producers, Room(p)
  PROVE  RingInv'
  <1> USE DEF RingInv
  <1>0. /\ prod.head \in Index /\ cons.tail \in Index
        /\ enq[p].obj \in Objs /\ enq[p].pc = "room"
    BY DEF Room, SlotInv, TypeOK, HeadTail
  <1>1. TypeOK'
    <2>1. Idle \in Local(EnqPC)
      BY IdleType
    <2>2. [enq EXCEPT ![p].pc = "move"] \in [Producers -> Local(EnqPC)]
      BY DEF TypeOK, Local, EnqPC
    <2>3. enq' \in [Producers -> Local(EnqPC)]
      BY <2>1, <2>2 DEF Room, TypeOK
    <2> QED BY <1>0, <2>3 DEF Room, TypeOK
  <1>2. OrderInv'
    BY DEF Room, OrderInv
  <1>3. HeadInv'
    <2>1. Minus(Plus(Capacity, cons.tail), prod.head) # 0 => Minus(prod.head, cons.tail) < Capacity
      <3>1. Minus(Plus(Capacity, cons.tail), prod.head) = 0 <=> Minus(prod.head, cons.tail) = Capacity
        BY <1>0, FullIs
      <3>2. Minus(prod.head, cons.tail) \in 0..(Word - 1) /\ Capacity \in Int
        BY <1>0, MinusNext, WordFacts DEF Capacity
      <3> QED BY <3>1, <3>2 DEF OrderInv
    <2> QED BY <2>1 DEF Room, HeadInv, TypeOK, Local, Idle
  <1>4. OwnerInv'
    BY SMTT(30) DEF Room, OwnerInv, TypeOK, Local, Filling, Reading, Idle
  <1>5. SlotInv'
    BY RingAssumption DEF Room, SlotInv, TypeOK, Local, Idle
  <1>6. ObjInv'
    BY SMTT(30), <1>0, RingAssumption DEF Room, ObjInv, SlotInv, TypeOK, Local, Idle
  <1> QED BY <1>1, <1>2, <1>3, <1>4, <1>5, <1>6

LEMMA MoveProdHeadInv ==
  ASSUME RingInv, FlagsAreTrue, NEW p \in Producers, MoveProdHead(p)
  PROVE  RingInv'
  <1> USE DEF RingInv
  <1> DEFINE Same == UNCHANGED <<cons, ring, deq, free>>
  <1>0. Same /\ enq[p].pc = "move" /\ NoLap(p)
    BY DEF MoveProdHead
  <1>1. CASE enq' = [enq EXCEPT ![p].pc = "load"] /\ UNCHANGED prod
    <2>1. TypeOK'
      BY <1>0, <1>1 DEF TypeOK, Local, EnqPC
    <2>2. OrderInv' /\ HeadInv'
      BY <1>0, <1>1 DEF OrderInv, HeadInv, TypeOK, Local
    <2>3. OwnerInv'
      BY <1>0, <1>1 DEF OwnerInv, TypeOK, Local, Filling, Reading
    <2>4. SlotInv'
      BY <1>0, <1>1 DEF SlotInv, TypeOK, Local
    <2>5. ObjInv'
      <3>1. \A o \in Producers : enq'[o].obj = enq[o].obj
        BY <1>1 DEF TypeOK, Local
      <3> QED BY <3>1, <1>0, <1>1, ObjSame
    <2> QED BY <2>1, <2>2, <2>3, <2>4, <2>5
  <1>2. CASE /\ prod' = [prod EXCEPT !.head = Plus(enq[p].old, 1)]
             /\ enq' = [enq EXCEPT ![p].pc = "store"]
             /\ SpEnq \/ prod.head = enq[p].old
    <2>0. /\ enq[p].old = prod.head /\ prod'.head = Plus(prod.head, 1) /\ prod'.tail = prod.tail
          /\ prod' \in [head : {prod'.head}, tail : {prod'.tail}]
      BY <1>0, <1>2 DEF HeadInv, TypeOK, HeadTail
    <2>1. /\ Minus(prod.head, cons.tail) < Capacity
          /\ prod.head \in Index /\ prod.tail \in Index /\ Plus(prod.head, 1) \in Index
          /\ cons.head \in Index /\ cons.tail \in Index
      BY <1>0, <2>0, NextIs DEF HeadInv, TypeOK, HeadTail
    <2>2. TypeOK'
      BY <1>0, <1>2, <2>0, <2>1 DEF TypeOK, HeadTail, Local, EnqPC
    <2>3. Minus(Plus(prod.head, 1), cons.tail) = Minus(prod.head, cons.tail) + 1
      BY <2>1, MinusNext, WordFacts DEF Capacity
    <2>4. /\ Minus(cons.head, cons.tail) \in Int /\ Minus(prod.tail, cons.tail) \in Int
          /\ Minus(prod.head, cons.tail) \in Int /\ Capacity \in Int
      BY Windows
    <2>5. OrderInv'
      BY <1>0, <2>0, <2>1, <2>3, <2>4 DEF OrderInv
    <2>6. HeadInv'
      BY <1>0, <1>2, <2>0 DEF HeadInv, NoLap, FlagsAreTrue, TypeOK, Local
    <2>7. /\ Window(prod.tail, Plus(prod.head, 1)) = Window(prod.tail, prod.head) \cup {prod.head}
          /\ prod.head \notin Window(prod.tail, prod.head)
      <3>1. Minus(prod.head, prod.tail) < Word - 1
        <4>1. /\ Minus(prod.head, prod.tail) =
                    Minus(prod.head, cons.tail) - Minus(prod.tail, cons.tail)
              /\ Minus(prod.tail, cons.tail) \in Nat /\ Minus(prod.head, cons.tail) \in Nat
              /\ Minus(prod.head, cons.tail) < Size
          BY Windows
        <4> QED BY <4>1, WordFacts
      <3> QED BY <3>1, <2>1, WindowNext
    <2>8. OwnerInv'
      BY <1>0, <1>2, <2>0, <2>7 DEF OwnerInv, TypeOK, Local, Filling, Reading
    <2>9. SlotInv'
      BY <1>0, <1>2, <2>0 DEF SlotInv, TypeOK, Local
    <2>10. ObjInv'
      <3>1. \A o \in Producers : enq'[o].obj = enq[o].obj
        BY <1>2 DEF TypeOK, Local
      <3> QED BY <3>1, <1>0, <2>0 DEF ObjInv
    <2> QED BY <2>2, <2>5, <2>6, <2>8, <2>9, <2>10
  <1> QED BY <1>1, <1>2 DEF MoveProdHead

LEMMA StoreSlotInv ==
  ASSUME RingInv, FlagsAreTrue, NEW p \in Producers, StoreSlot(p)
  PROVE  RingInv'
  <1> USE DEF RingInv
  <1> DEFINE i == enq[p].old
  <1>1. /\ enq[p].pc = "store" /\ UNCHANGED <<prod, cons, deq, free>>
        /\ ring' = [ring EXCEPT ![Slot(i)] = enq[p].obj]
        /\ enq' = [enq EXCEPT ![p].pc = "tail"]
    BY DEF StoreSlot
  <1>2. i \in Window(prod.tail, prod.head) /\ i \in Index /\ Slot(i) \in 0..(Size - 1)
    BY <1>1, SlotIs DEF OwnerInv, Filling, TypeOK, Local
  <1>3. \A j \in Window(cons.tail, prod.head) \ {i} : ring'[Slot(j)] = ring[Slot(j)]
    <2>1. \A j \in Window(cons.tail, prod.head) \ {i} :
            Slot(j) # Slot(i) /\ Slot(j) \in 0..(Size - 1)
      BY <1>2, Windows, SlotIs
    <2> QED BY <2>1, <1>1 DEF TypeOK
  <1>4. \A j \in Window(cons.tail, prod.tail) : j # i /\ ring'[Slot(j)] = ring[Slot(j)]
    BY <1>2, <1>3, Windows
  <1>5. TypeOK'
    BY <1>1 DEF TypeOK, Local, EnqPC
  <1>6. OrderInv' /\ HeadInv'
    BY <1>1 DEF OrderInv, HeadInv, TypeOK, Local
  <1>7. OwnerInv'
    BY <1>1 DEF OwnerInv, TypeOK, Local, Filling, Reading
  <1>8. /\ \A o \in Producers : enq'[o].obj = enq[o].obj
        /\ \A o \in Producers \ {p} : enq'[o] = enq[o]
        /\ enq'[p].pc = "tail" /\ enq'[p].old = i
        /\ ring'[Slot(i)] = enq[p].obj
    BY <1>1, <1>2 DEF TypeOK, Local
  <1>9. SlotInv'
    <2>1. ASSUME NEW o \in Producers
          PROVE  /\ enq'[o].obj \in Objs <=> enq'[o].pc # "idle"
                 /\ enq'[o].pc = "tail" => ring'[Slot(enq'[o].old)] = enq'[o].obj
      <3>1. CASE o = p
        BY <3>1, <1>1, <1>8 DEF SlotInv
      <3>2. CASE o # p
        <4>1. enq[o].pc = "tail" => enq[o].old \in Window(cons.tail, prod.head) \ {i}
          BY <3>2, <1>1, Windows DEF OwnerInv, Filling
        <4> QED BY <3>2, <4>1, <1>3, <1>8 DEF SlotInv
      <3> QED BY <3>1, <3>2
    <2>2. ASSUME NEW c \in Consumers
          PROVE  deq'[c].obj = IF deq'[c].pc = "tail" THEN ring'[Slot(deq'[c].old)] ELSE NoObj
      <3>1. deq[c].pc = "tail" => deq[c].old \in Window(cons.tail, prod.tail)
        BY Windows DEF OwnerInv, Reading
      <3> QED BY <3>1, <1>1, <1>4 DEF SlotInv
    <2> QED BY <2>1, <2>2, <1>1, <1>4 DEF SlotInv
  <1>10. ObjInv'
    BY <1>1, <1>4, <1>8 DEF ObjInv
  <1> QED BY <1>5, <1>6, <1>7, <1>9, <1>10

\* The producer that moves the tail filled the first of the reserved slots.
LEMMA TailIsOldest ==
  ASSUME RingInv, FlagsAreTrue, NEW p \in Producers, UpdateProdTail(p)
  PROVE  enq[p].old = prod.tail /\ prod.tail # prod.head /\ prod.tail \in Window(prod.tail, prod.head)
  <1> USE DEF RingInv
  <1>1. enq[p].old \in Window(prod.tail, prod.head) /\ prod.head \in Index /\ prod.tail \in Index
    BY Windows DEF UpdateProdTail, OwnerInv, Filling
  <1>2. prod.tail # prod.head
    BY <1>1, WindowNext
  <1>3. prod.tail \in Window(prod.tail, prod.head)
    BY <1>1, <1>2, WindowNext
  <1>4. PICK o \in Producers : Filling(o) /\ enq[o].old = prod.tail
    BY <1>3 DEF OwnerInv
  <1>5. SpEnq => enq[p].old = prod.tail
    BY <1>4 DEF FlagsAreTrue
  <1> QED BY <1>2, <1>3, <1>5 DEF UpdateProdTail

LEMMA UpdateProdTailInv ==
  ASSUME RingInv, FlagsAreTrue, NEW p \in Producers, UpdateProdTail(p)
  PROVE  RingInv'
  <1> USE DEF RingInv
  <1>1. /\ enq[p].pc = "tail" /\ UNCHANGED <<cons, ring, deq, free>>
        /\ prod' = [prod EXCEPT !.tail = Plus(enq[p].old, 1)]
        /\ enq' = [enq EXCEPT ![p] = Idle]
    BY DEF UpdateProdTail
  <1>2. enq[p].old = prod.tail /\ prod.tail # prod.head /\ prod.tail \in Window(prod.tail, prod.head)
    BY TailIsOldest
  <1>3. /\ prod.head \in Index /\ prod.tail \in Index /\ Plus(prod.tail, 1) \in Index
        /\ cons.head \in Index /\ cons.tail \in Index
    BY Windows, NextIs
  <1>4. prod'.tail = Plus(prod.tail, 1) /\ prod'.head = prod.head
    BY <1>1, <1>2 DEF TypeOK, HeadTail
  <1>5. /\ Minus(cons.head, cons.tail) \in Int /\ Minus(prod.tail, cons.tail) \in Int
        /\ Minus(prod.head, cons.tail) \in Int /\ Capacity \in Int
        /\ Minus(prod.tail, cons.tail) < Minus(prod.head, cons.tail)
        /\ Minus(prod.tail, cons.tail) < Word - 1
    <2>1. /\ Minus(cons.head, cons.tail) \in Int /\ Minus(prod.tail, cons.tail) \in Int
          /\ Minus(prod.head, cons.tail) \in Int /\ Capacity \in Int
      BY Windows
    <2>2. Minus(prod.head, prod.tail) \in Nat /\ Minus(prod.head, prod.tail) # 0
      BY <1>2, <1>3, MinusNext
    <2>3. Minus(prod.tail, cons.tail) < Minus(prod.head, cons.tail)
      BY <2>1, <2>2, Windows
    <2> QED BY <2>1, <2>3, Windows, WordFacts
  <1>6. /\ Minus(Plus(prod.tail, 1), cons.tail) = Minus(prod.tail, cons.tail) + 1
        /\ Window(cons.tail, Plus(prod.tail, 1)) = Window(cons.tail, prod.tail) \cup {prod.tail}
        /\ prod.tail \notin Window(cons.tail, prod.tail)
        /\ Window(Plus(prod.tail, 1), prod.head) = Window(prod.tail, prod.head) \ {prod.tail}
    BY <1>2, <1>3, <1>5, MinusNext, WindowNext
  <1>7. TypeOK'
    <2>1. enq' \in [Producers -> Local(EnqPC)]
      BY <1>1, IdleType DEF TypeOK
    <2>2. prod' \in HeadTail
      BY <1>1, <1>2, <1>3 DEF TypeOK, HeadTail
    <2> QED BY <1>1, <2>1, <2>2 DEF TypeOK
  <1>8. OrderInv'
    BY <1>1, <1>4, <1>5, <1>6 DEF OrderInv
  <1>9. enq'[p] = Idle /\ \A o \in Producers \ {p} : enq'[o] = enq[o]
    BY <1>1 DEF TypeOK
  <1>10. HeadInv'
    <2>1. \A c \in Consumers : deq[c].pc = "move" /\ deq[c].old = cons.head => cons.head # Plus(prod.tail, 1)
      BY <1>3, <1>5, <1>6, WordFacts DEF OrderInv
    <2> QED BY <2>1, <1>1, <1>4, <1>9 DEF HeadInv, Idle
  <1>11. OwnerInv'
    <2>1. \A o \in Producers \ {p} : Filling(o) => enq[o].old # prod.tail
      BY <1>1, <1>2 DEF OwnerInv, Filling
    <2> QED BY <2>1, <1>1, <1>2, <1>4, <1>6, <1>9 DEF OwnerInv, Idle, Filling, Reading
  <1>12. enq[p].obj \in Objs /\ ring[Slot(prod.tail)] = enq[p].obj
    BY <1>1, <1>2 DEF SlotInv
  <1>13. SlotInv'
    BY <1>1, <1>4, <1>6, <1>9, <1>12, RingAssumption DEF SlotInv, Idle
  <1>14. ObjInv'
    BY <1>1, <1>4, <1>6, <1>9, <1>12, RingAssumption DEF ObjInv, SlotInv, Idle, TypeOK
  <1> QED BY <1>7, <1>8, <1>10, <1>11, <1>13, <1>14

(***************************************************************************)
(* One lemma for each step of a consumer.                                  *)
(***************************************************************************)
LEMMA LoadConsHeadInv ==
  ASSUME RingInv, FlagsAreTrue, NEW c \in Consumers, LoadConsHead(c)
  PROVE  RingInv'
  <1> USE DEF RingInv
  <1>1. TypeOK'
    <2>1. [deq[c] EXCEPT !.pc = "entries", !.old = cons.head] \in Local(DeqPC)
      BY DEF TypeOK, HeadTail, Local, DeqPC
    <2>2. /\ deq' = [deq EXCEPT ![c] = [deq[c] EXCEPT !.pc = "entries", !.old = cons.head]]
          /\ UNCHANGED <<prod, cons, ring, enq, free>>
      BY DEF LoadConsHead, TypeOK
    <2> QED BY <2>1, <2>2 DEF TypeOK
  <1>2. OrderInv'
    BY DEF LoadConsHead, OrderInv
  <1>3. HeadInv'
    BY DEF LoadConsHead, HeadInv, TypeOK, Local
  <1>4. OwnerInv'
    BY DEF LoadConsHead, OwnerInv, TypeOK, Local, Filling, Reading
  <1>5. SlotInv'
    BY DEF LoadConsHead, SlotInv, TypeOK, Local
  <1>6. ObjInv'
    BY ObjSame DEF LoadConsHead
  <1> QED BY <1>1, <1>2, <1>3, <1>4, <1>5, <1>6

LEMMA EntriesInv ==
  ASSUME RingInv, FlagsAreTrue, NEW c \in Consumers, Entries(c)
  PROVE  RingInv'
  <1> USE DEF RingInv
  <1>0. /\ deq[c].pc = "entries" /\ UNCHANGED <<prod, cons, ring, enq, free>>
        /\ \A o \in Consumers \ {c} : deq'[o] = deq[o]
        /\ \/ Minus(prod.tail, deq[c].old) = 0 /\ deq'[c] = Idle
           \/ Minus(prod.tail, deq[c].old) # 0 /\ deq'[c] = [deq[c] EXCEPT !.pc = "move"]
        /\ deq' \in [Consumers -> {deq'[o] : o \in Consumers}]
    BY DEF Entries, TypeOK
  <1>1. TypeOK'
    <2>1. [deq[c] EXCEPT !.pc = "move"] \in Local(DeqPC)
      BY DEF TypeOK, Local, DeqPC
    <2>2. deq' \in [Consumers -> Local(DeqPC)]
      BY <1>0, <2>1, IdleType DEF TypeOK
    <2> QED BY <1>0, <2>2 DEF TypeOK
  <1>2. OrderInv'
    BY <1>0 DEF OrderInv
  <1>3. HeadInv'
    <2>1. Minus(prod.tail, deq[c].old) # 0 /\ deq[c].old = cons.head => cons.head # prod.tail
      BY MinusNext, Windows
    <2>2. deq'[c].pc = "move" => Minus(prod.tail, deq[c].old) # 0 /\ deq'[c].old = deq[c].old
      BY <1>0 DEF Idle, TypeOK, Local
    <2>3. deq'[c].pc \in {"idle", "move"}
      BY <1>0 DEF Idle, TypeOK, Local
    <2> QED BY <1>0, <2>1, <2>2, <2>3 DEF HeadInv
  <1>4. OwnerInv'
    <2>1. ~ Reading(c) /\ ~ Reading(c)' /\ \A o \in Consumers \ {c} : Reading(o)' = Reading(o)
      BY <1>0 DEF Reading, Idle, TypeOK, Local
    <2> QED BY <1>0, <2>1 DEF OwnerInv, Filling
  <1>5. SlotInv'
    <2>1. deq'[c].obj = NoObj /\ deq'[c].pc # "tail"
      BY <1>0 DEF Idle, TypeOK, Local, SlotInv
    <2> QED BY <1>0, <2>1 DEF SlotInv
  <1>6. ObjInv'
    BY <1>0, ObjSame
  <1> QED BY <1>1, <1>2, <1>3, <1>4, <1>5, <1>6

LEMMA MoveConsHeadInv ==
  ASSUME RingInv, FlagsAreTrue, NEW c \in Consumers, MoveConsHead(c)
  PROVE  RingInv'
  <1> USE DEF RingInv
  <1>0. UNCHANGED <<prod, ring, enq, free>> /\ deq[c].pc = "move" /\ NoLapCons(c)
    BY DEF MoveConsHead
  <1>1. CASE deq' = [deq EXCEPT ![c] = Idle] /\ UNCHANGED cons
    <2>0. deq'[c] = Idle /\ \A o \in Consumers \ {c} : deq'[o] = deq[o]
      BY <1>1 DEF TypeOK
    <2>1. TypeOK'
      BY <1>0, <1>1, IdleType DEF TypeOK
    <2>2. OrderInv' /\ HeadInv'
      BY <1>0, <1>1, <2>0 DEF OrderInv, HeadInv, Idle
    <2>3. OwnerInv'
      BY <1>0, <1>1, <2>0 DEF OwnerInv, Filling, Reading, Idle
    <2>4. SlotInv'
      BY <1>0, <1>1, <2>0 DEF SlotInv, Idle
    <2>5. ObjInv'
      BY <1>0, <1>1, ObjSame
    <2> QED BY <2>1, <2>2, <2>3, <2>4, <2>5
  <1>2. CASE /\ cons' = [cons EXCEPT !.head = Plus(deq[c].old, 1)]
             /\ deq' = [deq EXCEPT ![c].pc = "load"]
             /\ ScDeq \/ cons.head = deq[c].old
    <2>0. /\ deq[c].old = cons.head /\ cons'.head = Plus(cons.head, 1) /\ cons'.tail = cons.tail
          /\ cons.head # prod.tail
      BY <1>0, <1>2 DEF HeadInv, TypeOK, HeadTail
    <2>1. /\ prod.head \in Index /\ prod.tail \in Index /\ Plus(cons.head, 1) \in Index
          /\ cons.head \in Index /\ cons.tail \in Index
      BY Windows, NextIs
    <2>2. TypeOK'
      BY <1>0, <1>2, <2>0, <2>1 DEF TypeOK, HeadTail, Local, DeqPC
    <2>3. Minus(cons.head, cons.tail) < Minus(prod.tail, cons.tail) /\ Minus(cons.head, cons.tail) < Word - 1
      <3>1. Minus(prod.tail, cons.head) \in 0..(Word - 1) /\ Minus(prod.tail, cons.head) # 0
        BY <2>0, <2>1, MinusNext
      <3>2. /\ Minus(prod.tail, cons.head) = Minus(prod.tail, cons.tail) - Minus(cons.head, cons.tail)
            /\ Minus(cons.head, cons.tail) \in Nat /\ Minus(prod.tail, cons.tail) \in Nat
            /\ Minus(prod.tail, cons.tail) <= Minus(prod.head, cons.tail)
            /\ Minus(prod.head, cons.tail) < Size /\ Minus(prod.head, cons.tail) \in Nat
        BY Windows DEF OrderInv
      <3> QED BY <3>1, <3>2, WordFacts
    <2>4. Minus(Plus(cons.head, 1), cons.tail) = Minus(cons.head, cons.tail) + 1
      BY <2>1, <2>3, MinusNext
    <2>5. OrderInv'
      <3>1. Minus(cons.head, cons.tail) + 1 <= Minus(prod.tail, cons.tail)
        BY <2>3, Windows
      <3> QED BY <3>1, <1>0, <2>0, <2>4 DEF OrderInv
    <2>6. HeadInv'
      BY <1>0, <1>2, <2>0 DEF HeadInv, NoLapCons, FlagsAreTrue, TypeOK, Local
    <2>7. /\ Window(cons.tail, Plus(cons.head, 1)) = Window(cons.tail, cons.head) \cup {cons.head}
          /\ cons.head \notin Window(cons.tail, cons.head)
      BY <2>1, <2>3, WindowNext
    <2>8. OwnerInv'
      BY <1>0, <1>2, <2>0, <2>7 DEF OwnerInv, TypeOK, Local, Filling, Reading
    <2>9. SlotInv'
      BY <1>0, <1>2, <2>0 DEF SlotInv, TypeOK, Local
    <2>10. ObjInv'
      BY <1>0, <2>0 DEF ObjInv
    <2> QED BY <2>2, <2>5, <2>6, <2>8, <2>9, <2>10
  <1> QED BY <1>1, <1>2 DEF MoveConsHead

LEMMA LoadSlotInv ==
  ASSUME RingInv, FlagsAreTrue, NEW c \in Consumers, LoadSlot(c)
  PROVE  RingInv'
  <1> USE DEF RingInv
  <1>0. ring[Slot(deq[c].old)] \in Objs
    BY Windows DEF LoadSlot, OwnerInv, Reading, SlotInv
  <1>1. TypeOK'
    BY <1>0 DEF LoadSlot, TypeOK, Local, DeqPC
  <1>2. OrderInv'
    BY DEF LoadSlot, OrderInv
  <1>3. HeadInv'
    BY DEF LoadSlot, HeadInv, TypeOK, Local
  <1>4. OwnerInv'
    BY DEF LoadSlot, OwnerInv, TypeOK, Local, Filling, Reading
  <1>5. SlotInv'
    BY DEF LoadSlot, SlotInv, TypeOK, Local
  <1>6. ObjInv'
    BY ObjSame DEF LoadSlot
  <1> QED BY <1>1, <1>2, <1>3, <1>4, <1>5, <1>6

LEMMA UpdateConsTailInv ==
  ASSUME RingInv, FlagsAreTrue, NEW c \in Consumers, UpdateConsTail(c)
  PROVE  RingInv'
  <1> USE DEF RingInv
  <1> DEFINE t == cons.tail
  <1>1. /\ deq[c].pc = "tail" /\ UNCHANGED <<prod, enq>>
        /\ cons' = [cons EXCEPT !.tail = Plus(deq[c].old, 1)]
        /\ free' = free \cup {deq[c].obj}
        /\ ring' = [ring EXCEPT ![Slot(deq[c].old)] = NoObj]
        /\ deq' = [deq EXCEPT ![c] = Idle]
    BY DEF UpdateConsTail
  <1>2. deq[c].old = t /\ t # cons.head /\ t \in Window(t, cons.head)
    <2>1. deq[c].old \in Window(t, cons.head) /\ cons.head \in Index /\ t \in Index
      BY <1>1, Windows DEF OwnerInv, Reading
    <2>2. t # cons.head
      BY <2>1, WindowNext
    <2>3. t \in Window(t, cons.head)
      BY <2>1, <2>2, WindowNext
    <2>4. PICK o \in Consumers : Reading(o) /\ deq[o].old = t
      BY <2>3 DEF OwnerInv
    <2>5. ScDeq => deq[c].old = t
      BY <2>4 DEF FlagsAreTrue
    <2> QED BY <2>2, <2>3, <2>5 DEF UpdateConsTail
  <1>3. /\ prod.head \in Index /\ prod.tail \in Index /\ Plus(t, 1) \in Index
        /\ cons.head \in Index /\ t \in Index /\ Slot(t) \in 0..(Size - 1)
    BY Windows, NextIs, SlotIs
  <1>4. cons'.tail = Plus(t, 1) /\ cons'.head = cons.head
    BY <1>1, <1>2 DEF TypeOK, HeadTail
  <1>5. t # prod.tail /\ t # prod.head
    <2>1. Minus(cons.head, t) # 0 /\ Minus(cons.head, t) \in Nat
      BY <1>2, <1>3, MinusNext
    <2>2. /\ Minus(prod.tail, t) \in Nat /\ Minus(prod.head, t) \in Nat
          /\ Minus(cons.head, t) <= Minus(prod.tail, t)
          /\ Minus(prod.tail, t) <= Minus(prod.head, t)
      BY Windows DEF OrderInv
    <2>3. Minus(prod.tail, t) # 0 /\ Minus(prod.head, t) # 0
      BY <2>1, <2>2
    <2> QED BY <2>3, <1>3, MinusNext
  <1>6. /\ Minus(cons.head, Plus(t, 1)) = Minus(cons.head, t) - 1
        /\ Minus(prod.tail, Plus(t, 1)) = Minus(prod.tail, t) - 1
        /\ Minus(prod.head, Plus(t, 1)) = Minus(prod.head, t) - 1
        /\ Window(Plus(t, 1), cons.head) = Window(t, cons.head) \ {t}
        /\ Window(Plus(t, 1), prod.tail) = Window(t, prod.tail) \ {t}
        /\ t \in Window(t, prod.tail)
    BY <1>2, <1>3, <1>5, MinusNext, WindowNext
  <1>7. \A j \in Window(t, prod.head) \ {t} : ring'[Slot(j)] = ring[Slot(j)]
    <2>1. t \in Window(t, prod.head)
      BY <1>6, Windows
    <2>2. \A j \in Window(t, prod.head) \ {t} :
            Slot(j) # Slot(t) /\ Slot(j) \in 0..(Size - 1)
      BY <2>1, Windows, SlotIs
    <2> QED BY <2>2, <1>1, <1>2 DEF TypeOK
  <1>8. deq[c].obj \in Objs /\ ring[Slot(t)] = deq[c].obj
    BY <1>1, <1>2, <1>6 DEF SlotInv
  <1>9. TypeOK'
    <2>1. deq' \in [Consumers -> Local(DeqPC)]
      BY <1>1, IdleType DEF TypeOK
    <2>2. cons' \in HeadTail
      BY <1>1, <1>2, <1>3 DEF TypeOK, HeadTail
    <2>3. ring' \in [0..(Size - 1) -> Objs \cup {NoObj}] /\ free' \subseteq Objs
      BY <1>1, <1>8 DEF TypeOK
    <2> QED BY <1>1, <2>1, <2>2, <2>3 DEF TypeOK
  <1>10. OrderInv'
    <2>1. /\ Minus(cons.head, t) \in Nat /\ Minus(prod.tail, t) \in Nat
          /\ Minus(prod.head, t) \in Nat /\ Capacity \in Nat
      BY Windows
    <2> QED BY <2>1, <1>1, <1>4, <1>6 DEF OrderInv
  <1>11. deq'[c] = Idle /\ \A o \in Consumers \ {c} : deq'[o] = deq[o]
    BY <1>1 DEF TypeOK
  <1>12. HeadInv'
    <2>1. Minus(prod.head, t) < Capacity => Minus(prod.head, Plus(t, 1)) < Capacity
      BY <1>6, Windows
    <2> QED BY <2>1, <1>1, <1>4, <1>11 DEF HeadInv, Idle
  <1>13. OwnerInv'
    <2>1. \A o \in Consumers \ {c} : Reading(o) => deq[o].old # t
      BY <1>1, <1>2 DEF OwnerInv, Reading
    <2> QED BY <2>1, <1>1, <1>2, <1>4, <1>6, <1>11 DEF OwnerInv, Idle, Filling, Reading
  <1>14. SlotInv'
    <2>1. ASSUME NEW p \in Producers, enq[p].pc = "tail"
          PROVE  ring'[Slot(enq[p].old)] = ring[Slot(enq[p].old)]
      BY <2>1, <1>6, <1>7, Windows DEF OwnerInv, Filling
    <2>2. ASSUME NEW o \in Consumers \ {c}, deq[o].pc = "tail"
          PROVE  ring'[Slot(deq[o].old)] = ring[Slot(deq[o].old)]
      BY <2>2, <1>1, <1>2, <1>7, Windows DEF OwnerInv, Reading
    <2>3. \A i \in Window(t, prod.tail) \ {t} : ring'[Slot(i)] = ring[Slot(i)]
      BY <1>7, Windows
    <2> QED BY <2>1, <2>2, <2>3, <1>1, <1>4, <1>6, <1>11 DEF SlotInv, Idle
  <1>15. ObjInv'
    <2>1. \A i \in Window(t, prod.tail) \ {t} : ring'[Slot(i)] = ring[Slot(i)]
      BY <1>7, Windows
    <2> QED BY <2>1, <1>1, <1>4, <1>6, <1>8 DEF ObjInv
  <1> QED BY <1>9, <1>10, <1>12, <1>13, <1>14, <1>15

LEMMA NextInv ==
  ASSUME RingInv, FlagsAreTrue, [Next]_vars
  PROVE  RingInv'
  <1>1. CASE UNCHANGED vars
    BY <1>1 DEF vars, RingInv, TypeOK, OrderInv, HeadInv, OwnerInv, SlotInv, ObjInv,
                Filling, Reading
  <1>2. ASSUME NEW p \in Producers, rte_ring_enqueue(p)  PROVE RingInv'
    BY <1>2, EnqueueInv, LoadProdHeadInv, RoomInv, MoveProdHeadInv, StoreSlotInv,
       UpdateProdTailInv DEF rte_ring_enqueue
  <1>3. ASSUME NEW c \in Consumers, rte_ring_dequeue(c)  PROVE RingInv'
    BY <1>3, LoadConsHeadInv, EntriesInv, MoveConsHeadInv, LoadSlotInv,
       UpdateConsTailInv DEF rte_ring_dequeue
  <1> QED BY <1>1, <1>2, <1>3 DEF Next

\* However many processes use the ring, however long it is and wherever its indices
\* wrap around, the windows of consumers and producers stay apart and every object
\* is in one place, if the flags it was created with are true
\* (__rte_ring_do_enqueue, __rte_ring_do_dequeue, update_tail).
THEOREM SpecRingInv == FlagsAreTrue => (Spec => []RingInv)
  <1> SUFFICES ASSUME FlagsAreTrue PROVE Spec => []RingInv
    OBVIOUS
  <1>1. RingInv /\ [Next]_vars => RingInv'
    BY NextInv
  <1> QED BY InitInv, <1>1, PTL DEF Spec

(***************************************************************************)
(* The contents of the ring.                                               *)
(***************************************************************************)
\* The positions of Contents are the indices of the published window.
LEMMA Positions ==
  ASSUME NEW a \in Index, NEW b \in Index
  PROVE  /\ \A i \in 1..Minus(b, a) : /\ Plus(a, i - 1) \in Window(a, b)
                                      /\ Minus(Plus(a, i - 1), a) = i - 1
         /\ \A j \in Window(a, b) : /\ Minus(j, a) + 1 \in 1..Minus(b, a)
                                    /\ Plus(a, Minus(j, a)) = j
  <1>1. Minus(b, a) \in 0..(Word - 1)
    BY MinusNext
  <1>2. ASSUME NEW i \in 1..Minus(b, a)
        PROVE  Plus(a, i - 1) \in Window(a, b) /\ Minus(Plus(a, i - 1), a) = i - 1
    <2>1. i - 1 \in 0..Word
      BY <1>1, WordFacts
    <2>2. /\ Plus(a, i - 1) \in Index
          /\ Plus(a, i - 1) = IF a + (i - 1) < Word THEN a + (i - 1) ELSE a + (i - 1) - Word
      BY <2>1, PlusIs
    <2>3. MinusFact(Plus(a, i - 1), a)
      BY <2>2, MinusIs DEF MinusFact
    <2>4. Minus(Plus(a, i - 1), a) = i - 1
      BY <1>1, <2>1, <2>2, <2>3, WordFacts DEF MinusFact, Index
    <2> QED BY <1>1, <2>2, <2>4, WordFacts DEF Window
  <1>3. ASSUME NEW j \in Window(a, b)
        PROVE  Minus(j, a) + 1 \in 1..Minus(b, a) /\ Plus(a, Minus(j, a)) = j
    <2>1. j \in Index /\ Minus(j, a) < Minus(b, a)
      BY DEF Window
    <2>2. Minus(j, a) \in 0..(Word - 1) /\ MinusFact(j, a)
      BY <2>1, MinusNext, MinusIs DEF MinusFact
    <2>3. Plus(a, Minus(j, a)) = IF a + Minus(j, a) < Word THEN a + Minus(j, a)
                                 ELSE a + Minus(j, a) - Word
      BY <2>2, PlusIs, WordFacts
    <2>4. Plus(a, Minus(j, a)) = j
      BY <2>1, <2>2, <2>3, WordFacts DEF MinusFact, Index
    <2> QED BY <1>1, <2>1, <2>2, <2>4, WordFacts
  <1> QED BY <1>2, <1>3

\* When nobody is in the middle of an operation, Contents enumerates the objects
\* that are not free.
LEMMA ConservedInv == RingInv => Conserved
  <1> SUFFICES ASSUME RingInv,
                      \A p \in Producers : enq[p].pc = "idle",
                      \A c \in Consumers : deq[c].pc = "idle"
               PROVE  /\ Minus(prod.tail, cons.head) + Cardinality(free) = Cardinality(Objs)
                      /\ \A o \in Objs : o \in free <=> \A i \in DOMAIN Contents : Contents[i] # o
    BY DEF Conserved
  <1> DEFINE n == Minus(prod.tail, cons.head)
             W == Window(cons.head, prod.tail)
             at(i) == ring[Slot(Plus(cons.head, i - 1))]
  <1>1. TypeOK /\ OrderInv /\ prod.tail \in Index /\ cons.head \in Index /\ cons.tail \in Index
    BY Windows DEF RingInv
  <1>2. cons.tail = cons.head
    <2>1. Window(cons.tail, cons.head) = {}
      BY DEF RingInv, OwnerInv, Reading
    <2> QED BY <2>1, <1>1, WindowNext
  <1>3. /\ \A i \in W : ring[Slot(i)] \in Objs \ free
        /\ \A i, j \in W : i # j => ring[Slot(i)] # ring[Slot(j)]
        /\ \A o \in Objs \ free : \E i \in W : ring[Slot(i)] = o
    BY <1>2 DEF RingInv, SlotInv, ObjInv
  <1>4. n \in Nat /\ DOMAIN Contents = 1..n /\ \A i \in 1..n : Contents[i] = at(i)
    BY <1>1, MinusNext DEF Contents
  <1>5. \A i \in 1..n : Plus(cons.head, i - 1) \in W /\ Minus(Plus(cons.head, i - 1), cons.head) = i - 1
    BY <1>1, Positions
  <1>6. \A j \in W : Minus(j, cons.head) + 1 \in 1..n /\ Plus(cons.head, Minus(j, cons.head)) = j
    BY <1>1, Positions
  <1>7. \A i \in 1..n : at(i) \in Objs \ free
    BY <1>3, <1>5
  <1>8. \A i, j \in 1..n : at(i) = at(j) => i = j
    <2> SUFFICES ASSUME NEW i \in 1..n, NEW j \in 1..n, at(i) = at(j) PROVE i = j
      OBVIOUS
    <2>1. Plus(cons.head, i - 1) = Plus(cons.head, j - 1)
      BY <1>3, <1>5
    <2>2. i - 1 = j - 1
      BY <1>5, <2>1
    <2> QED BY <2>2, <1>4
  <1>9. \A o \in Objs \ free : \E i \in 1..n : at(i) = o
    <2> SUFFICES ASSUME NEW o \in Objs \ free PROVE \E i \in 1..n : at(i) = o
      OBVIOUS
    <2>1. PICK j \in W : ring[Slot(j)] = o
      BY <1>3
    <2>2. Minus(j, cons.head) + 1 \in 1..n /\ Plus(cons.head, Minus(j, cons.head)) = j
      BY <1>6
    <2>3. Minus(j, cons.head) = (Minus(j, cons.head) + 1) - 1
      <3>1. j \in Index
        BY DEF Window
      <3> QED BY <3>1, <1>1, MinusNext
    <2>4. at(Minus(j, cons.head) + 1) = o
      BY <2>1, <2>2, <2>3
    <2> QED BY <2>2, <2>4
  <1>10. \A o \in Objs : o \in free <=> \A i \in DOMAIN Contents : Contents[i] # o
    BY <1>4, <1>7, <1>9
  <1>11. ExistsBijection(1..n, Objs \ free)
    <2> DEFINE f == [i \in 1..n |-> at(i)]
    <2>1. f \in [1..n -> Objs \ free]
      BY <1>7
    <2>2. \A i, j \in 1..n : f[i] = f[j] => i = j
      BY <1>8
    <2>3. \A o \in Objs \ free : \E i \in 1..n : f[i] = o
      BY <1>9
    <2> HIDE DEF f
    <2>4. f \in Injection(1..n, Objs \ free) /\ f \in Surjection(1..n, Objs \ free)
      BY <2>1, <2>2, <2>3, Zenon DEF Injection, Surjection, IsInjective
    <2> QED BY <2>4 DEF ExistsBijection, Bijection
  <1>12. Cardinality(Objs \ free) = n
    BY <1>4, <1>11, FS_CountingElements
  <1>13. n + Cardinality(free) = Cardinality(Objs)
    <2>1. free \subseteq Objs /\ Objs \cap free = free
      BY DEF RingInv, TypeOK
    <2>2. /\ IsFiniteSet(free) /\ Cardinality(Objs \ free) = Cardinality(Objs) - Cardinality(Objs \cap free)
      BY <2>1, RingAssumption, FS_Difference, FS_Subset
    <2>3. Cardinality(Objs) \in Nat /\ Cardinality(free) \in Nat
      BY <2>2, RingAssumption, FS_CardinalityType
    <2>4. n = Cardinality(Objs) - Cardinality(free)
      BY <2>1, <2>2, <1>12
    <2> HIDE DEF n
    <2> QED BY <2>3, <2>4
  <1> QED BY <1>10, <1>13

\* Nothing that goes through the ring is lost or doubled.
THEOREM SpecConserved == FlagsAreTrue => (Spec => []Conserved)
  BY SpecRingInv, ConservedInv, PTL

(***************************************************************************)
(* The ring implements the queue of RingFifo.                              *)
(***************************************************************************)
\* Contents is the sequence of the published window.
ContentsFact ==
  /\ Contents \in Seq(Objs) /\ Len(Contents) = Minus(prod.tail, cons.head)
  /\ Len(Contents) \in Nat
  /\ \A i \in 1..Len(Contents) :
       /\ Contents[i] = ring[Slot(Plus(cons.head, i - 1))]
       /\ Plus(cons.head, i - 1) \in Window(cons.head, prod.tail)

LEMMA ContentsSeq == RingInv => ContentsFact
  <1> SUFFICES ASSUME RingInv PROVE ContentsFact
    OBVIOUS
  <1> DEFINE n == Minus(prod.tail, cons.head)
  <1>1. prod.tail \in Index /\ cons.head \in Index /\ n \in Nat
    BY Windows, MinusNext DEF RingInv
  <1>2. \A i \in 1..n : Plus(cons.head, i - 1) \in Window(cons.head, prod.tail)
    BY <1>1, Positions
  <1>3. \A i \in 1..n : ring[Slot(Plus(cons.head, i - 1))] \in Objs
    BY <1>2, Windows DEF RingInv, SlotInv
  <1>4. Contents \in [1..n -> Objs]
    BY <1>3 DEF Contents
  <1>5. Contents \in Seq(Objs)
    BY <1>1, <1>4, SeqDef
  <1>6. DOMAIN Contents = 1..n /\ DOMAIN Contents = 1..Len(Contents) /\ Len(Contents) \in Nat
    BY <1>4, <1>5, LenProperties
  <1>7. Len(Contents) = n
    BY <1>1, <1>6
  <1> QED BY <1>1, <1>2, <1>5, <1>7 DEF Contents, ContentsFact

LEMMA ContentsSeqNext == RingInv' => ContentsFact'
  BY ContentsSeq, PTL

\* A step that leaves the window and its slots alone leaves Contents alone.
LEMMA ContentsSame ==
  ASSUME RingInv, RingInv', prod'.tail = prod.tail, cons'.head = cons.head,
         \A i \in Window(cons.head, prod.tail) : ring'[Slot(i)] = ring[Slot(i)]
  PROVE  Contents' = Contents
  <1>1. /\ Contents \in Seq(Objs) /\ Contents' \in Seq(Objs) /\ Len(Contents') = Len(Contents)
        /\ \A i \in 1..Len(Contents) : Contents'[i] = Contents[i]
    BY ContentsSeq, ContentsSeqNext DEF ContentsFact
  <1> QED BY <1>1, SeqEqual

\* The oldest object is taken.
LEMMA ContentsTail ==
  ASSUME RingInv, RingInv', prod' = prod, ring' = ring,
         cons'.head = Plus(cons.head, 1), cons.head # prod.tail
  PROVE  /\ Contents # <<>> /\ Head(Contents) = ring[Slot(cons.head)]
         /\ Contents' = Tail(Contents)
  <1>1. ContentsFact /\ ContentsFact'
    BY ContentsSeq, ContentsSeqNext
  <1>2. prod.tail \in Index /\ cons.head \in Index
    BY Windows DEF RingInv
  <1>3. /\ Minus(prod.tail, cons.head) \in 0..(Word - 1) /\ Minus(prod.tail, cons.head) # 0
        /\ Minus(prod.tail, Plus(cons.head, 1)) = Minus(prod.tail, cons.head) - 1
    BY <1>2, MinusNext
  <1>4. Contents \in Seq(Objs) /\ Contents # <<>> /\ Len(Contents) >= 1 /\ Len(Contents) \in Nat
    BY <1>1, <1>3 DEF ContentsFact
  <1>5. Head(Contents) = ring[Slot(cons.head)]
    <2>1. Plus(cons.head, 1 - 1) = cons.head
      BY <1>2, PlusIs, WordFacts DEF Index
    <2>2. Head(Contents) = Contents[1]
      BY <1>4
    <2> QED BY <1>1, <1>4, <2>1, <2>2 DEF ContentsFact
  <1>6. /\ Tail(Contents) \in Seq(Objs) /\ Len(Tail(Contents)) = Len(Contents) - 1
        /\ \A i \in 1..Len(Tail(Contents)) : Tail(Contents)[i] = Contents[i + 1]
    BY <1>4, HeadTailProperties
  <1>7. Contents' \in Seq(Objs) /\ Len(Contents') = Len(Tail(Contents))
    BY <1>1, <1>3, <1>6 DEF ContentsFact
  <1>8. ASSUME NEW i \in 1..Len(Contents')
        PROVE  Contents'[i] = Tail(Contents)[i]
    <2>1. i + 1 \in 1..Len(Contents) /\ i \in 1..Len(Tail(Contents)) /\ i \in Nat
      BY <1>4, <1>6, <1>7
    <2>2. Plus(Plus(cons.head, 1), i - 1) = Plus(cons.head, (i + 1) - 1)
      <3>1. i - 1 \in 0..Word /\ (i + 1) - 1 \in 0..Word /\ (i + 1) - 1 = i
        BY <2>1, <1>1, <1>3, WordFacts DEF ContentsFact
      <3>2. Plus(cons.head, 1) \in Index /\ NextFact(cons.head)
        BY <1>2, NextIs DEF NextFact
      <3>3. /\ Plus(Plus(cons.head, 1), i - 1) =
                 IF Plus(cons.head, 1) + (i - 1) < Word THEN Plus(cons.head, 1) + (i - 1)
                 ELSE Plus(cons.head, 1) + (i - 1) - Word
            /\ Plus(cons.head, i) =
                 IF cons.head + i < Word THEN cons.head + i ELSE cons.head + i - Word
        BY <1>2, <3>1, <3>2, PlusIs
      <3>4. i < Word
        BY <2>1, <1>1, <1>3, WordFacts DEF ContentsFact
      <3> QED BY SMTT(30), <1>2, <2>1, <3>1, <3>2, <3>3, <3>4, WordFacts DEF NextFact, Index
    <2>3. Contents'[i] = ring[Slot(Plus(Plus(cons.head, 1), i - 1))]
      BY <1>1 DEF ContentsFact
    <2>4. Tail(Contents)[i] = ring[Slot(Plus(cons.head, (i + 1) - 1))]
      BY <1>1, <1>6, <2>1 DEF ContentsFact
    <2> QED BY <2>2, <2>3, <2>4
  <1>9. Contents' = Tail(Contents)
    BY <1>6, <1>7, <1>8, SeqEqual
  <1> QED BY <1>4, <1>5, <1>9

\* An object is published.
LEMMA ContentsAppend ==
  ASSUME RingInv, RingInv', cons' = cons, ring' = ring,
         prod'.tail = Plus(prod.tail, 1), prod.tail # prod.head,
         NEW o \in Objs, ring[Slot(prod.tail)] = o
  PROVE  Len(Contents) < Capacity /\ Contents' = Append(Contents, o)
  <1> DEFINE n == Minus(prod.tail, cons.head)
  <1>1. ContentsFact /\ ContentsFact'
    BY ContentsSeq, ContentsSeqNext
  <1>2. prod.tail \in Index /\ cons.head \in Index /\ prod.head \in Index
    BY Windows DEF RingInv
  <1>3. n \in Nat /\ n < Capacity /\ Capacity < Word /\ Capacity \in Nat
    <2>1. Minus(prod.head, prod.tail) \in 0..(Word - 1) /\ Minus(prod.head, prod.tail) # 0
          /\ n \in 0..(Word - 1)
      BY <1>2, MinusNext
    <2>2. /\ n = Minus(prod.tail, cons.tail) - Minus(cons.head, cons.tail)
          /\ Minus(prod.head, prod.tail) = Minus(prod.head, cons.tail) - Minus(prod.tail, cons.tail)
          /\ Minus(prod.head, cons.tail) <= Capacity /\ Capacity \in Nat
          /\ Minus(cons.head, cons.tail) \in Nat /\ Minus(prod.tail, cons.tail) \in Nat
          /\ Minus(prod.head, cons.tail) \in Nat
      BY Windows DEF RingInv, OrderInv
    <2> HIDE DEF n
    <2> QED BY <2>1, <2>2, WordFacts DEF Capacity
  <1>4. Minus(Plus(prod.tail, 1), cons.head) = n + 1
    BY <1>2, <1>3, MinusNext, WordFacts DEF Capacity
  <1>5. Contents \in Seq(Objs) /\ Contents' \in Seq(Objs) /\ Len(Contents) = n /\ Len(Contents') = n + 1
    BY <1>1, <1>4 DEF ContentsFact
  <1>6. /\ Append(Contents, o) \in Seq(Objs) /\ Len(Append(Contents, o)) = n + 1
        /\ \A i \in 1..n : Append(Contents, o)[i] = Contents[i]
        /\ Append(Contents, o)[n + 1] = o
    BY <1>5, AppendProperties
  <1>7. ASSUME NEW i \in 1..(n + 1)
        PROVE  Contents'[i] = Append(Contents, o)[i]
    <2>1. Contents'[i] = ring[Slot(Plus(cons.head, i - 1))]
      BY <1>1, <1>5 DEF ContentsFact
    <2>2. CASE i \in 1..n
      BY <2>1, <2>2, <1>1, <1>5, <1>6 DEF ContentsFact
    <2>3. CASE i = n + 1
      <3>1. MinusFact(prod.tail, cons.head)
        BY <1>2, MinusIs DEF MinusFact
      <3>2. n \in 0..Word /\ (n + 1) - 1 = n
        BY <1>3, WordFacts
      <3>3. Plus(cons.head, n) = IF cons.head + n < Word THEN cons.head + n ELSE cons.head + n - Word
        BY <1>2, <3>2, PlusIs
      <3>4. Plus(cons.head, n) = prod.tail
        BY <1>2, <3>1, <3>3, WordFacts DEF MinusFact, Index
      <3> QED BY <2>1, <2>3, <3>2, <3>4, <1>6
    <2>4. i \in 1..n \/ i = n + 1
      <3> HIDE DEF n
      <3> QED BY <1>3
    <2> QED BY <2>2, <2>3, <2>4
  <1>8. Contents' = Append(Contents, o)
    BY <1>5, <1>6, <1>7, SeqEqual
  <1> QED BY <1>3, <1>5, <1>8

LEMMA FifoInit == Init => Fifo!Init
  <1> SUFFICES ASSUME Init PROVE Fifo!Init
    OBVIOUS
  <1>1. ContentsFact
    BY InitInv, ContentsSeq
  <1>2. Minus(0, 0) = 0
    BY MinusNext, WordFacts DEF Index
  <1>3. Contents = <<>>
    BY <1>1, <1>2 DEF Init, ContentsFact
  <1>4. Pending = [p \in Producers |-> NoObj] /\ Taken = [c \in Consumers |-> NoObj]
    BY DEF Init, Pending, Taken, Idle
  <1> QED BY <1>3, <1>4 DEF Fifo!Init

\* What a step of one producer or consumer does to Pending and Taken.
LEMMA PendingNext ==
  ASSUME RingInv, NEW p \in Producers, \A o \in Producers \ {p} : enq'[o] = enq[o]
  PROVE  Pending' = [Pending EXCEPT ![p] = enq'[p].obj]
  BY DEF Pending

LEMMA TakenNext ==
  ASSUME RingInv, NEW c \in Consumers, \A o \in Consumers \ {c} : deq'[o] = deq[o],
         \A o \in Consumers \ {c} : deq[o].pc = "load" =>
           ring'[Slot(deq[o].old)] = ring[Slot(deq[o].old)]
  PROVE  Taken' = [Taken EXCEPT ![c] = IF deq'[c].pc = "load" THEN ring'[Slot(deq'[c].old)]
                                                             ELSE deq'[c].obj]
  BY DEF Taken

fifo == <<Contents, Pending, Taken>>

LEMMA FifoEnqueue ==
  ASSUME RingInv, RingInv', FlagsAreTrue, NEW p \in Producers, rte_ring_enqueue(p)
  PROVE  [Fifo!Next]_fifo
  <1>0. /\ UNCHANGED <<cons, deq>> /\ \A o \in Producers \ {p} : enq'[o] = enq[o]
    BY DEF RingInv, TypeOK, rte_ring_enqueue, Enqueue, LoadProdHead, Room, MoveProdHead,
           StoreSlot, UpdateProdTail
  <1>1. Pending' = [Pending EXCEPT ![p] = enq'[p].obj] /\ Pending[p] = enq[p].obj
    BY <1>0, PendingNext DEF Pending
  <1>2. enq'[p].obj = enq[p].obj => Pending' = Pending
    BY <1>0 DEF Pending
  <1>3. ring' = ring => Taken' = Taken
    BY <1>0 DEF Taken
  <1>4. ring' = ring /\ prod'.tail = prod.tail => Contents' = Contents
    BY <1>0, ContentsSame
  <1>5. CASE Enqueue(p)
    <2>1. PICK o \in Objs : enq'[p].obj = o
      BY <1>5 DEF RingInv, TypeOK, Enqueue
    <2>2. UNCHANGED <<ring, prod>> /\ Pending[p] = NoObj
      BY <1>1, <1>5, RingAssumption DEF Enqueue, RingInv, SlotInv, TypeOK, Local
    <2>3. Fifo!Offer(p)
      BY <1>1, <1>3, <1>4, <2>1, <2>2 DEF Fifo!Offer
    <2> QED BY <2>3 DEF Fifo!Next
  <1>6. CASE LoadProdHead(p)
    <2>1. UNCHANGED <<ring, prod>> /\ enq'[p].obj = enq[p].obj
      BY <1>6 DEF LoadProdHead, RingInv, TypeOK, Local
    <2> QED BY <2>1, <1>2, <1>3, <1>4 DEF fifo
  <1>7. CASE Room(p)
    <2>1. UNCHANGED <<ring, prod>> /\ enq[p].obj \in Objs
          /\ (enq'[p].obj = enq[p].obj \/ enq'[p].obj = NoObj)
      BY <1>7 DEF Room, RingInv, TypeOK, SlotInv, Local, Idle
    <2>2. CASE enq'[p].obj = enq[p].obj
      BY <2>1, <2>2, <1>2, <1>3, <1>4 DEF fifo
    <2>3. CASE enq'[p].obj = NoObj
      <3>1. Fifo!Refuse(p)
        BY <2>1, <2>3, <1>1, <1>3, <1>4, RingAssumption DEF Fifo!Refuse
      <3> QED BY <3>1 DEF Fifo!Next
    <2> QED BY <2>1, <2>2, <2>3
  <1>8. CASE MoveProdHead(p)
    <2>1. ring' = ring /\ prod'.tail = prod.tail /\ enq'[p].obj = enq[p].obj
      BY <1>8 DEF MoveProdHead, RingInv, TypeOK, Local, HeadTail
    <2> QED BY <2>1, <1>2, <1>3, <1>4 DEF fifo
  <1>9. CASE StoreSlot(p)
    <2>1. prod' = prod /\ enq'[p].obj = enq[p].obj /\ enq[p].old \in Window(prod.tail, prod.head)
          /\ ring' = [ring EXCEPT ![Slot(enq[p].old)] = enq[p].obj]
      BY <1>9 DEF StoreSlot, RingInv, TypeOK, Local, OwnerInv, Filling
    <2>2. \A i \in Window(cons.tail, prod.tail) : ring'[Slot(i)] = ring[Slot(i)]
      <3>1. \A i \in Window(cons.tail, prod.tail) :
              Slot(i) # Slot(enq[p].old) /\ Slot(i) \in 0..(Size - 1)
        BY <2>1, Windows, SlotIs DEF RingInv
      <3> QED BY <3>1, <2>1 DEF RingInv, TypeOK
    <2>3. Contents' = Contents
      BY <1>0, <2>1, <2>2, Windows, ContentsSame DEF RingInv
    <2>4. \A c \in Consumers : deq[c].pc = "load" => deq[c].old \in Window(cons.tail, prod.tail)
      BY Windows DEF RingInv, OwnerInv, Reading
    <2>5. Taken' = Taken
      BY <1>0, <2>2, <2>4 DEF Taken
    <2> QED BY <2>1, <2>3, <2>5, <1>2 DEF fifo
  <1>10. CASE UpdateProdTail(p)
    <2>1. enq[p].old = prod.tail /\ prod.tail # prod.head /\ ring' = ring
      BY <1>10, TailIsOldest DEF UpdateProdTail
    <2>2. prod'.tail = Plus(prod.tail, 1) /\ enq'[p].obj = NoObj
      BY <1>10, <2>1 DEF UpdateProdTail, RingInv, TypeOK, HeadTail, Idle
    <2>3. enq[p].obj \in Objs /\ ring[Slot(prod.tail)] = enq[p].obj
      BY <1>10, <2>1 DEF UpdateProdTail, RingInv, SlotInv
    <2>4. Len(Contents) < Capacity /\ Contents' = Append(Contents, enq[p].obj)
      BY <1>0, <2>1, <2>2, <2>3, ContentsAppend
    <2>5. Fifo!Append1(p)
      BY <1>1, <1>3, <2>1, <2>2, <2>3, <2>4, RingAssumption DEF Fifo!Append1
    <2> QED BY <2>5 DEF Fifo!Next
  <1> QED BY <1>5, <1>6, <1>7, <1>8, <1>9, <1>10 DEF rte_ring_enqueue

LEMMA FifoDequeue ==
  ASSUME RingInv, RingInv', FlagsAreTrue, NEW c \in Consumers, rte_ring_dequeue(c)
  PROVE  [Fifo!Next]_fifo
  <1>0. UNCHANGED <<prod, enq>> /\ \A o \in Consumers \ {c} : deq'[o] = deq[o]
    BY DEF RingInv, TypeOK, rte_ring_dequeue, LoadConsHead, Entries, MoveConsHead,
           LoadSlot, UpdateConsTail
  <1>1. Pending' = Pending
    BY <1>0 DEF Pending
  <1> DEFINE now == IF deq[c].pc = "load" THEN ring[Slot(deq[c].old)] ELSE deq[c].obj
             then == IF deq'[c].pc = "load" THEN ring'[Slot(deq'[c].old)] ELSE deq'[c].obj
  <1>2. ring' = ring => Taken' = [Taken EXCEPT ![c] = then]
    BY <1>0, TakenNext
  <1>3. ring' = ring /\ then = now => Taken' = Taken
    BY <1>0 DEF Taken
  <1>4. ring' = ring /\ cons'.head = cons.head => Contents' = Contents
    BY <1>0, ContentsSame
  <1>5. deq[c].pc # "tail" => deq[c].obj = NoObj
    BY DEF RingInv, SlotInv
  <1>6. CASE LoadConsHead(c) \/ Entries(c)
    <2>1. UNCHANGED <<ring, cons>> /\ deq[c].pc \in {"idle", "entries"}
          /\ deq'[c].pc \notin {"load", "tail"} /\ deq'[c].obj = NoObj
      BY <1>5, <1>6 DEF LoadConsHead, Entries, RingInv, TypeOK, Local, Idle
    <2> QED BY <2>1, <1>1, <1>3, <1>4, <1>5 DEF fifo
  <1>7. CASE MoveConsHead(c)
    <2>1. ring' = ring /\ deq[c].pc = "move"
      BY <1>7 DEF MoveConsHead
    <2>2. CASE deq' = [deq EXCEPT ![c] = Idle] /\ UNCHANGED cons
      <3>1. deq'[c].pc = "idle" /\ deq'[c].obj = NoObj
        BY <2>2 DEF RingInv, TypeOK, Idle
      <3> QED BY <2>1, <2>2, <3>1, <1>1, <1>3, <1>4, <1>5 DEF fifo
    <2>3. CASE /\ cons' = [cons EXCEPT !.head = Plus(deq[c].old, 1)]
               /\ deq' = [deq EXCEPT ![c].pc = "load"]
               /\ ScDeq \/ cons.head = deq[c].old
      <3>1. /\ deq[c].old = cons.head /\ cons'.head = Plus(cons.head, 1)
            /\ cons.head # prod.tail
        BY <2>1, <2>3 DEF RingInv, HeadInv, TypeOK, HeadTail
      <3>2. deq'[c].pc = "load" /\ deq'[c].old = cons.head
        BY <2>3, <3>1 DEF RingInv, TypeOK, Local
      <3>3. /\ Contents # <<>> /\ Head(Contents) = ring[Slot(cons.head)]
            /\ Contents' = Tail(Contents)
        BY <1>0, <2>1, <3>1, ContentsTail
      <3>4. Fifo!Take(c)
        BY <1>1, <1>2, <2>1, <3>2, <3>3 DEF Fifo!Take
      <3> QED BY <3>4 DEF Fifo!Next
    <2> QED BY <1>7, <2>2, <2>3 DEF MoveConsHead
  <1>8. CASE LoadSlot(c)
    <2>1. UNCHANGED <<ring, cons>> /\ deq[c].pc = "load" /\ deq'[c].pc = "tail"
          /\ deq'[c].obj = ring[Slot(deq[c].old)]
      BY <1>8 DEF LoadSlot, RingInv, TypeOK, Local
    <2> QED BY <2>1, <1>1, <1>3, <1>4 DEF fifo
  <1>9. CASE UpdateConsTail(c)
    <2>1. /\ cons'.head = cons.head /\ deq'[c].pc = "idle" /\ deq'[c].obj = NoObj
          /\ deq[c].old \in Window(cons.tail, cons.head) /\ Reading(c)
          /\ ring' = [ring EXCEPT ![Slot(deq[c].old)] = NoObj]
      BY <1>9 DEF UpdateConsTail, RingInv, TypeOK, HeadTail, Idle, OwnerInv, Reading
    <2>2. \A i \in Window(cons.tail, prod.tail) \ {deq[c].old} : ring'[Slot(i)] = ring[Slot(i)]
      <3>1. \A i \in Window(cons.tail, prod.tail) \ {deq[c].old} :
              Slot(i) # Slot(deq[c].old) /\ Slot(i) \in 0..(Size - 1)
        BY <2>1, Windows, SlotIs DEF RingInv
      <3> QED BY <3>1, <2>1 DEF RingInv, TypeOK
    <2>3. Contents' = Contents
      <3>1. \A i \in Window(cons.head, prod.tail) : i \in Window(cons.tail, prod.tail) \ {deq[c].old}
        BY <2>1, Windows DEF RingInv
      <3> QED BY <1>0, <2>1, <2>2, <3>1, ContentsSame
    <2>4. ASSUME NEW o \in Consumers \ {c}, deq[o].pc = "load"
          PROVE  ring'[Slot(deq[o].old)] = ring[Slot(deq[o].old)]
      <3>1. deq[o].old \in Window(cons.tail, prod.tail) \ {deq[c].old}
        BY <2>1, <2>4, Windows DEF RingInv, OwnerInv, Reading
      <3> QED BY <2>2, <3>1
    <2>5. Taken' = [Taken EXCEPT ![c] = then]
      BY <1>0, <2>4, TakenNext
    <2>6. Fifo!Release(c)
      BY <1>1, <2>1, <2>3, <2>5 DEF Fifo!Release
    <2> QED BY <2>6 DEF Fifo!Next
  <1> QED BY <1>6, <1>7, <1>8, <1>9 DEF rte_ring_dequeue

\* An rte_ring is a bounded queue, whatever its size, its users and the interleaving
\* of their loads and stores: each step of an enqueue or dequeue is a step of RingFifo
\* or changes nothing that RingFifo sees (rte_ring_enqueue, rte_ring_dequeue).
THEOREM RingImplementsFifo == FlagsAreTrue => (Spec => IsFifo)
  <1> SUFFICES ASSUME FlagsAreTrue PROVE Spec => IsFifo
    OBVIOUS
  <1>1. RingInv /\ RingInv' /\ [Next]_vars => [Fifo!Next]_fifo
    <2> SUFFICES ASSUME RingInv, RingInv', [Next]_vars PROVE [Fifo!Next]_fifo
      OBVIOUS
    <2>1. CASE UNCHANGED vars
      BY <2>1 DEF vars, fifo, Contents, Pending, Taken
    <2> QED BY <2>1, FifoEnqueue, FifoDequeue DEF Next
  <1>2. Spec => []RingInv
    BY SpecRingInv
  <1> QED BY <1>1, <1>2, FifoInit, PTL DEF Spec, IsFifo, Fifo!Spec, fifo
=============================================================================
