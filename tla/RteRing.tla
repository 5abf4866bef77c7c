------------------------------- MODULE RteRing -------------------------------
(***************************************************************************)
(* The lock-free ring through which F-Stack's processes exchange packets   *)
(* (dispatch_ring) and messages (msg_ring): rte_ring_enqueue and           *)
(* rte_ring_dequeue of one object, rte_ring_generic.h.  Producers move     *)
(* prod.head to reserve a slot, fill it, and move prod.tail to publish it; *)
(* consumers do the same with cons.head and cons.tail.  With RING_F_SP_ENQ *)
(* and RING_F_SC_DEQ the head is moved by a plain store, otherwise by      *)
(* compare-and-set, and the tails are moved in the order of the heads.     *)
(*                                                                         *)
(* The indices are unsigned words that overflow; here they have Word       *)
(* values, and a producer is assumed not to sleep through 2^32 enqueues of *)
(* the others (NoLap).  One load or store of a shared word is one step     *)
(* (loads are not reordered, as on x86).                                   *)
(***************************************************************************)
EXTENDS Naturals, FiniteSets, Sequences

CONSTANTS
  Objs,                  \* the objects (pointers) that travel through the ring
  NoObj,
  Producers, Consumers,  \* the processes at its two ends
  Size,                  \* r->size, a power of two
  Word,                  \* 2^32 in the code
  SpEnq, ScDeq           \* RING_F_SP_ENQ, RING_F_SC_DEQ

ASSUME RingAssumption ==
  /\ Size \in Nat \ {0, 1} /\ Word \in Nat /\ Word % Size = 0 /\ Word > Size
  /\ SpEnq \in BOOLEAN /\ ScDeq \in BOOLEAN
  /\ NoObj \notin Objs /\ IsFiniteSet(Objs)

VARIABLES prod, cons,    \* r->prod and r->cons
          ring,          \* the slots
          enq, deq,      \* each producer and consumer: pc, old_head, object
          free           \* the objects nobody uses

vars == <<prod, cons, ring, enq, deq, free>>

Capacity == Size - 1
Index == 0..(Word - 1)
Plus(a, b) == (a + b) % Word
Minus(a, b) == (a + Word - b) % Word
Slot(i) == i % Size

HeadTail == [head : Index, tail : Index]
Local(PC) == [pc : PC, old : Index, obj : Objs \cup {NoObj}]
Idle == [pc |-> "idle", old |-> 0, obj |-> NoObj]
EnqPC == {"idle", "load", "room", "move", "store", "tail"}
DeqPC == {"idle", "entries", "move", "load", "tail"}

TypeOK ==
  /\ prod \in HeadTail /\ cons \in HeadTail
  /\ ring \in [0..(Size - 1) -> Objs \cup {NoObj}]
  /\ enq \in [Producers -> Local(EnqPC)] /\ deq \in [Consumers -> Local(DeqPC)]
  /\ free \subseteq Objs

\* rte_ring_init
Init ==
  /\ prod = [head |-> 0, tail |-> 0] /\ cons = [head |-> 0, tail |-> 0]
  /\ ring = [i \in 0..(Size - 1) |-> NoObj]
  /\ enq = [p \in Producers |-> Idle] /\ deq = [c \in Consumers |-> Idle]
  /\ free = Objs

-----------------------------------------------------------------------------
\* rte_ring_enqueue(r, obj), with the load *old_head = r->prod.head.
Enqueue(p) ==
  /\ enq[p].pc = "idle"
  /\ \E o \in free :
       /\ enq' = [enq EXCEPT ![p] = [pc |-> "room", old |-> prod.head, obj |-> o]]
       /\ free' = free \ {o}
  /\ UNCHANGED <<prod, cons, ring, deq>>

\* Once more after a failed compare-and-set.
LoadProdHead(p) ==
  /\ enq[p].pc = "load"
  /\ enq' = [enq EXCEPT ![p].pc = "room", ![p].old = prod.head]
  /\ UNCHANGED <<prod, cons, ring, deq, free>>

\* Mutant of Room: the whole size is used, not size - 1.
Room_OffByOne(p) ==
  /\ enq[p].pc = "room"
  /\ IF Minus(Plus(Size, cons.tail), enq[p].old) = 0
     THEN /\ enq' = [enq EXCEPT ![p] = Idle]
          /\ free' = free \cup {enq[p].obj}
     ELSE enq' = [enq EXCEPT ![p].pc = "move"] /\ UNCHANGED free
  /\ UNCHANGED <<prod, cons, ring, deq>>

\* *free_entries = capacity + r->cons.tail - *old_head; when that is 0 the
\* enqueue is refused and the caller keeps its object.
Room(p) ==
  /\ enq[p].pc = "room"
  /\ IF Minus(Plus(Capacity, cons.tail), enq[p].old) = 0
     THEN /\ enq' = [enq EXCEPT ![p] = Idle]
          /\ free' = free \cup {enq[p].obj}
     ELSE enq' = [enq EXCEPT ![p].pc = "move"] /\ UNCHANGED free
  /\ UNCHANGED <<prod, cons, ring, deq>>

\* Mutant of MoveProdHead: the compare-and-set is a plain store.
MoveProdHead_Plain(p) ==
  /\ enq[p].pc = "move"
  /\ prod' = [prod EXCEPT !.head = Plus(enq[p].old, 1)]
  /\ enq' = [enq EXCEPT ![p].pc = "store"]
  /\ UNCHANGED <<cons, ring, deq, free>>

\* A bound: no producer is delayed between its load of the head and its
\* compare-and-set while the others move the head by a whole word.
NoLap(p) == \A o \in Producers \ {p} :
  enq[o].pc \in {"room", "move"} => Plus(prod.head, 1) # enq[o].old

\* r->prod.head = *new_head, or rte_atomic32_cmpset and once more if it fails.
MoveProdHead(p) ==
  /\ enq[p].pc = "move" /\ NoLap(p)
  /\ IF SpEnq \/ prod.head = enq[p].old
     THEN /\ prod' = [prod EXCEPT !.head = Plus(enq[p].old, 1)]
          /\ enq' = [enq EXCEPT ![p].pc = "store"]
     ELSE enq' = [enq EXCEPT ![p].pc = "load"] /\ UNCHANGED prod
  /\ UNCHANGED <<cons, ring, deq, free>>

\* ENQUEUE_PTRS
StoreSlot(p) ==
  /\ enq[p].pc = "store"
  /\ ring' = [ring EXCEPT ![Slot(enq[p].old)] = enq[p].obj]
  /\ enq' = [enq EXCEPT ![p].pc = "tail"]
  /\ UNCHANGED <<prod, cons, deq, free>>

\* Mutant of UpdateProdTail: producers do not wait for each other.
UpdateProdTail_NoWait(p) ==
  /\ enq[p].pc = "tail"
  /\ prod' = [prod EXCEPT !.tail = Plus(enq[p].old, 1)]
  /\ enq' = [enq EXCEPT ![p] = Idle]
  /\ UNCHANGED <<cons, ring, deq, free>>

\* Mutant of UpdateProdTail: wait until nobody has reserved a later slot.
UpdateProdTail_Newest(p) ==
  /\ enq[p].pc = "tail"
  /\ prod.head = Plus(enq[p].old, 1)
  /\ prod' = [prod EXCEPT !.tail = Plus(enq[p].old, 1)]
  /\ enq' = [enq EXCEPT ![p] = Idle]
  /\ UNCHANGED <<cons, ring, deq, free>>

\* update_tail: wait for the producers before us unless there is only one.
UpdateProdTail(p) ==
  /\ enq[p].pc = "tail"
  /\ SpEnq \/ prod.tail = enq[p].old
  /\ prod' = [prod EXCEPT !.tail = Plus(enq[p].old, 1)]
  /\ enq' = [enq EXCEPT ![p] = Idle]
  /\ UNCHANGED <<cons, ring, deq, free>>

-----------------------------------------------------------------------------
\* rte_ring_dequeue(r, &obj): *old_head = r->cons.head
LoadConsHead(c) ==
  /\ deq[c].pc = "idle"
  /\ deq' = [deq EXCEPT ![c].pc = "entries", ![c].old = cons.head]
  /\ UNCHANGED <<prod, cons, ring, enq, free>>

\* *entries = r->prod.tail - *old_head; when that is 0 there is nothing.
Entries(c) ==
  /\ deq[c].pc = "entries"
  /\ deq' = [deq EXCEPT ![c] = IF Minus(prod.tail, deq[c].old) = 0
                               THEN Idle ELSE [@ EXCEPT !.pc = "move"]]
  /\ UNCHANGED <<prod, cons, ring, enq, free>>

\* The same bound for the consumers.
NoLapCons(c) == \A o \in Consumers \ {c} :
  deq[o].pc \in {"entries", "move"} => Plus(cons.head, 1) # deq[o].old

\* r->cons.head = *new_head, or rte_atomic32_cmpset.
MoveConsHead(c) ==
  /\ deq[c].pc = "move" /\ NoLapCons(c)
  /\ IF ScDeq \/ cons.head = deq[c].old
     THEN /\ cons' = [cons EXCEPT !.head = Plus(deq[c].old, 1)]
          /\ deq' = [deq EXCEPT ![c].pc = "load"]
     ELSE deq' = [deq EXCEPT ![c] = Idle] /\ UNCHANGED cons
  /\ UNCHANGED <<prod, ring, enq, free>>

\* DEQUEUE_PTRS
LoadSlot(c) ==
  /\ deq[c].pc = "load"
  /\ deq' = [deq EXCEPT ![c].pc = "tail", ![c].obj = ring[Slot(deq[c].old)]]
  /\ UNCHANGED <<prod, cons, ring, enq, free>>

\* The slot is free again, and the caller is given the object.  It is done with
\* it at once: what becomes of an object does not matter to the ring.  The code
\* leaves the pointer in the slot; here the slot is emptied, so that a load of a
\* slot nobody has filled since shows.
UpdateConsTail(c) ==
  /\ deq[c].pc = "tail"
  /\ ScDeq \/ cons.tail = deq[c].old
  /\ cons' = [cons EXCEPT !.tail = Plus(deq[c].old, 1)]
  /\ free' = free \cup {deq[c].obj}
  /\ ring' = [ring EXCEPT ![Slot(deq[c].old)] = NoObj]
  /\ deq' = [deq EXCEPT ![c] = Idle]
  /\ UNCHANGED <<prod, enq>>

rte_ring_enqueue(p) ==
  \/ Enqueue(p) \/ LoadProdHead(p) \/ Room(p) \/ MoveProdHead(p)
  \/ StoreSlot(p) \/ UpdateProdTail(p)

rte_ring_dequeue(c) ==
  \/ LoadConsHead(c) \/ Entries(c) \/ MoveConsHead(c) \/ LoadSlot(c)
  \/ UpdateConsTail(c)

Next == \/ \E p \in Producers : rte_ring_enqueue(p)
        \/ \E c \in Consumers : rte_ring_dequeue(c)

Spec == Init /\ [][Next]_vars

\* Every process that has begun an operation goes on; starting one is its choice.
FairSpec ==
  /\ Spec
  /\ \A p \in Producers : WF_vars(rte_ring_enqueue(p) /\ enq[p].pc # "idle")
  /\ \A c \in Consumers : WF_vars(rte_ring_dequeue(c))

-----------------------------------------------------------------------------
(***************************************************************************)
(* Why the ring works.  Its indices divide it into windows: what consumers *)
(* are reading, what has been published, what producers are filling, and   *)
(* what is free, in this order from cons.tail on.                          *)
(***************************************************************************)
\* The indices from a up to, not including, b.
Window(a, b) == {i \in Index : Minus(i, a) < Minus(b, a)}

\* The code that creates a ring says which of its ends have one user only.
FlagsAreTrue ==
  /\ SpEnq => \A p, o \in Producers : p = o
  /\ ScDeq => \A c, o \in Consumers : c = o

OrderInv ==
  /\ Minus(cons.head, cons.tail) <= Minus(prod.tail, cons.tail)
  /\ Minus(prod.tail, cons.tail) <= Minus(prod.head, cons.tail)
  /\ Minus(prod.head, cons.tail) <= Capacity

\* A stale head is noticed before a slot is taken.
HeadInv ==
  /\ \A p \in Producers :
       /\ enq[p].pc = "move" /\ enq[p].old = prod.head =>
            Minus(prod.head, cons.tail) < Capacity
       /\ SpEnq /\ enq[p].pc \in {"room", "move"} => enq[p].old = prod.head
  /\ \A c \in Consumers :
       /\ deq[c].pc = "move" /\ deq[c].old = cons.head => cons.head # prod.tail
       /\ ScDeq /\ deq[c].pc \in {"entries", "move"} => deq[c].old = cons.head

Filling(p) == enq[p].pc \in {"store", "tail"}
Reading(c) == deq[c].pc \in {"load", "tail"}

\* Each reserved slot has one owner.
OwnerInv ==
  /\ \A p \in Producers : Filling(p) => enq[p].old \in Window(prod.tail, prod.head)
  /\ \A p, o \in Producers : Filling(p) /\ Filling(o) /\ p # o => enq[p].old # enq[o].old
  /\ \A i \in Window(prod.tail, prod.head) :
       \E p \in Producers : Filling(p) /\ enq[p].old = i
  /\ \A c \in Consumers : Reading(c) => deq[c].old \in Window(cons.tail, cons.head)
  /\ \A c, o \in Consumers : Reading(c) /\ Reading(o) /\ c # o => deq[c].old # deq[o].old
  /\ \A i \in Window(cons.tail, cons.head) :
       \E c \in Consumers : Reading(c) /\ deq[c].old = i

\* What the slots and the processes hold.
SlotInv ==
  /\ \A p \in Producers :
       /\ enq[p].obj \in Objs <=> enq[p].pc # "idle"
       /\ enq[p].pc = "tail" => ring[Slot(enq[p].old)] = enq[p].obj
  /\ \A c \in Consumers :
       deq[c].obj = IF deq[c].pc = "tail" THEN ring[Slot(deq[c].old)] ELSE NoObj
  /\ \A i \in Window(cons.tail, prod.tail) : ring[Slot(i)] \in Objs

\* An object is free, with one producer or in one slot.
ObjInv ==
  /\ \A p \in Producers : enq[p].obj \notin free
  /\ \A p, o \in Producers :
       p # o /\ enq[p].obj \in Objs => enq[p].obj # enq[o].obj
  /\ \A i \in Window(cons.tail, prod.tail) :
       /\ ring[Slot(i)] \notin free
       /\ \A p \in Producers : ring[Slot(i)] # enq[p].obj
       /\ \A j \in Window(cons.tail, prod.tail) : i # j => ring[Slot(i)] # ring[Slot(j)]
  /\ \A o \in Objs :
       \/ o \in free
       \/ \E p \in Producers : enq[p].obj = o
       \/ \E i \in Window(cons.tail, prod.tail) : ring[Slot(i)] = o

\* The inductive invariant: the four windows never overlap although the indices
\* overflow, each slot that is being filled or read has one owner, and each
\* object is in one place (__rte_ring_move_prod_head, update_tail).
RingInv == TypeOK /\ OrderInv /\ HeadInv /\ OwnerInv /\ SlotInv /\ ObjInv

-----------------------------------------------------------------------------
\* The objects published and not yet taken.
Contents ==
  [i \in 1..Minus(prod.tail, cons.head) |-> ring[Slot(Plus(cons.head, i - 1))]]

\* What the producers are enqueueing, and what the consumers have taken.
Pending == [p \in Producers |-> enq[p].obj]
Taken == [c \in Consumers |-> IF deq[c].pc = "load" THEN ring[Slot(deq[c].old)]
                                                    ELSE deq[c].obj]

Fifo == INSTANCE RingFifo WITH q <- Contents, pend <- Pending, got <- Taken

\* The ring is a bounded queue although its indices overflow: every object that
\* is enqueued comes out once, in order, and no slot is filled while a consumer
\* still reads it (__rte_ring_do_enqueue, __rte_ring_do_dequeue).
IsFifo == Fifo!Spec

\* No object is in two places, and none gets lost: when no operation is under
\* way, an object is either in the ring, once, or nobody uses it.
Conserved ==
  (/\ \A p \in Producers : enq[p].pc = "idle"
   /\ \A c \in Consumers : deq[c].pc = "idle") =>
     /\ Minus(prod.tail, cons.head) + Cardinality(free) = Cardinality(Objs)
     /\ \A o \in Objs : o \in free <=> \A i \in DOMAIN Contents : Contents[i] # o

\* A producer that has reserved its slot publishes it: it does not wait for ever
\* for the producers before it (update_tail).  An enqueue as a whole may lose
\* every compare-and-set to others and is not promised to end.
Published == \A p \in Producers : enq[p].pc = "store" ~> enq[p].pc = "idle"
=============================================================================
