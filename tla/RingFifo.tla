------------------------------ MODULE RingFifo ------------------------------
(***************************************************************************)
(* What an rte_ring promises its users: a bounded queue.  An enqueue       *)
(* either appends its own object at one instant or is refused, a dequeue   *)
(* takes the oldest object.                                                *)
(***************************************************************************)
EXTENDS Naturals, Sequences

CONSTANTS Objs, Producers, Consumers, Capacity, NoObj

VARIABLES q,      \* the objects in the ring
          pend,   \* the object each producer is enqueueing, or NoObj
          got     \* the object each consumer has dequeued last, or NoObj

Init ==
  /\ q = <<>>
  /\ pend = [p \in Producers |-> NoObj]
  /\ got  = [c \in Consumers |-> NoObj]

Offer(p) ==
  /\ pend[p] = NoObj
  /\ \E o \in Objs : pend' = [pend EXCEPT ![p] = o]
  /\ UNCHANGED <<q, got>>

Append1(p) ==
  /\ pend[p] # NoObj
  /\ Len(q) < Capacity
  /\ q' = Append(q, pend[p])
  /\ pend' = [pend EXCEPT ![p] = NoObj]
  /\ UNCHANGED got

Refuse(p) ==
  /\ pend[p] # NoObj
  /\ pend' = [pend EXCEPT ![p] = NoObj]
  /\ UNCHANGED <<q, got>>

Take(c) ==
  /\ q # <<>>
  /\ got' = [got EXCEPT ![c] = Head(q)]
  /\ q' = Tail(q)
  /\ UNCHANGED pend

Release(c) ==
  /\ got' = [got EXCEPT ![c] = NoObj]
  /\ UNCHANGED <<q, pend>>

Next == \/ \E p \in Producers : Offer(p) \/ Append1(p) \/ Refuse(p)
        \/ \E c \in Consumers : Take(c) \/ Release(c)

Spec == Init /\ [][Next]_<<q, pend, got>>
=============================================================================
