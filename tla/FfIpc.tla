-------------------------------- MODULE FfIpc --------------------------------
(***************************************************************************)
(* The control plane: the tools (ff_top, ff_sysctl, ff_ifconfig...) send   *)
(* messages of a shared pool to an F-Stack process through the ring        *)
(* ff_msg_ring_in and take the answers from one ring per message type,     *)
(* ff_msg_ring_out (tools/compat/ff_ipc.c, handle_msg of ff_dpdk_if.c).    *)
(* A message is a pointer into memory that all of them share: what a tool  *)
(* writes into it the process sees, whoever owns it by then.               *)
(*                                                                         *)
(* The rings are made for one producer and one consumer (RING_F_SP_ENQ,    *)
(* RING_F_SC_DEQ), which is why "these tools must be executed serially"    *)
(* (tools/README.md): at most one call is under way here, of any type.  A  *)
(* tool can be killed between any two of its steps, the steps of a ring    *)
(* operation included; the indices it has moved stay where they are, and   *)
(* the next tool goes on from there.  It gives up its message after 1000   *)
(* attempts a millisecond apart, wherever the message is by then.          *)
(***************************************************************************)
EXTENDS Naturals, FiniteSets, Sequences

CONSTANTS
  Msgs, NoMsg,    \* the objects of message_pool
  Types,          \* the message types: FF_TOP, FF_SYSCTL...
  FF_UNKNOWN,     \* the type of a message that was never used
  Capacity,       \* entries of a ring: MSG_RING_SIZE - 1
  MaxKills,       \* bound: how often a tool is killed
  MaxLate         \* bound: after so many late give-ups one more call is made

ASSUME IpcAssumption ==
  /\ NoMsg \notin Msgs /\ FF_UNKNOWN \notin Types
  /\ Capacity \in Nat \ {0} /\ MaxKills \in Nat /\ MaxLate \in Nat

VARIABLES
  pool,     \* how often each message is in message_pool
  data,     \* the contents: msg_type, and whether the request was handled
  in,       \* ff_msg_ring_in from cons.tail to prod.head; NoMsg: not stored yet
  ready,    \* how many of these entries are before prod.tail
  out,      \* ff_msg_ring_out of each type, from cons.head to prod.tail
  taken,    \* its entries between cons.tail and cons.head
  tool,     \* the tool that is running: pc, msg and retmsg
  server,   \* the message that process_msg_ring has dequeued, and how far it is
  kills, late,
  stray     \* history: messages that were freed, or handled, while on their way

ring == <<in, ready, out, taken>>
vars == <<pool, data, in, ready, out, taken, tool, server, kills, late, stray>>

Elems(s) == {s[i] : i \in DOMAIN s}
Null == Msgs \cup {NoMsg}
Data == [type : Types \cup {FF_UNKNOWN}, handled : BOOLEAN]
ToolPC == {"idle", "filled", "moved", "stored", "recv", "took", "stale", "ok", "failed"}
Idle == [pc |-> "idle", msg |-> NoMsg, retmsg |-> NoMsg]
Poll == [pc |-> "poll", msg |-> NoMsg]

TypeOK ==
  /\ pool \in [Msgs -> Nat]
  /\ data \in [Msgs -> Data]
  /\ in \in Seq(Null) /\ Len(in) <= Capacity /\ ready \in 0..Len(in)
  /\ out \in [Types -> Seq(Msgs)] /\ taken \in [Types -> Nat]
  /\ \A y \in Types : Len(out[y]) + taken[y] <= Capacity
  /\ tool \in [pc : ToolPC, msg : Null, retmsg : Null]
  /\ server \in [pc : {"poll", "handle", "reply", "dead"}, msg : Null]
  /\ kills \in 0..MaxKills /\ late \in Nat
  /\ stray \subseteq Msgs

\* init_msg_ring, ff_msg_init
Init ==
  /\ pool = [m \in Msgs |-> 1]
  /\ data = [m \in Msgs |-> [type |-> FF_UNKNOWN, handled |-> FALSE]]
  /\ in = <<>> /\ ready = 0
  /\ out = [y \in Types |-> <<>>] /\ taken = [y \in Types |-> 0]
  /\ tool = Idle /\ server = Poll
  /\ kills = 0 /\ late = 0 /\ stray = {}

-----------------------------------------------------------------------------
\* ff_ipc_msg_free: rte_mempool_put.
Freed(m) == [pool EXCEPT ![m] = @ + 1]

\* Where a message is that was sent and has not come back.
InFlight(m) == m \in Elems(in) \/ server.msg = m \/ \E y \in Types : m \in Elems(out[y])

\* ff_ipc_msg_alloc by a tool of any type, which fills the message in.  An empty
\* pool ends the call at once.
ff_ipc_msg_alloc ==
  /\ tool.pc = "idle" /\ late <= MaxLate
  /\ \E m \in Msgs, y \in Types :
       /\ pool[m] > 0
       /\ pool' = [pool EXCEPT ![m] = @ - 1]
       /\ data' = [data EXCEPT ![m] = [type |-> y, handled |-> FALSE]]
       /\ tool' = [pc |-> "filled", msg |-> m, retmsg |-> NoMsg]
  /\ UNCHANGED <<ring, server, kills, late, stray>>

\* ff_ipc_send: rte_ring_enqueue moves prod.head, stores the pointer and moves
\* prod.tail to behind it.  When the ring is full the call fails.
ff_ipc_send ==
  /\ tool.pc = "filled"
  /\ IF Len(in) < Capacity
     THEN in' = Append(in, NoMsg) /\ tool' = [tool EXCEPT !.pc = "moved"]
     ELSE tool' = [tool EXCEPT !.pc = "failed"] /\ UNCHANGED in
  /\ UNCHANGED <<pool, data, ready, out, taken, server, kills, late, stray>>

Store ==
  /\ tool.pc = "moved"
  /\ in' = [in EXCEPT ![Len(in)] = tool.msg]
  /\ tool' = [tool EXCEPT !.pc = "stored"]
  /\ UNCHANGED <<pool, data, ready, out, taken, server, kills, late, stray>>

Publish ==
  /\ tool.pc = "stored"
  /\ ready' = Len(in)
  /\ tool' = [tool EXCEPT !.pc = "recv"]
  /\ UNCHANGED <<pool, data, in, out, taken, server, kills, late, stray>>

OutOf == data[tool.msg].type

\* ff_ipc_recv finds an answer: rte_ring_dequeue moves cons.head and loads the
\* pointer ...
Take ==
  /\ tool.pc = "recv" /\ out[OutOf] # <<>>
  /\ tool' = [pc |-> "took", msg |-> tool.msg, retmsg |-> Head(out[OutOf])]
  /\ out' = [out EXCEPT ![OutOf] = Tail(@)]
  /\ taken' = [taken EXCEPT ![OutOf] = @ + 1]
  /\ UNCHANGED <<pool, data, in, ready, server, kills, late, stray>>

\* ... and moves cons.tail up to cons.head.  The caller's own message ends its loop.
Received ==
  /\ tool.pc = "took"
  /\ taken' = [taken EXCEPT ![OutOf] = 0]
  /\ tool' = [tool EXCEPT !.pc = IF tool.retmsg = tool.msg THEN "ok" ELSE "stale"]
  /\ UNCHANGED <<pool, data, in, ready, out, server, kills, late, stray>>

\* Mutant of NotMine: somebody else's answer is dropped, not freed.
NotMine_Kept ==
  /\ tool.pc = "stale"
  /\ tool' = [pc |-> "recv", msg |-> tool.msg, retmsg |-> NoMsg]
  /\ UNCHANGED <<pool, data, ring, server, kills, late, stray>>

\* Mutant of NotMine: any answer ends the loop.
NotMine_Taken ==
  /\ tool.pc = "stale"
  /\ tool' = [tool EXCEPT !.pc = "ok"]
  /\ UNCHANGED <<pool, data, ring, server, kills, late, stray>>

\* Another message, left by a caller that is gone, is freed.
NotMine ==
  /\ tool.pc = "stale"
  /\ pool' = Freed(tool.retmsg)
  /\ tool' = [pc |-> "recv", msg |-> tool.msg, retmsg |-> NoMsg]
  /\ UNCHANGED <<data, ring, server, kills, late, stray>>

\* Mutant of GiveUp: ff_ipc_recv tries for ever.
GiveUp_Never == /\ tool.pc = "recv" /\ out[OutOf] = <<>>
                /\ UNCHANGED vars

\* ff_ipc_recv gives up after its attempts have found nothing, also when the
\* message is still with the process.
GiveUp ==
  /\ tool.pc = "recv" /\ out[OutOf] = <<>>
  /\ tool' = [tool EXCEPT !.pc = "failed"]
  /\ IF InFlight(tool.msg)
     THEN late' = late + 1 /\ stray' = stray \cup {tool.msg}
     ELSE UNCHANGED <<late, stray>>
  /\ UNCHANGED <<pool, data, ring, server, kills>>

\* The call returns, and frees the message it sent.
Finish ==
  /\ tool.pc \in {"ok", "failed"}
  /\ pool' = Freed(tool.msg)
  /\ tool' = Idle
  /\ UNCHANGED <<data, ring, server, kills, late, stray>>

Kill ==
  /\ kills < MaxKills /\ tool.pc # "idle"
  /\ tool' = Idle
  /\ kills' = kills + 1
  /\ UNCHANGED <<pool, data, ring, server, late, stray>>

-----------------------------------------------------------------------------
\* process_msg_ring: the process has the ring for itself.  An entry that a killed
\* tool reserved and never stored is published by the next tool's enqueue: it
\* holds what it held before, NULL or a message of an earlier round.
process_msg_ring ==
  /\ server.pc = "poll" /\ ready > 0
  /\ in' = Tail(in) /\ ready' = ready - 1
  /\ \/ /\ Head(in) # NoMsg
        /\ server' = [pc |-> "handle", msg |-> Head(in)]
        /\ UNCHANGED stray
     \/ /\ Head(in) = NoMsg
        /\ \E m \in {m \in Msgs : data[m].type # FF_UNKNOWN} :
             /\ server' = [pc |-> "handle", msg |-> m]
             /\ stray' = stray \cup {m}
     \/ /\ Head(in) = NoMsg
        /\ server' = [pc |-> "dead", msg |-> NoMsg]
        /\ UNCHANGED stray
  /\ UNCHANGED <<pool, data, out, taken, tool, kills, late>>

\* handle_msg: the handler of the type, or handle_default_msg, sets the result.
handle_msg ==
  /\ server.pc = "handle"
  /\ data' = [data EXCEPT ![server.msg].handled = TRUE]
  /\ server' = [server EXCEPT !.pc = "reply"]
  /\ UNCHANGED <<pool, ring, tool, kills, late, stray>>

Full(y) == Len(out[y]) + taken[y] = Capacity

\* Mutant of Reply: the message is freed when the tool's ring is full.
Reply_Frees ==
  /\ server.pc = "reply"
  /\ LET y == data[server.msg].type IN
       IF Full(y)
       THEN pool' = Freed(server.msg) /\ UNCHANGED out
       ELSE out' = [out EXCEPT ![y] = Append(@, server.msg)] /\ UNCHANGED pool
  /\ server' = Poll
  /\ UNCHANGED <<data, in, ready, taken, tool, kills, late, stray>>

\* The end of handle_msg: the answer goes to the ring of its type.  Nobody looks
\* at the result of the enqueue: when that ring is full the answer is dropped.
Reply ==
  /\ server.pc = "reply"
  /\ LET y == data[server.msg].type IN
       out' = IF Full(y) THEN out ELSE [out EXCEPT ![y] = Append(@, server.msg)]
  /\ server' = Poll
  /\ UNCHANGED <<pool, data, in, ready, taken, tool, kills, late, stray>>

Server == process_msg_ring \/ handle_msg \/ Reply

\* What a tool does with its message, until it returns.
Call ==
  \/ ff_ipc_send \/ Store \/ Publish \/ Take \/ Received
  \/ NotMine \/ GiveUp \/ Finish

Next == ff_ipc_msg_alloc \/ Call \/ Kill \/ Server

Spec == Init /\ [][Next]_vars

\* A tool that has its message runs until it returns.  Whether one is started is
\* the user's choice, and how fast the process answers does not matter.
FairSpec == Spec /\ WF_vars(Call)

-----------------------------------------------------------------------------
\* Message m is at most once in a ring.
Once(s, m) == \A i, j \in DOMAIN s : s[i] = m /\ s[j] = m => i = j

\* The tool owns the message it has not stored, has back or drains.
Holds(m) ==
  \/ tool.pc \in {"filled", "moved", "ok", "failed"} /\ tool.msg = m
  \/ tool.pc \in {"took", "stale"} /\ tool.retmsg = m

FreeOnce(m) == pool[m] <= 1 /\ (pool[m] = 1 => ~InFlight(m) /\ ~Holds(m))
HeldOnce(m) == Holds(m) => ~InFlight(m)
SentOnce(m) ==
  /\ Once(in, m)
  /\ m \in Elems(in) => server.msg # m
  /\ \A y \in Types : Once(out[y], m)
  /\ \A y \in Types : m \in Elems(out[y]) =>
       /\ m \notin Elems(in) /\ server.msg # m
       /\ \A z \in Types \ {y} : m \notin Elems(out[z])

\* A message is in one place: once in the pool, in one ring, with the process that
\* handles it, or with the tool (ff_ipc_msg_free, handle_msg).  What a late
\* give-up or a torn enqueue has made a mess of stays confined to the messages
\* concerned: no other one is ever freed twice or used while it is free.
OneOwner == \A m \in Msgs \ stray : FreeOnce(m) /\ HeldOnce(m) /\ SentOnce(m)

\* A call that succeeds has had its own request handled: it is not taken in by
\* an answer that a killed tool, or a call on another message that gave up, left
\* in the ring (while (msg != retmsg)).
OwnAnswer ==
  tool.pc = "ok" => /\ tool.msg = tool.retmsg
                    /\ tool.msg \notin stray => data[tool.msg].handled

\* No message is freed that is in the pool already: not so after a late give-up.
NoDoubleFree == \A m \in Msgs : pool[m] <= 1

-----------------------------------------------------------------------------
(***************************************************************************)
(* The rest of an inductive invariant.                                     *)
(***************************************************************************)
\* The message of a call keeps the type it was given, also when it is stray.
CallInv ==
  /\ tool.pc # "idle" =>
       /\ tool.msg \in Msgs /\ data[tool.msg].type \in Types
       /\ tool.msg \notin stray => pool[tool.msg] = 0
  /\ tool.pc \in {"took", "stale"} => tool.retmsg \in Msgs
  /\ tool.pc = "stale" => tool.retmsg # tool.msg
  /\ tool.pc = "took" /\ tool.retmsg \notin stray => data[tool.retmsg].handled

\* The entry a tool stores into is the last one, and is empty.
StoreInv == tool.pc \in {"moved", "stored"} =>
  /\ Len(in) > ready
  /\ tool.pc = "moved" => in[Len(in)] = NoMsg

\* What was sent has a type; an answer in a ring has been handled.
AnswerInv ==
  /\ \A m \in Msgs : InFlight(m) => data[m].type \in Types
  /\ \A y \in Types : \A m \in Elems(out[y]) \ stray : data[m].handled
  /\ server.pc \in {"handle", "reply"} <=> server.msg # NoMsg
  /\ server.pc = "reply" /\ server.msg \notin stray => data[server.msg].handled

\* The inductive invariant.
IpcInv == TypeOK /\ OneOwner /\ CallInv /\ StoreInv /\ AnswerInv /\ OwnAnswer

-----------------------------------------------------------------------------
\* Nobody knows message m any more.
Lost(m) == pool[m] = 0 /\ ~InFlight(m) /\ m \notin {tool.msg, tool.retmsg}

\* A message is only lost with a tool that is killed, or when its answer finds a
\* full ring: what a killed tool had sent is freed by the next of its kind.
NoLeak == [][\A m \in Msgs : ~Lost(m) /\ Lost(m)' =>
               \/ kills' # kills
               \/ server.msg = m /\ Full(data[m].type)]_vars

\* A call returns, whatever becomes of its message: the answer may be dropped, the
\* ring full of other answers, the process dead (MAX_ATTEMPTS_NUM).
CallReturns == tool.pc # "idle" ~> tool.pc = "idle"
=============================================================================
