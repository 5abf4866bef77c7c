----------------------------- MODULE FfIpcProofs -----------------------------
(***************************************************************************)
(* Who owns a message, for any number of types, messages, kills and late   *)
(* give-ups and rings of any size: IpcInv is inductive.  Messages that a   *)
(* call gave up too early, or that a torn enqueue brought back, are stray; *)
(* the invariant says that they do not touch the others.                   *)
(***************************************************************************)
EXTENDS FfIpc, TLAPS, SequenceTheorems

Tool == [pc : ToolPC, msg : Null, retmsg : Null]

\* What Append does to a ring.
LEMMA RingAppend ==
  ASSUME NEW S, NEW s \in Seq(S), NEW m \in S
  PROVE  /\ Append(s, m) \in Seq(S) /\ Len(Append(s, m)) = Len(s) + 1 /\ Len(s) \in Nat
         /\ Elems(Append(s, m)) = Elems(s) \cup {m}
         /\ Append(s, m)[Len(s) + 1] = m
         /\ \A x : x # m /\ Once(s, x) => Once(Append(s, m), x)
         /\ m \notin Elems(s) => Once(Append(s, m), m)
<1> DEFINE a == Append(s, m)
<1>1. /\ a \in Seq(S) /\ DOMAIN s = 1..Len(s) /\ DOMAIN a = 1..(Len(s) + 1)
      /\ \A i \in 1..Len(s) : a[i] = s[i]
      /\ a[Len(s) + 1] = m /\ Len(s) \in Nat /\ Len(a) = Len(s) + 1
  OBVIOUS
<1> HIDE DEF a
<1>2. Elems(a) = Elems(s) \cup {m}
  BY <1>1 DEF Elems
<1>3. ASSUME NEW x, x # m, Once(s, x)  PROVE Once(a, x)
  <2> SUFFICES ASSUME NEW i \in 1..(Len(s) + 1), NEW j \in 1..(Len(s) + 1), a[i] = x, a[j] = x
               PROVE i = j
    BY <1>1 DEF Once
  <2>1. i \in 1..Len(s) /\ j \in 1..Len(s)
    BY <1>1, <1>3
  <2> QED  BY <1>1, <1>3, <2>1 DEF Once
<1>4. ASSUME m \notin Elems(s)  PROVE Once(a, m)
  BY <1>1, <1>4 DEF Once, Elems
<1> QED  BY <1>1, <1>2, <1>3, <1>4 DEF a

\* What Head and Tail do to a ring.
LEMMA RingTail ==
  ASSUME NEW S, NEW s \in Seq(S), s # <<>>
  PROVE  /\ Tail(s) \in Seq(S) /\ Head(s) \in S /\ Len(s) \in Nat
         /\ Len(Tail(s)) = Len(s) - 1
         /\ Elems(s) = Elems(Tail(s)) \cup {Head(s)}
         /\ \A x : Once(s, x) => Once(Tail(s), x)
         /\ Once(s, Head(s)) => Head(s) \notin Elems(Tail(s))
         /\ Len(s) > 1 => Tail(s)[Len(s) - 1] = s[Len(s)]
<1> DEFINE u == Tail(s)
           n == Len(s)
<1>1. /\ u \in Seq(S) /\ DOMAIN s = 1..n /\ DOMAIN u = 1..(n - 1)
      /\ \A i \in 1..(n - 1) : u[i] = s[i + 1]
      /\ n \in Nat /\ n > 0 /\ Head(s) = s[1] /\ Len(u) = n - 1 /\ s[1] \in S
  OBVIOUS
<1> HIDE DEF u, n
<1>2. Elems(s) = Elems(u) \cup {s[1]}
  <2>1. ASSUME NEW x \in Elems(u)  PROVE x \in Elems(s)
    <3>1. PICK i \in 1..(n - 1) : x = u[i]
      BY <1>1, <2>1 DEF Elems
    <3>2. i + 1 \in 1..n /\ x = s[i + 1]
      BY <1>1, <3>1
    <3> QED  BY <1>1, <3>2 DEF Elems
  <2>2. ASSUME NEW x \in Elems(s), x # s[1]  PROVE x \in Elems(u)
    <3>1. PICK i \in 1..n : x = s[i]
      BY <1>1, <2>2 DEF Elems
    <3>2. i - 1 \in 1..(n - 1) /\ u[i - 1] = s[i]
      BY <1>1, <2>2, <3>1
    <3> QED  BY <3>1, <3>2, <1>1 DEF Elems
  <2>3. s[1] \in Elems(s)
    BY <1>1 DEF Elems
  <2> QED  BY <2>1, <2>2, <2>3
<1>3. ASSUME NEW x, Once(s, x)  PROVE Once(u, x)
  <2> SUFFICES ASSUME NEW i \in 1..(n - 1), NEW j \in 1..(n - 1), u[i] = x, u[j] = x
               PROVE i = j
    BY <1>1 DEF Once
  <2>1. i + 1 \in 1..n /\ j + 1 \in 1..n /\ s[i + 1] = x /\ s[j + 1] = x
    BY <1>1
  <2>2. i + 1 = j + 1
    BY <2>1, <1>1, <1>3 DEF Once
  <2> QED  BY <2>2
<1>4. ASSUME Once(s, s[1]), s[1] \in Elems(u)  PROVE FALSE
  <2>1. PICK i \in 1..(n - 1) : s[1] = s[i + 1]
    BY <1>1, <1>4 DEF Elems
  <2>2. i + 1 \in 1..n /\ 1 \in 1..n /\ i + 1 # 1
    BY <1>1
  <2> QED  BY <2>1, <2>2, <1>1, <1>4 DEF Once
<1>5. n > 1 => u[n - 1] = s[n]
  BY <1>1
<1> QED  BY <1>1, <1>2, <1>3, <1>4, <1>5 DEF u, n

\* What a step that only sets the pc does to the tool.
LEMMA ToolPc ==
  ASSUME NEW f \in Tool, NEW p \in ToolPC, NEW g, g = [f EXCEPT !.pc = p]
  PROVE  /\ g.pc = p /\ g.msg = f.msg /\ g.retmsg = f.retmsg /\ g \in Tool
BY DEF Tool

\* Steps that leave the rings and the process' message alone.
LEMMA RingsKept ==
  ASSUME UNCHANGED <<in, out>>, server'.msg = server.msg, NEW m
  PROVE  (InFlight(m)' <=> InFlight(m)) /\ (SentOnce(m)' <=> SentOnce(m))
BY DEF InFlight, SentOnce

LEMMA InitIpcInv == Init => IpcInv
<1> SUFFICES ASSUME Init PROVE IpcInv
  OBVIOUS
<1> USE IpcAssumption
<1>0. Elems(<<>>) = {} /\ \A m : Once(<<>>, m)
  BY DEF Elems, Once
<1>1. TypeOK
  <2>1. <<>> \in Seq(Null) /\ <<>> \in Seq(Msgs) /\ Len(<<>>) = 0
    OBVIOUS
  <2>2. /\ in \in Seq(Null) /\ Len(in) <= Capacity /\ ready \in 0..Len(in)
        /\ out \in [Types -> Seq(Msgs)] /\ taken \in [Types -> Nat]
        /\ \A y \in Types : Len(out[y]) + taken[y] <= Capacity
        /\ kills \in 0..MaxKills /\ late \in Nat
    BY <2>1 DEF Init
  <2>3. pool \in [Msgs -> Nat] /\ data \in [Msgs -> Data] /\ stray \subseteq Msgs
    BY DEF Init, Data
  <2>4. /\ tool \in [pc : ToolPC, msg : Null, retmsg : Null]
        /\ server \in [pc : {"poll", "handle", "reply", "dead"}, msg : Null]
    BY DEF Init, Idle, Poll, Null, ToolPC
  <2> QED  BY <2>2, <2>3, <2>4 DEF TypeOK
<1>2. tool.pc = "idle" /\ server.msg = NoMsg /\ server.pc = "poll"
  BY DEF Init, Idle, Poll
<1>3. \A m \in Msgs : ~InFlight(m) /\ ~Holds(m)
  BY <1>0, <1>2 DEF Init, InFlight, Holds
<1>4. OneOwner
  <2> SUFFICES ASSUME NEW m \in Msgs PROVE FreeOnce(m) /\ HeldOnce(m) /\ SentOnce(m)
    BY DEF OneOwner
  <2>1. FreeOnce(m) /\ HeldOnce(m)
    BY <1>3 DEF Init, FreeOnce, HeldOnce
  <2>2. SentOnce(m)
    BY <1>0 DEF Init, SentOnce
  <2> QED  BY <2>1, <2>2
<1>5. CallInv /\ StoreInv /\ OwnAnswer
  BY <1>2 DEF CallInv, StoreInv, OwnAnswer
<1>6. AnswerInv
  BY <1>0, <1>2, <1>3 DEF Init, AnswerInv
<1> QED  BY <1>1, <1>4, <1>5, <1>6 DEF IpcInv

-----------------------------------------------------------------------------
(***************************************************************************)
(* The tool's steps.                                                       *)
(***************************************************************************)
LEMMA AllocIpcInv == IpcInv /\ ff_ipc_msg_alloc => IpcInv'
<1> SUFFICES ASSUME IpcInv, ff_ipc_msg_alloc PROVE IpcInv'
  OBVIOUS
<1> USE IpcAssumption
<1>0. TypeOK /\ OneOwner /\ CallInv /\ StoreInv /\ AnswerInv /\ OwnAnswer
  BY DEF IpcInv
<1>1. PICK m \in Msgs, y \in Types :
        /\ pool[m] > 0
        /\ pool' = [pool EXCEPT ![m] = @ - 1]
        /\ data' = [data EXCEPT ![m] = [type |-> y, handled |-> FALSE]]
        /\ tool' = [pc |-> "filled", msg |-> m, retmsg |-> NoMsg]
  BY DEF ff_ipc_msg_alloc
<1>2. UNCHANGED <<in, ready, out, taken, server, kills, late, stray>>
  BY DEF ff_ipc_msg_alloc, ring
<1>3. pool \in [Msgs -> Nat] /\ data \in [Msgs -> Data]
  BY <1>0 DEF TypeOK
<1>4. /\ pool'[m] = pool[m] - 1
      /\ \A x \in Msgs \ {m} : pool'[x] = pool[x]
      /\ pool' \in [Msgs -> Nat]
  BY <1>1, <1>3
<1>5. /\ data'[m] = [type |-> y, handled |-> FALSE]
      /\ \A x \in Msgs \ {m} : data'[x] = data[x]
      /\ data' \in [Msgs -> Data]
  BY <1>1, <1>3 DEF Data
<1>6. tool'.pc = "filled" /\ tool'.msg = m /\ tool'.retmsg = NoMsg
  BY <1>1
<1>7. \A x \in Msgs : Holds(x)' <=> x = m
  BY <1>6 DEF Holds
<1>8. \A x \in Msgs : (InFlight(x)' <=> InFlight(x)) /\ (SentOnce(x)' <=> SentOnce(x))
  BY <1>2, RingsKept
\* The message was free: nobody has it.
<1>9. m \notin stray => pool[m] = 1 /\ ~InFlight(m)
  BY <1>0, <1>1, <1>3 DEF OneOwner, FreeOnce
<1>10. TypeOK'
  <2>1. tool' \in [pc : ToolPC, msg : Null, retmsg : Null]
    BY <1>1 DEF ToolPC, Null
  <2> QED  BY <1>0, <1>2, <1>4, <1>5, <2>1 DEF TypeOK
<1>11. OneOwner'
  <2> SUFFICES ASSUME NEW x \in Msgs \ stray
               PROVE  FreeOnce(x)' /\ HeldOnce(x)' /\ SentOnce(x)'
    BY <1>2 DEF OneOwner
  <2>1. FreeOnce(x) /\ HeldOnce(x) /\ SentOnce(x)
    BY <1>0 DEF OneOwner
  <2>2. FreeOnce(x)'
    BY <1>3, <1>4, <1>7, <1>8, <1>9, <2>1 DEF FreeOnce
  <2>3. HeldOnce(x)'
    BY <1>7, <1>8, <1>9 DEF HeldOnce
  <2> QED  BY <1>8, <2>1, <2>2, <2>3
<1>12. CallInv' /\ StoreInv' /\ OwnAnswer'
  BY <1>2, <1>4, <1>5, <1>6, <1>9 DEF CallInv, StoreInv, OwnAnswer
<1>13. AnswerInv'
  <2>1. \A x \in Msgs : InFlight(x)' => data'[x].type \in Types
    BY <1>0, <1>5, <1>8 DEF AnswerInv
  <2>2. \A z \in Types : \A x \in Elems(out[z]) \ stray : x \in Msgs => data'[x].handled
    BY <1>0, <1>5, <1>9 DEF AnswerInv, InFlight
  <2>3. \A z \in Types : Elems(out[z]) \subseteq Msgs
    BY <1>0 DEF TypeOK, Elems
  <2>4. server.pc = "reply" /\ server.msg \notin stray => data'[server.msg].handled
    <3>1. server.pc = "reply" => server.msg \in Msgs
      BY <1>0 DEF TypeOK, AnswerInv, Null
    <3> QED  BY <1>0, <1>5, <1>9, <3>1 DEF AnswerInv, InFlight
  <2> QED  BY <1>0, <1>2, <2>1, <2>2, <2>3, <2>4 DEF AnswerInv
<1> QED  BY <1>10, <1>11, <1>12, <1>13 DEF IpcInv

LEMMA SendIpcInv == IpcInv /\ ff_ipc_send => IpcInv'
<1> SUFFICES ASSUME IpcInv, ff_ipc_send PROVE IpcInv'
  OBVIOUS
<1> USE IpcAssumption
<1>0. TypeOK /\ OneOwner /\ CallInv /\ StoreInv /\ AnswerInv /\ OwnAnswer
  BY DEF IpcInv
<1>1. /\ tool.pc = "filled"
      /\ UNCHANGED <<pool, data, ready, out, taken, server, kills, late, stray>>
  BY DEF ff_ipc_send
<1>2. tool \in Tool /\ in \in Seq(Null) /\ NoMsg \in Null /\ Len(in) \in Nat
  BY <1>0 DEF TypeOK, Tool, Null
<1>3. /\ tool'.pc \in {"moved", "failed"} /\ tool'.msg = tool.msg
      /\ tool'.retmsg = tool.retmsg /\ tool' \in Tool
  <2>1. "moved" \in ToolPC /\ "failed" \in ToolPC
    BY DEF ToolPC
  <2> QED  BY <1>2, <2>1, ToolPc DEF ff_ipc_send
<1>4. /\ in' \in Seq(Null) /\ Len(in') <= Capacity /\ Len(in') \in Nat
      /\ Len(in') >= Len(in)
      /\ tool'.pc = "moved" => Len(in') = Len(in) + 1 /\ in'[Len(in')] = NoMsg
      /\ \A x \in Msgs : (x \in Elems(in') <=> x \in Elems(in)) /\ (Once(in, x) => Once(in', x))
  <2>1. CASE Len(in) < Capacity
    <3>1. in' = Append(in, NoMsg)
      BY <2>1 DEF ff_ipc_send
    <3> QED  BY <1>2, <2>1, <3>1, RingAppend
  <2>2. CASE ~(Len(in) < Capacity)
    <3>1. in' = in /\ tool' = [tool EXCEPT !.pc = "failed"]
      BY <2>2 DEF ff_ipc_send
    <3>2. tool'.pc = "failed"
      BY <1>2, <3>1 DEF Tool
    <3> QED  BY <1>0, <1>2, <3>1, <3>2 DEF TypeOK
  <2> QED  BY <2>1, <2>2
<1>5. \A x \in Msgs : (InFlight(x)' <=> InFlight(x)) /\ (SentOnce(x) => SentOnce(x)')
  BY <1>1, <1>4 DEF InFlight, SentOnce
<1>6. \A x \in Msgs : Holds(x)' <=> Holds(x)
  BY <1>1, <1>3 DEF Holds
<1>7. TypeOK'
  <2>1. ready \in 0..Len(in')
    BY <1>0, <1>2, <1>4 DEF TypeOK
  <2> QED  BY <1>0, <1>1, <1>3, <1>4, <2>1 DEF TypeOK, Tool
<1>8. OneOwner'
  BY <1>0, <1>1, <1>5, <1>6 DEF OneOwner, FreeOnce, HeldOnce
<1>9. CallInv' /\ OwnAnswer'
  BY <1>0, <1>1, <1>3 DEF CallInv, OwnAnswer
<1>10. StoreInv'
  BY <1>0, <1>1, <1>2, <1>3, <1>4 DEF StoreInv, TypeOK
<1>11. AnswerInv'
  BY <1>0, <1>1, <1>5 DEF AnswerInv
<1> QED  BY <1>7, <1>8, <1>9, <1>10, <1>11 DEF IpcInv

LEMMA StoreIpcInv == IpcInv /\ Store => IpcInv'
<1> SUFFICES ASSUME IpcInv, Store PROVE IpcInv'
  OBVIOUS
<1> USE IpcAssumption
<1> DEFINE m == tool.msg
<1>0. TypeOK /\ OneOwner /\ CallInv /\ StoreInv /\ AnswerInv /\ OwnAnswer
  BY DEF IpcInv
<1>1. /\ tool.pc = "moved" /\ in' = [in EXCEPT ![Len(in)] = m]
      /\ tool' = [tool EXCEPT !.pc = "stored"]
      /\ UNCHANGED <<pool, data, ready, out, taken, server, kills, late, stray>>
  BY DEF Store
<1>2. /\ m \in Msgs /\ data[m].type \in Types /\ (m \notin stray => pool[m] = 0)
      /\ Len(in) > ready /\ in[Len(in)] = NoMsg
  BY <1>0, <1>1 DEF CallInv, StoreInv
<1>3. tool \in Tool /\ in \in Seq(Null) /\ m \in Null /\ Len(in) \in Nat /\ ready \in Nat
  BY <1>0, <1>2 DEF TypeOK, Tool, Null
<1>4. /\ tool'.pc = "stored" /\ tool'.msg = m /\ tool'.retmsg = tool.retmsg /\ tool' \in Tool
  <2>1. "stored" \in ToolPC
    BY DEF ToolPC
  <2> QED  BY <1>1, <1>3, <2>1, ToolPc
<1> HIDE DEF m
<1>5. /\ in' \in Seq(Null) /\ Len(in') = Len(in)
      /\ \A x \in Msgs : x \in Elems(in') <=> x \in Elems(in) \/ x = m
      /\ \A x \in Msgs : x # m /\ Once(in, x) => Once(in', x)
      /\ m \notin Elems(in) => Once(in', m)
  <2>1. Len(in) > 0 /\ \A x \in Msgs : x # NoMsg
    BY <1>2, <1>3
  <2>2. /\ in' \in Seq(Null) /\ Len(in') = Len(in)
        /\ \A x : x # NoMsg => (x \in Elems(in') <=> x \in Elems(in) \/ x = m)
        /\ \A x : x # m /\ Once(in, x) => Once(in', x)
        /\ m \notin Elems(in) => Once(in', m)
    <3>1. in \in Seq(Null) /\ m \in Null /\ Len(in) > 0 /\ in[Len(in)] = NoMsg
      BY <1>2, <1>3, <2>1
    <3>2. in' = [in EXCEPT ![Len(in)] = m]
      BY <1>1
    <3>3. PICK n \in Nat \ {0} : n = Len(in)
      BY <1>3, <3>1
    <3>4. /\ in' \in Seq(Null) /\ Len(in') = n /\ in'[n] = m
          /\ \A i \in 1..n : i # n => in'[i] = in[i]
      BY <3>1, <3>2, <3>3
    <3>5. in[n] = NoMsg /\ DOMAIN in = 1..n /\ DOMAIN in' = 1..n /\ n \in 1..n
      BY <3>1, <3>3, <3>4
    <3>6. \A x : x # NoMsg => (x \in Elems(in') <=> x \in Elems(in) \/ x = m)
      BY ONLY <3>4, <3>5 DEF Elems
    <3>7. \A x : x # m /\ Once(in, x) => Once(in', x)
      BY ONLY <3>4, <3>5 DEF Once
    <3>8. m \notin Elems(in) => Once(in', m)
      BY ONLY <3>4, <3>5 DEF Once, Elems
    <3> QED  BY <3>3, <3>4, <3>6, <3>7, <3>8
  <2> QED  BY <2>1, <2>2
<1>6. Holds(m) /\ \A x \in Msgs : ~Holds(x)'
  BY <1>1, <1>4 DEF Holds, m
<1>7. m \notin stray => ~InFlight(m)
  BY <1>0, <1>2, <1>6 DEF OneOwner, HeldOnce
<1>8. \A x \in Msgs : InFlight(x)' <=> InFlight(x) \/ x = m
  BY <1>1, <1>5 DEF InFlight
<1>9. TypeOK'
  BY <1>0, <1>1, <1>4, <1>5 DEF TypeOK, Tool
<1>10. OneOwner'
  <2> SUFFICES ASSUME NEW x \in Msgs \ stray
               PROVE  FreeOnce(x)' /\ HeldOnce(x)' /\ SentOnce(x)'
    BY <1>1 DEF OneOwner
  <2>1. FreeOnce(x) /\ HeldOnce(x) /\ SentOnce(x)
    BY <1>0 DEF OneOwner
  <2>2. FreeOnce(x)' /\ HeldOnce(x)'
    BY <1>1, <1>2, <1>6, <1>8, <2>1 DEF FreeOnce, HeldOnce
  <2>3. SentOnce(x)'
    BY <1>1, <1>5, <1>7, <2>1 DEF SentOnce, InFlight
  <2> QED  BY <2>2, <2>3
<1>11. CallInv' /\ OwnAnswer'
  BY <1>0, <1>1, <1>2, <1>4 DEF CallInv, OwnAnswer
<1>12. StoreInv'
  BY <1>1, <1>2, <1>4, <1>5 DEF StoreInv
<1>13. AnswerInv'
  BY <1>0, <1>1, <1>2, <1>8 DEF AnswerInv
<1> QED  BY <1>9, <1>10, <1>11, <1>12, <1>13 DEF IpcInv

\* Publish and Received: only an index moves.
LEMMA PublishIpcInv == IpcInv /\ Publish => IpcInv'
<1> SUFFICES ASSUME IpcInv, Publish PROVE IpcInv'
  OBVIOUS
<1>0. TypeOK /\ OneOwner /\ CallInv /\ StoreInv /\ AnswerInv /\ OwnAnswer
  BY DEF IpcInv
<1>1. /\ tool.pc = "stored" /\ ready' = Len(in) /\ tool' = [tool EXCEPT !.pc = "recv"]
      /\ UNCHANGED <<pool, data, in, out, taken, server, kills, late, stray>>
  BY DEF Publish
<1>2. /\ tool'.pc = "recv" /\ tool'.msg = tool.msg /\ tool'.retmsg = tool.retmsg
      /\ tool' \in Tool
  <2>1. "recv" \in ToolPC /\ tool \in Tool
    BY <1>0 DEF ToolPC, Tool, TypeOK
  <2> QED  BY <1>1, <2>1, ToolPc
<1>3. \A x \in Msgs : ~Holds(x) /\ ~Holds(x)'
  BY <1>1, <1>2 DEF Holds
<1>4. \A x \in Msgs : (InFlight(x)' <=> InFlight(x)) /\ (SentOnce(x)' <=> SentOnce(x))
  BY <1>1, RingsKept
<1>5. TypeOK'
  <2>1. Len(in) \in 0..Len(in)
    BY <1>0 DEF TypeOK
  <2> QED  BY <1>0, <1>1, <1>2, <2>1 DEF TypeOK, Tool
<1>6. OneOwner'
  BY <1>0, <1>1, <1>3, <1>4 DEF OneOwner, FreeOnce, HeldOnce
<1>7. CallInv' /\ OwnAnswer' /\ StoreInv'
  BY <1>0, <1>1, <1>2 DEF CallInv, OwnAnswer, StoreInv
<1>8. AnswerInv'
  BY <1>0, <1>1, <1>4 DEF AnswerInv
<1> QED  BY <1>5, <1>6, <1>7, <1>8 DEF IpcInv

LEMMA ReceivedIpcInv == IpcInv /\ Received => IpcInv'
<1> SUFFICES ASSUME IpcInv, Received PROVE IpcInv'
  OBVIOUS
<1> DEFINE y == OutOf
<1>0. TypeOK /\ OneOwner /\ CallInv /\ StoreInv /\ AnswerInv /\ OwnAnswer
  BY DEF IpcInv
<1>1. /\ tool.pc = "took" /\ taken' = [taken EXCEPT ![y] = 0]
      /\ tool' = [tool EXCEPT !.pc = IF tool.retmsg = tool.msg THEN "ok" ELSE "stale"]
      /\ UNCHANGED <<pool, data, in, ready, out, server, kills, late, stray>>
  BY DEF Received
<1>2. /\ tool'.pc = (IF tool.retmsg = tool.msg THEN "ok" ELSE "stale")
      /\ tool'.msg = tool.msg /\ tool'.retmsg = tool.retmsg /\ tool' \in Tool
  <2>1. "ok" \in ToolPC /\ "stale" \in ToolPC /\ tool \in Tool
    BY <1>0 DEF ToolPC, Tool, TypeOK
  <2> QED  BY <1>1, <2>1, ToolPc
<1>3. y \in Types
  BY <1>0, <1>1 DEF CallInv, OutOf
<1> HIDE DEF y
<1>4. /\ taken' \in [Types -> Nat]
      /\ \A z \in Types : Len(out[z]) + taken'[z] <= Capacity
  <2>1. /\ taken \in [Types -> Nat] /\ out \in [Types -> Seq(Msgs)] /\ Capacity \in Nat
        /\ \A z \in Types : Len(out[z]) + taken[z] <= Capacity
    BY <1>0, IpcAssumption DEF TypeOK
  <2>2. /\ taken'[y] = 0 /\ \A z \in Types \ {y} : taken'[z] = taken[z]
        /\ taken' \in [Types -> Nat]
    BY <1>1, <1>3, <2>1
  <2>3. ASSUME NEW z \in Types  PROVE Len(out[z]) + taken'[z] <= Capacity
    <3>1. Len(out[z]) \in Nat /\ taken[z] \in Nat /\ Len(out[z]) + taken[z] <= Capacity
      BY <2>1
    <3>2. taken'[z] = 0 \/ taken'[z] = taken[z]
      BY <2>2
    <3> QED  BY <2>1, <3>1, <3>2
  <2> QED  BY <2>2, <2>3
<1>5. \A x \in Msgs : Holds(x)' <=> Holds(x)
  BY <1>1, <1>2 DEF Holds
<1>6. \A x \in Msgs : (InFlight(x)' <=> InFlight(x)) /\ (SentOnce(x)' <=> SentOnce(x))
  BY <1>1, RingsKept
<1>7. TypeOK'
  BY <1>0, <1>1, <1>2, <1>4 DEF TypeOK, Tool
<1>8. OneOwner'
  BY <1>0, <1>1, <1>5, <1>6 DEF OneOwner, FreeOnce, HeldOnce
<1>9. CallInv' /\ OwnAnswer' /\ StoreInv'
  BY <1>0, <1>1, <1>2 DEF CallInv, OwnAnswer, StoreInv
<1>10. AnswerInv'
  BY <1>0, <1>1, <1>6 DEF AnswerInv
<1> QED  BY <1>7, <1>8, <1>9, <1>10 DEF IpcInv

LEMMA TakeIpcInv == IpcInv /\ Take => IpcInv'
<1> SUFFICES ASSUME IpcInv, Take PROVE IpcInv'
  OBVIOUS
<1> DEFINE y == OutOf
           m == Head(out[y])
<1>0. TypeOK /\ OneOwner /\ CallInv /\ StoreInv /\ AnswerInv /\ OwnAnswer
  BY DEF IpcInv
<1>1. /\ tool.pc = "recv" /\ out[y] # <<>>
      /\ tool' = [pc |-> "took", msg |-> tool.msg, retmsg |-> m]
      /\ out' = [out EXCEPT ![y] = Tail(@)] /\ taken' = [taken EXCEPT ![y] = @ + 1]
      /\ UNCHANGED <<pool, data, in, ready, server, kills, late, stray>>
  BY DEF Take
<1>2. y \in Types
  BY <1>0, <1>1 DEF CallInv, OutOf
<1>3. /\ out \in [Types -> Seq(Msgs)] /\ taken \in [Types -> Nat] /\ Capacity \in Nat
      /\ \A z \in Types : Len(out[z]) + taken[z] <= Capacity
  BY <1>0, IpcAssumption DEF TypeOK
<1>4. tool'.pc = "took" /\ tool'.msg = tool.msg /\ tool'.retmsg = m
  BY <1>1
<1> HIDE DEF y
<1>5. /\ out'[y] = Tail(out[y]) /\ taken'[y] = taken[y] + 1
      /\ \A z \in Types \ {y} : out'[z] = out[z] /\ taken'[z] = taken[z]
      /\ taken' \in [Types -> Nat]
  BY <1>1, <1>2, <1>3
<1>6. /\ out'[y] \in Seq(Msgs) /\ m \in Msgs
      /\ Len(out'[y]) = Len(out[y]) - 1 /\ Len(out[y]) \in Nat
      /\ Elems(out[y]) = Elems(out'[y]) \cup {m}
      /\ \A x : Once(out[y], x) => Once(out'[y], x)
      /\ Once(out[y], m) => m \notin Elems(out'[y])
  <2>1. PICK s : s = out[y] /\ s \in Seq(Msgs)
    BY <1>2, <1>3
  <2>2. /\ Tail(s) \in Seq(Msgs) /\ Head(s) \in Msgs
        /\ Len(Tail(s)) = Len(s) - 1 /\ Len(s) \in Nat
        /\ Elems(s) = Elems(Tail(s)) \cup {Head(s)}
        /\ \A x : Once(s, x) => Once(Tail(s), x)
        /\ Once(s, Head(s)) => Head(s) \notin Elems(Tail(s))
    BY <1>1, <2>1, RingTail
  <2> QED  BY <1>5, <2>1, <2>2
<1> HIDE DEF m
<1>7. out' \in [Types -> Seq(Msgs)] /\ \A z \in Types : Len(out'[z]) + taken'[z] <= Capacity
  <2>1. out' \in [Types -> Seq(Msgs)]
    BY <1>1, <1>2, <1>3, <1>5, <1>6
  <2>2. ASSUME NEW z \in Types  PROVE Len(out'[z]) + taken'[z] <= Capacity
    <3>1. Len(out[z]) + taken[z] <= Capacity /\ taken[z] \in Nat /\ Len(out[z]) \in Nat
      BY <1>3
    <3>2. CASE z = y
      BY <1>3, <1>5, <1>6, <3>1, <3>2
    <3>3. CASE z # y
      BY <1>5, <3>1, <3>3
    <3> QED  BY <3>2, <3>3
  <2> QED  BY <2>1, <2>2
<1>8. \A x \in Msgs : (Holds(x)' <=> x = m) /\ ~Holds(x)
  BY <1>1, <1>4 DEF Holds
<1>9. m \in Elems(out[y]) /\ InFlight(m)
  BY <1>2, <1>6 DEF InFlight
<1>10. \A x \in Msgs : InFlight(x)' => InFlight(x)
  BY <1>1, <1>2, <1>5, <1>6 DEF InFlight
<1>11. TypeOK'
  <2>1. tool' \in [pc : ToolPC, msg : Null, retmsg : Null]
    BY <1>0, <1>1, <1>6 DEF TypeOK, ToolPC, Null
  <2> QED  BY <1>0, <1>1, <1>5, <1>7, <2>1 DEF TypeOK
<1>12. OneOwner'
  <2> SUFFICES ASSUME NEW x \in Msgs \ stray
               PROVE  FreeOnce(x)' /\ HeldOnce(x)' /\ SentOnce(x)'
    BY <1>1 DEF OneOwner
  <2>1. FreeOnce(x) /\ HeldOnce(x) /\ SentOnce(x)
    BY <1>0 DEF OneOwner
  <2>2. SentOnce(x)'
    BY <1>1, <1>2, <1>5, <1>6, <2>1 DEF SentOnce
  <2>3. HeldOnce(x)'
    <3>1. CASE x = m
      <4>1. /\ m \notin Elems(in) /\ server.msg # m /\ Once(out[y], m)
            /\ \A z \in Types \ {y} : m \notin Elems(out[z])
        BY <1>2, <1>9, <2>1, <3>1 DEF SentOnce
      <4> QED  BY <1>1, <1>2, <1>5, <1>6, <3>1, <4>1 DEF HeldOnce, InFlight
    <3>2. CASE x # m
      BY <1>8, <3>2 DEF HeldOnce
    <3> QED  BY <3>1, <3>2
  <2>4. FreeOnce(x)'
    BY <1>1, <1>8, <1>9, <1>10, <2>1 DEF FreeOnce
  <2> QED  BY <2>2, <2>3, <2>4
<1>13. CallInv' /\ OwnAnswer' /\ StoreInv'
  <2>1. m \notin stray => data[m].handled
    BY <1>0, <1>2, <1>9 DEF AnswerInv
  <2> QED  BY <1>0, <1>1, <1>4, <1>6, <2>1 DEF CallInv, OwnAnswer, StoreInv
<1>14. AnswerInv'
  <2>1. \A z \in Types : Elems(out'[z]) \subseteq Elems(out[z])
    BY <1>2, <1>5, <1>6
  <2> QED  BY <1>0, <1>1, <1>10, <2>1 DEF AnswerInv
<1> QED  BY <1>11, <1>12, <1>13, <1>14 DEF IpcInv

\* NotMine and Finish: a message that the tool has, and nobody else, is freed.
LEMMA FreedOnce ==
  ASSUME IpcInv, NEW m \in Msgs, Holds(m), pool' = Freed(m),
         UNCHANGED <<data, in, ready, out, taken, server, kills, late, stray>>,
         tool' \in Tool, \A x \in Msgs : ~Holds(x)'
  PROVE  TypeOK' /\ OneOwner' /\ AnswerInv' /\ \A x \in Msgs \ {m} : pool'[x] = pool[x]
<1>0. TypeOK /\ OneOwner /\ AnswerInv
  BY DEF IpcInv
<1>1. /\ pool' \in [Msgs -> Nat] /\ pool'[m] = pool[m] + 1 /\ pool[m] \in Nat
      /\ \A x \in Msgs \ {m} : pool'[x] = pool[x]
  BY <1>0 DEF TypeOK, Freed
<1>2. \A x \in Msgs : (InFlight(x)' <=> InFlight(x)) /\ (SentOnce(x)' <=> SentOnce(x))
  BY RingsKept
<1>3. TypeOK'
  BY <1>0, <1>1 DEF TypeOK, Tool
<1>4. OneOwner'
  <2> SUFFICES ASSUME NEW x \in Msgs \ stray
               PROVE  FreeOnce(x)' /\ HeldOnce(x)' /\ SentOnce(x)'
    BY DEF OneOwner
  <2>1. FreeOnce(x) /\ HeldOnce(x) /\ SentOnce(x)
    BY <1>0 DEF OneOwner
  <2>2. x = m => pool[m] = 0 /\ ~InFlight(m)
    BY <1>1, <2>1 DEF FreeOnce, HeldOnce
  <2>3. FreeOnce(x)' /\ HeldOnce(x)'
    BY <1>1, <1>2, <2>1, <2>2 DEF FreeOnce, HeldOnce
  <2> QED  BY <1>2, <2>1, <2>3
<1>5. AnswerInv'
  BY <1>0, <1>2 DEF AnswerInv
<1> QED  BY <1>1, <1>3, <1>4, <1>5

LEMMA NotMineIpcInv == IpcInv /\ NotMine => IpcInv'
<1> SUFFICES ASSUME IpcInv, NotMine PROVE IpcInv'
  OBVIOUS
<1>0. TypeOK /\ OneOwner /\ CallInv /\ StoreInv /\ AnswerInv /\ OwnAnswer
  BY DEF IpcInv
<1>1. /\ tool.pc = "stale" /\ pool' = Freed(tool.retmsg)
      /\ tool' = [pc |-> "recv", msg |-> tool.msg, retmsg |-> NoMsg]
      /\ UNCHANGED <<data, in, ready, out, taken, server, kills, late, stray>>
  BY DEF NotMine, ring
<1>2. tool'.pc = "recv" /\ tool'.msg = tool.msg
  BY <1>1
<1>3. tool.retmsg \in Msgs /\ tool.retmsg # tool.msg /\ Holds(tool.retmsg)
  BY <1>0, <1>1 DEF CallInv, Holds
<1>4. tool' \in Tool /\ \A x \in Msgs : ~Holds(x)'
  BY <1>0, <1>1, <1>2 DEF Tool, TypeOK, ToolPC, Null, Holds
<1>5. /\ TypeOK' /\ OneOwner' /\ AnswerInv'
      /\ \A x \in Msgs \ {tool.retmsg} : pool'[x] = pool[x]
  BY <1>1, <1>3, <1>4, FreedOnce
<1>6. CallInv' /\ OwnAnswer' /\ StoreInv'
  BY <1>0, <1>1, <1>2, <1>3, <1>5 DEF CallInv, OwnAnswer, StoreInv
<1> QED  BY <1>5, <1>6 DEF IpcInv

LEMMA FinishIpcInv == IpcInv /\ Finish => IpcInv'
<1> SUFFICES ASSUME IpcInv, Finish PROVE IpcInv'
  OBVIOUS
<1>0. CallInv
  BY DEF IpcInv
<1>1. /\ tool.pc \in {"ok", "failed"} /\ pool' = Freed(tool.msg) /\ tool' = Idle
      /\ UNCHANGED <<data, in, ready, out, taken, server, kills, late, stray>>
  BY DEF Finish, ring
<1>2. tool.msg \in Msgs /\ Holds(tool.msg)
  BY <1>0, <1>1 DEF CallInv, Holds
<1>3. tool'.pc = "idle" /\ tool' \in Tool /\ \A x \in Msgs : ~Holds(x)'
  BY <1>1 DEF Idle, Tool, ToolPC, Null, Holds
<1>4. TypeOK' /\ OneOwner' /\ AnswerInv'
  BY <1>1, <1>2, <1>3, FreedOnce
<1>5. CallInv' /\ OwnAnswer' /\ StoreInv'
  BY <1>3 DEF CallInv, OwnAnswer, StoreInv
<1> QED  BY <1>4, <1>5 DEF IpcInv

\* A call that gives up too early leaves the message to its fate.
LEMMA GiveUpIpcInv == IpcInv /\ GiveUp => IpcInv'
<1> SUFFICES ASSUME IpcInv, GiveUp PROVE IpcInv'
  OBVIOUS
<1> DEFINE m == tool.msg
<1>0. TypeOK /\ OneOwner /\ CallInv /\ StoreInv /\ AnswerInv /\ OwnAnswer
  BY DEF IpcInv
<1>1. /\ tool.pc = "recv" /\ tool' = [tool EXCEPT !.pc = "failed"]
      /\ UNCHANGED <<pool, data, in, ready, out, taken, server, kills>>
  BY DEF GiveUp, ring
<1>2. tool'.pc = "failed" /\ tool'.msg = m /\ tool'.retmsg = tool.retmsg /\ tool' \in Tool
  <2>1. "failed" \in ToolPC /\ tool \in Tool
    BY <1>0 DEF ToolPC, Tool, TypeOK
  <2> QED  BY <1>1, <2>1, ToolPc
<1>3. m \in Msgs /\ (m \notin stray => pool[m] = 0)
  BY <1>0, <1>1 DEF CallInv
<1> HIDE DEF m
<1>4. stray \subseteq stray' /\ stray' \subseteq Msgs /\ (m \notin stray' => ~InFlight(m))
  BY <1>0, <1>3 DEF GiveUp, TypeOK, m
<1>5. \A x \in Msgs : ~Holds(x) /\ (Holds(x)' <=> x = m)
  BY <1>1, <1>2 DEF Holds
<1>6. \A x \in Msgs : (InFlight(x)' <=> InFlight(x)) /\ (SentOnce(x)' <=> SentOnce(x))
  BY <1>1, RingsKept
<1>7. late' \in Nat
  BY <1>0 DEF GiveUp, TypeOK
<1>8. TypeOK'
  BY <1>0, <1>1, <1>2, <1>4, <1>7 DEF TypeOK, Tool
<1>9. OneOwner'
  <2> SUFFICES ASSUME NEW x \in Msgs \ stray'
               PROVE  FreeOnce(x)' /\ HeldOnce(x)' /\ SentOnce(x)'
    BY DEF OneOwner
  <2>1. FreeOnce(x) /\ HeldOnce(x) /\ SentOnce(x)
    BY <1>0, <1>4 DEF OneOwner
  <2>2. FreeOnce(x)' /\ HeldOnce(x)'
    BY <1>1, <1>3, <1>4, <1>5, <1>6, <2>1 DEF FreeOnce, HeldOnce
  <2> QED  BY <1>6, <2>1, <2>2
<1>10. CallInv' /\ OwnAnswer' /\ StoreInv'
  BY <1>0, <1>1, <1>2, <1>3, <1>4 DEF CallInv, OwnAnswer, StoreInv
<1>11. AnswerInv'
  BY <1>0, <1>1, <1>4, <1>6 DEF AnswerInv
<1> QED  BY <1>8, <1>9, <1>10, <1>11 DEF IpcInv

LEMMA KillIpcInv == IpcInv /\ Kill => IpcInv'
<1> SUFFICES ASSUME IpcInv, Kill PROVE IpcInv'
  OBVIOUS
<1>0. TypeOK /\ OneOwner /\ CallInv /\ StoreInv /\ AnswerInv /\ OwnAnswer
  BY DEF IpcInv
<1>1. /\ kills < MaxKills /\ tool' = Idle /\ kills' = kills + 1
      /\ UNCHANGED <<pool, data, in, ready, out, taken, server, late, stray>>
  BY DEF Kill, ring
<1>2. tool'.pc = "idle" /\ tool' \in Tool /\ \A x \in Msgs : ~Holds(x)'
  BY <1>1 DEF Idle, Tool, ToolPC, Null, Holds
<1>3. \A x \in Msgs : (InFlight(x)' <=> InFlight(x)) /\ (SentOnce(x)' <=> SentOnce(x))
  BY <1>1, RingsKept
<1>4. TypeOK'
  <2>1. kills' \in 0..MaxKills
    BY <1>0, <1>1, IpcAssumption DEF TypeOK
  <2> QED  BY <1>0, <1>1, <1>2, <2>1 DEF TypeOK, Tool
<1>5. OneOwner'
  BY <1>0, <1>1, <1>2, <1>3 DEF OneOwner, FreeOnce, HeldOnce
<1>6. CallInv' /\ OwnAnswer' /\ StoreInv'
  BY <1>2 DEF CallInv, OwnAnswer, StoreInv
<1>7. AnswerInv'
  BY <1>0, <1>1, <1>3 DEF AnswerInv
<1> QED  BY <1>4, <1>5, <1>6, <1>7 DEF IpcInv

-----------------------------------------------------------------------------
(***************************************************************************)
(* The process' steps.                                                     *)
(***************************************************************************)
LEMMA ProcessIpcInv == IpcInv /\ process_msg_ring => IpcInv'
<1> SUFFICES ASSUME IpcInv, process_msg_ring PROVE IpcInv'
  OBVIOUS
<1> USE IpcAssumption
<1>0. TypeOK /\ OneOwner /\ CallInv /\ StoreInv /\ AnswerInv /\ OwnAnswer
  BY DEF IpcInv
<1>1. /\ server.pc = "poll" /\ ready > 0 /\ in' = Tail(in) /\ ready' = ready - 1
      /\ UNCHANGED <<pool, data, out, taken, tool, kills, late>>
  BY DEF process_msg_ring
<1>2. in \in Seq(Null) /\ Len(in) \in Nat /\ ready \in 0..Len(in) /\ in # <<>>
  BY <1>0, <1>1 DEF TypeOK
<1>3. PICK h : h = Head(in)
  OBVIOUS
<1>4. /\ in' \in Seq(Null) /\ h \in Null /\ Len(in') = Len(in) - 1
      /\ Elems(in) = Elems(in') \cup {h}
      /\ \A x : Once(in, x) => Once(in', x)
      /\ Once(in, h) => h \notin Elems(in')
      /\ Len(in) > 1 => in'[Len(in) - 1] = in[Len(in)]
  BY <1>1, <1>2, <1>3, RingTail
\* What the process has got, and whether it is stray.
<1>5. PICK m \in Null :
        /\ server' = [pc |-> IF m = NoMsg THEN "dead" ELSE "handle", msg |-> m]
        /\ stray' \in {stray, stray \cup {m}} /\ stray' \subseteq Msgs
        /\ m \in Msgs => data[m].type \in Types
        /\ h # NoMsg => m = h /\ stray' = stray
        /\ h = NoMsg => m \in stray' \/ m = NoMsg
  <2>1. CASE h # NoMsg
    <3>1. server' = [pc |-> "handle", msg |-> h] /\ stray' = stray
      BY <1>3, <2>1 DEF process_msg_ring
    <3>2. h \in Msgs /\ data[h].type \in Types
      BY <1>0, <1>4, <2>1 DEF AnswerInv, InFlight, Null
    <3> QED  BY <1>0, <1>4, <2>1, <3>1, <3>2 DEF TypeOK
  <2>2. CASE h = NoMsg
    <3>1. CASE server' = [pc |-> "dead", msg |-> NoMsg] /\ stray' = stray
      BY <1>0, <2>2, <3>1 DEF TypeOK, Null
    <3>2. CASE \E m \in {m \in Msgs : data[m].type # FF_UNKNOWN} :
                 /\ server' = [pc |-> "handle", msg |-> m]
                 /\ stray' = stray \cup {m}
      <4>1. PICK m \in Msgs : /\ data[m].type # FF_UNKNOWN
                              /\ server' = [pc |-> "handle", msg |-> m]
                              /\ stray' = stray \cup {m}
        BY <3>2
      <4>2. data[m].type \in Types /\ stray' \subseteq Msgs /\ m \in Null /\ m # NoMsg
        BY <1>0, <4>1 DEF TypeOK, Data, Null
      <4> QED  BY <2>2, <4>1, <4>2
    <3> QED  BY <1>3, <2>2, <3>1, <3>2 DEF process_msg_ring
  <2> QED  BY <2>1, <2>2
<1>6. /\ server'.msg = m /\ server'.pc = (IF m = NoMsg THEN "dead" ELSE "handle")
      /\ server.msg = NoMsg /\ stray \subseteq stray'
  BY <1>0, <1>1, <1>5 DEF AnswerInv
<1>7. TypeOK'
  <2>1. server' \in [pc : {"poll", "handle", "reply", "dead"}, msg : Null]
    BY <1>5
  <2>2. Len(in') <= Capacity /\ ready' \in 0..Len(in')
    BY <1>0, <1>1, <1>2, <1>4 DEF TypeOK
  <2> QED  BY <1>0, <1>1, <1>4, <1>5, <2>1, <2>2 DEF TypeOK
<1>8. \A x \in Msgs : Holds(x)' <=> Holds(x)
  BY <1>1 DEF Holds
<1>9. \A x \in Msgs \ stray' : InFlight(x)' <=> InFlight(x)
  <2>1. \A x \in Msgs \ stray' : x \in Elems(in) <=> x \in Elems(in') \/ x = m
    BY <1>4, <1>5
  <2> QED  BY <1>1, <1>6, <2>1 DEF InFlight
<1>10. OneOwner'
  <2> SUFFICES ASSUME NEW x \in Msgs \ stray'
               PROVE  FreeOnce(x)' /\ HeldOnce(x)' /\ SentOnce(x)'
    BY DEF OneOwner
  <2>1. FreeOnce(x) /\ HeldOnce(x) /\ SentOnce(x)
    BY <1>0, <1>6 DEF OneOwner
  <2>2. FreeOnce(x)' /\ HeldOnce(x)'
    BY <1>1, <1>8, <1>9, <2>1 DEF FreeOnce, HeldOnce
  <2>3. x = m => h = m /\ x \in Elems(in) /\ Once(in, h)
    BY <1>4, <1>5, <2>1 DEF SentOnce
  <2>4. SentOnce(x)'
    BY <1>1, <1>4, <1>6, <2>1, <2>3 DEF SentOnce
  <2> QED  BY <2>2, <2>4
<1>11. CallInv' /\ OwnAnswer'
  BY <1>0, <1>1, <1>6 DEF CallInv, OwnAnswer
<1>12. StoreInv'
  BY <1>0, <1>1, <1>2, <1>4 DEF StoreInv
<1>13. AnswerInv'
  <2>1. \A x \in Msgs : InFlight(x)' => InFlight(x) \/ x = m
    BY <1>1, <1>4, <1>6 DEF InFlight
  <2> QED  BY <1>0, <1>1, <1>5, <1>6, <2>1 DEF AnswerInv
<1> QED  BY <1>7, <1>10, <1>11, <1>12, <1>13 DEF IpcInv

LEMMA HandleIpcInv == IpcInv /\ handle_msg => IpcInv'
<1> SUFFICES ASSUME IpcInv, handle_msg PROVE IpcInv'
  OBVIOUS
<1> USE IpcAssumption
<1> DEFINE m == server.msg
<1>0. TypeOK /\ OneOwner /\ CallInv /\ StoreInv /\ AnswerInv /\ OwnAnswer
  BY DEF IpcInv
<1>1. /\ server.pc = "handle" /\ data' = [data EXCEPT ![m].handled = TRUE]
      /\ server' = [server EXCEPT !.pc = "reply"]
      /\ UNCHANGED <<pool, in, ready, out, taken, tool, kills, late, stray>>
  BY DEF handle_msg, ring
<1>2. m \in Msgs /\ data \in [Msgs -> Data]
  BY <1>0, <1>1 DEF AnswerInv, TypeOK, Null
<1>3. server'.pc = "reply" /\ server'.msg = m
      /\ server' \in [pc : {"poll", "handle", "reply", "dead"}, msg : Null]
  BY <1>0, <1>1 DEF TypeOK
<1> HIDE DEF m
<1>4. /\ data' \in [Msgs -> Data] /\ data'[m].handled /\ data'[m].type = data[m].type
      /\ \A x \in Msgs \ {m} : data'[x] = data[x]
  <2>1. data[m] \in Data
    BY <1>2
  <2>2. [data[m] EXCEPT !.handled = TRUE] \in Data
    BY <2>1 DEF Data
  <2>3. data' = [data EXCEPT ![m] = [data[m] EXCEPT !.handled = TRUE]]
    BY <1>1
  <2>4. data'[m] = [data[m] EXCEPT !.handled = TRUE]
    BY <1>2, <2>1, <2>3
  <2>5. data'[m].type = data[m].type /\ data'[m].handled = TRUE
    BY <2>1, <2>4 DEF Data
  <2> QED  BY <1>2, <2>1, <2>2, <2>3, <2>5
<1>5. \A x \in Msgs : /\ data'[x].type = data[x].type
                      /\ data[x].handled => data'[x].handled
  BY <1>4
<1>6. \A x \in Msgs : (InFlight(x)' <=> InFlight(x)) /\ (SentOnce(x)' <=> SentOnce(x))
  BY <1>1, <1>3, RingsKept DEF m
<1>7. \A x \in Msgs : Holds(x)' <=> Holds(x)
  BY <1>1 DEF Holds
<1>8. TypeOK'
  BY <1>0, <1>1, <1>3, <1>4 DEF TypeOK
<1>9. OneOwner'
  BY <1>0, <1>1, <1>6, <1>7 DEF OneOwner, FreeOnce, HeldOnce
<1>10. CallInv' /\ OwnAnswer' /\ StoreInv'
  <2>1. OwnAnswer'
    BY <1>0, <1>1, <1>5 DEF OwnAnswer, CallInv
  <2>2. CallInv'
    BY <1>0, <1>1, <1>5 DEF CallInv
  <2>3. StoreInv'
    BY <1>0, <1>1 DEF StoreInv
  <2> QED  BY <2>1, <2>2, <2>3
<1>11. AnswerInv'
  <2>1. \A y \in Types : Elems(out[y]) \subseteq Msgs
    BY <1>0 DEF TypeOK, Elems
  <2>2. \A y \in Types : \A x \in Elems(out[y]) \ stray : data'[x].handled
    BY <1>0, <1>5, <2>1 DEF AnswerInv
  <2>3. \A x \in Msgs : InFlight(x)' => data'[x].type \in Types
    BY <1>0, <1>5, <1>6 DEF AnswerInv
  <2> QED  BY <1>1, <1>2, <1>3, <1>4, <2>2, <2>3 DEF AnswerInv
<1> QED  BY <1>8, <1>9, <1>10, <1>11 DEF IpcInv

LEMMA ReplyIpcInv == IpcInv /\ Reply => IpcInv'
<1> SUFFICES ASSUME IpcInv, Reply PROVE IpcInv'
  OBVIOUS
<1> USE IpcAssumption
<1> DEFINE m == server.msg
           y == data[m].type
<1>0. TypeOK /\ OneOwner /\ CallInv /\ StoreInv /\ AnswerInv /\ OwnAnswer
  BY DEF IpcInv
<1>1. /\ server.pc = "reply" /\ server' = Poll
      /\ out' = IF Full(y) THEN out ELSE [out EXCEPT ![y] = Append(@, m)]
      /\ UNCHANGED <<pool, data, in, ready, taken, tool, kills, late, stray>>
  BY DEF Reply
<1>2. m \in Msgs /\ y \in Types /\ (m \notin stray => data[m].handled)
  BY <1>0, <1>1 DEF AnswerInv, InFlight, TypeOK, Null
<1>3. server'.pc = "poll" /\ server'.msg = NoMsg /\ m # NoMsg
      /\ server' \in [pc : {"poll", "handle", "reply", "dead"}, msg : Null]
  BY <1>1, <1>2 DEF Poll, Null
<1>4. server.msg = m
  OBVIOUS
<1> HIDE DEF m, y
<1>5. /\ out \in [Types -> Seq(Msgs)] /\ taken \in [Types -> Nat] /\ Capacity \in Nat
      /\ \A z \in Types : Len(out[z]) + taken[z] <= Capacity
  BY <1>0 DEF TypeOK
\* The rings of answers after the step.
<1>6. /\ out' \in [Types -> Seq(Msgs)]
      /\ \A z \in Types : Len(out'[z]) + taken[z] <= Capacity
      /\ \A z \in Types \ {y} : out'[z] = out[z]
      /\ Elems(out[y]) \subseteq Elems(out'[y]) /\ Elems(out'[y]) \subseteq Elems(out[y]) \cup {m}
      /\ \A x : x # m /\ Once(out[y], x) => Once(out'[y], x)
      /\ m \notin Elems(out[y]) => Once(out'[y], m)
      /\ ~Full(y) => m \in Elems(out'[y])
  <2>1. CASE Full(y)
    <3>1. m \notin Elems(out[y]) => Once(out[y], m)
      BY DEF Once, Elems
    <3> QED  BY <1>1, <1>5, <2>1, <3>1
  <2>2. CASE ~Full(y)
    <3>1. PICK s : s = out[y] /\ s \in Seq(Msgs)
      BY <1>2, <1>5
    <3>2. PICK a : a = Append(s, m)
      OBVIOUS
    <3>3. /\ a \in Seq(Msgs) /\ Len(a) = Len(s) + 1 /\ Len(s) \in Nat
          /\ Elems(a) = Elems(s) \cup {m}
          /\ \A x : x # m /\ Once(s, x) => Once(a, x)
          /\ m \notin Elems(s) => Once(a, m)
      BY <1>2, <3>1, <3>2, RingAppend
    <3>4. out' = [out EXCEPT ![y] = a]
      BY <1>1, <2>2, <3>1, <3>2
    <3>5. out'[y] = a /\ (\A z \in Types \ {y} : out'[z] = out[z])
          /\ out' \in [Types -> Seq(Msgs)]
      BY <1>2, <1>5, <3>3, <3>4
    <3>6. Len(out'[y]) + taken[y] <= Capacity
      <4>1. Len(s) + taken[y] <= Capacity /\ Len(s) + taken[y] # Capacity /\ taken[y] \in Nat
        BY <1>2, <1>5, <2>2, <3>1 DEF Full
      <4>2. PICK k \in Nat : k = Len(s)
        BY <3>3
      <4>3. PICK n \in Nat : n = taken[y]
        BY <4>1
      <4>4. k + n <= Capacity /\ k + n # Capacity /\ Len(out'[y]) = k + 1
        BY <3>3, <3>5, <4>1, <4>2, <4>3
      <4>5. k + 1 + n <= Capacity
        BY <1>5, <4>4
      <4> QED  BY <4>3, <4>4, <4>5
    <3> QED  BY <1>5, <3>1, <3>3, <3>5, <3>6
  <2> QED  BY <2>1, <2>2
<1>7. TypeOK'
  BY <1>0, <1>1, <1>3, <1>6 DEF TypeOK
<1>8. \A x \in Msgs : Holds(x)' <=> Holds(x)
  BY <1>1 DEF Holds
<1>9. \A x \in Msgs : InFlight(x)' => InFlight(x)
  BY <1>1, <1>2, <1>3, <1>4, <1>6 DEF InFlight
<1>10. OneOwner'
  <2> SUFFICES ASSUME NEW x \in Msgs \ stray
               PROVE  FreeOnce(x)' /\ HeldOnce(x)' /\ SentOnce(x)'
    BY <1>1 DEF OneOwner
  <2>1. FreeOnce(x) /\ HeldOnce(x) /\ SentOnce(x)
    BY <1>0 DEF OneOwner
  <2>2. FreeOnce(x)' /\ HeldOnce(x)'
    BY <1>1, <1>8, <1>9, <2>1 DEF FreeOnce, HeldOnce
  <2>3. SentOnce(x)'
    <3>1. CASE x = m
      <4>1. m \notin Elems(in) /\ (\A z \in Types : m \notin Elems(out[z])) /\ Once(in, m)
        BY <1>4, <2>1, <3>1 DEF SentOnce
      <4>2. \A z \in Types : Once(out'[z], m)
        BY <1>2, <1>6, <2>1, <3>1, <4>1 DEF SentOnce
      <4> QED  BY <1>1, <1>2, <1>3, <1>6, <3>1, <4>1, <4>2 DEF SentOnce
    <3>2. CASE x # m
      <4>1. \A z \in Types : (x \in Elems(out'[z]) <=> x \in Elems(out[z]))
                             /\ (Once(out[z], x) => Once(out'[z], x))
        BY <1>2, <1>6, <3>2
      <4> QED  BY <1>1, <1>3, <2>1, <4>1 DEF SentOnce
    <3> QED  BY <3>1, <3>2
  <2> QED  BY <2>2, <2>3
<1>11. CallInv' /\ OwnAnswer' /\ StoreInv'
  BY <1>0, <1>1 DEF CallInv, OwnAnswer, StoreInv
<1>12. AnswerInv'
  <2>1. \A z \in Types : \A x \in Elems(out'[z]) \ stray : data[x].handled
    BY <1>0, <1>2, <1>6 DEF AnswerInv
  <2> QED  BY <1>0, <1>1, <1>3, <1>9, <2>1 DEF AnswerInv
<1> QED  BY <1>7, <1>10, <1>11, <1>12 DEF IpcInv

-----------------------------------------------------------------------------
\* The inductive invariant of the tools' messages (ff_ipc.c, handle_msg): serial
\* tools, killed anywhere, and a process that answers whenever it likes.
THEOREM SpecIpcInv == Spec => []IpcInv
<1>1. IpcInv /\ [Next]_vars => IpcInv'
  <2> SUFFICES ASSUME IpcInv, [Next]_vars PROVE IpcInv'
    OBVIOUS
  <2>1. CASE ff_ipc_msg_alloc
    BY <2>1, AllocIpcInv
  <2>2. CASE Call
    BY <2>2, SendIpcInv, StoreIpcInv, PublishIpcInv, TakeIpcInv, ReceivedIpcInv,
       NotMineIpcInv, GiveUpIpcInv, FinishIpcInv DEF Call
  <2>3. CASE Kill
    BY <2>3, KillIpcInv
  <2>4. CASE Server
    BY <2>4, ProcessIpcInv, HandleIpcInv, ReplyIpcInv DEF Server
  <2>5. CASE UNCHANGED vars
    BY <2>5 DEF vars, IpcInv, TypeOK, OneOwner, FreeOnce, HeldOnce, SentOnce, CallInv,
                StoreInv, AnswerInv, OwnAnswer, InFlight, Holds, OutOf
  <2> QED  BY <2>1, <2>2, <2>3, <2>4, <2>5 DEF Next
<1> QED  BY InitIpcInv, <1>1, PTL DEF Spec

\* A message that no call gave up while it was on its way, and that no torn
\* enqueue brought back, is never freed twice, sent twice or used by two
\* (ff_ipc_msg_free, handle_msg), whatever has happened to others.
THEOREM SpecOneOwner == Spec => []OneOwner
BY SpecIpcInv, PTL DEF IpcInv

\* A call that succeeds with such a message got the answer to its own request
\* (while (msg != retmsg) of the tools).
THEOREM SpecOwnAnswer == Spec => []OwnAnswer
BY SpecIpcInv, PTL DEF IpcInv

-----------------------------------------------------------------------------
(***************************************************************************)
(* Nothing is lost but with a tool or to a full ring.                      *)
(***************************************************************************)
\* A tool remembers no message but the one of its call and the one it drains.
ToolInv ==
  /\ tool.pc = "idle" => tool.msg = NoMsg
  /\ tool.pc \notin {"took", "stale", "ok"} => tool.retmsg = NoMsg
  /\ tool.pc = "ok" => tool.retmsg = tool.msg

LEMMA NextToolInv == TypeOK /\ ToolInv /\ [Next]_vars => ToolInv'
<1> SUFFICES ASSUME TypeOK, ToolInv, [Next]_vars PROVE ToolInv'
  OBVIOUS
<1>0. tool \in Tool
  BY DEF TypeOK, Tool
<1>1. CASE ff_ipc_msg_alloc
  BY <1>1 DEF ff_ipc_msg_alloc, ToolInv
<1>2. CASE ff_ipc_send \/ Store \/ Publish \/ Received \/ GiveUp
  <2>1. PICK p : /\ tool' = [tool EXCEPT !.pc = p]
                 /\ tool.pc \in {"filled", "moved", "stored", "recv", "took"}
                 /\ p \in {"failed", "moved", "stored", "recv", "ok", "stale"}
                 /\ p \in {"ok", "stale"} <=> tool.pc = "took"
                 /\ p = "ok" => tool.retmsg = tool.msg
    BY <1>2 DEF ff_ipc_send, Store, Publish, Received, GiveUp
  <2>2. p \in ToolPC
    BY <2>1 DEF ToolPC
  <2>3. tool'.pc = p /\ tool'.msg = tool.msg /\ tool'.retmsg = tool.retmsg
    BY <1>0, <2>1, <2>2, ToolPc
  <2> QED  BY <2>1, <2>3 DEF ToolInv
<1>3. CASE Take
  <2>1. PICK x : tool' = [pc |-> "took", msg |-> tool.msg, retmsg |-> x]
    BY <1>3 DEF Take
  <2> QED  BY <2>1 DEF ToolInv
<1>4. CASE NotMine
  BY <1>4 DEF NotMine, ToolInv
<1>5. CASE Finish \/ Kill
  BY <1>5 DEF Finish, Kill, Idle, ToolInv
<1>6. CASE Server \/ UNCHANGED vars
  BY <1>6 DEF Server, process_msg_ring, handle_msg, Reply, vars, ToolInv
<1> QED  BY <1>1, <1>2, <1>3, <1>4, <1>5, <1>6 DEF Next, Call

\* A message that the pool, a ring, the process or a tool has does not get lost in
\* a step of a tool: it is handed on or freed.
LEMMA ToolKeeps ==
  ASSUME IpcInv, ToolInv, ff_ipc_msg_alloc \/ Call, NEW m \in Msgs, ~Lost(m)
  PROVE  ~Lost(m)'
<1> USE IpcAssumption
<1>0. /\ tool \in Tool /\ pool \in [Msgs -> Nat] /\ in \in Seq(Null)
      /\ out \in [Types -> Seq(Msgs)] /\ m # NoMsg
  BY DEF IpcInv, TypeOK, Tool
<1>1. CASE ff_ipc_msg_alloc
  <2>1. PICK x \in Msgs : /\ pool' = [pool EXCEPT ![x] = @ - 1]
                          /\ tool' = [pc |-> "filled", msg |-> x, retmsg |-> NoMsg]
    BY <1>1 DEF ff_ipc_msg_alloc
  <2>2. tool.msg = NoMsg /\ tool.retmsg = NoMsg /\ UNCHANGED <<in, out, server>>
    BY <1>1 DEF ff_ipc_msg_alloc, ToolInv, ring
  <2>3. tool'.msg = x /\ (m # x => pool'[m] = pool[m])
    BY <1>0, <2>1
  <2> QED  BY <1>0, <2>2, <2>3 DEF Lost, InFlight
<1>2. CASE ff_ipc_send \/ Store \/ Publish \/ Received \/ GiveUp
  <2>1. PICK p \in ToolPC : tool' = [tool EXCEPT !.pc = p]
    BY <1>2 DEF ff_ipc_send, Store, Publish, Received, GiveUp, ToolPC
  <2>2. tool'.msg = tool.msg /\ tool'.retmsg = tool.retmsg
    BY <1>0, <2>1, ToolPc
  <2>3. UNCHANGED <<pool, out, server>>
    BY <1>2 DEF ff_ipc_send, Store, Publish, Received, GiveUp, ring
  <2>4. m \in Elems(in) => m \in Elems(in') \/ m = tool.msg
    <3>1. CASE ff_ipc_send
      <4>1. NoMsg \in Null /\ (in' = in \/ in' = Append(in, NoMsg))
        BY <3>1 DEF ff_ipc_send, Null
      <4>2. Elems(Append(in, NoMsg)) = Elems(in) \cup {NoMsg}
        BY <1>0, <4>1, RingAppend
      <4> QED  BY <4>1, <4>2
    <3>2. CASE Store
      <4>1. /\ in' = [in EXCEPT ![Len(in)] = tool.msg] /\ in[Len(in)] = NoMsg
            /\ Len(in) \in Nat /\ DOMAIN in = 1..Len(in)
        BY <1>0, <3>2 DEF Store, IpcInv, StoreInv
      <4>2. DOMAIN in' = DOMAIN in /\ \A i \in DOMAIN in : i # Len(in) => in'[i] = in[i]
        BY <4>1
      <4> QED  BY <1>0, <4>1, <4>2 DEF Elems
    <3>3. CASE Publish \/ Received \/ GiveUp
      BY <3>3 DEF Publish, Received, GiveUp, ring
    <3> QED  BY <1>2, <3>1, <3>2, <3>3
  <2> QED  BY <2>2, <2>3, <2>4 DEF Lost, InFlight
<1>3. CASE Take
  <2>1. PICK y : y = OutOf
    OBVIOUS
  <2>2. /\ tool.pc = "recv" /\ out[y] # <<>> /\ UNCHANGED <<pool, in, server>>
        /\ out' = [out EXCEPT ![y] = Tail(@)]
        /\ tool' = [pc |-> "took", msg |-> tool.msg, retmsg |-> Head(out[y])]
    BY <1>3, <2>1 DEF Take
  <2>3. y \in Types
    BY <2>1, <2>2 DEF IpcInv, CallInv, OutOf
  <2>4. PICK s : s = out[y] /\ s \in Seq(Msgs)
    BY <1>0, <2>3
  <2>5. Elems(s) = Elems(Tail(s)) \cup {Head(s)}
    BY <2>2, <2>4, RingTail
  <2>6. out'[y] = Tail(s) /\ \A z \in Types \ {y} : out'[z] = out[z]
    BY <1>0, <2>2, <2>3, <2>4
  <2>7. tool'.msg = tool.msg /\ tool'.retmsg = Head(s) /\ tool.retmsg = NoMsg
    BY <2>2, <2>4 DEF ToolInv
  <2> QED  BY <1>0, <2>2, <2>3, <2>4, <2>5, <2>6, <2>7 DEF Lost, InFlight
<1>4. CASE NotMine \/ Finish
  <2>1. PICK x \in Msgs : /\ pool' = [pool EXCEPT ![x] = @ + 1] /\ UNCHANGED <<in, out, server>>
                          /\ {tool.msg, tool.retmsg} \subseteq {x, NoMsg, tool'.msg}
    <3>1. CASE NotMine
      <4>1. pool' = [pool EXCEPT ![tool.retmsg] = @ + 1] /\ tool'.msg = tool.msg
        BY <3>1 DEF NotMine, Freed
      <4>2. tool.retmsg \in Msgs /\ UNCHANGED <<in, out, server>>
        BY <3>1 DEF NotMine, IpcInv, CallInv, ring
      <4> QED  BY <4>1, <4>2
    <3>2. CASE Finish
      <4>1. pool' = [pool EXCEPT ![tool.msg] = @ + 1] /\ UNCHANGED <<in, out, server>>
        BY <3>2 DEF Finish, Freed, ring
      <4>2. tool.msg \in Msgs /\ tool.retmsg \in {NoMsg, tool.msg}
        BY <3>2 DEF Finish, IpcInv, CallInv, ToolInv
      <4> QED  BY <4>1, <4>2
    <3> QED  BY <1>4, <3>1, <3>2
  <2>2. IF m = x THEN pool'[m] > 0 ELSE pool'[m] = pool[m]
    BY <1>0, <2>1
  <2> QED  BY <1>0, <2>1, <2>2 DEF Lost, InFlight
<1> QED  BY <1>1, <1>2, <1>3, <1>4 DEF Call

\* Nor in a step of the process, unless the ring of the answer is full.
LEMMA ServerKeeps ==
  ASSUME IpcInv, Server, NEW m \in Msgs, ~Lost(m),
         ~(server.msg = m /\ Full(data[m].type))
  PROVE  ~Lost(m)'
<1> USE IpcAssumption
<1>0. /\ in \in Seq(Null) /\ out \in [Types -> Seq(Msgs)] /\ m # NoMsg
      /\ server \in [pc : {"poll", "handle", "reply", "dead"}, msg : Null]
  BY DEF IpcInv, TypeOK
<1>1. CASE process_msg_ring
  <2>1. /\ in # <<>> /\ in' = Tail(in) /\ UNCHANGED <<pool, out, tool>>
        /\ server.msg = NoMsg /\ (Head(in) # NoMsg => server'.msg = Head(in))
    <3>1. ready > 0 /\ ready \in 0..Len(in) /\ server.msg = NoMsg
      BY <1>1 DEF process_msg_ring, IpcInv, AnswerInv, TypeOK
    <3> QED  BY <1>0, <1>1, <3>1 DEF process_msg_ring
  <2>2. Elems(in) = Elems(in') \cup {Head(in)}
    BY <1>0, <2>1, RingTail
  <2> QED  BY <1>0, <2>1, <2>2 DEF Lost, InFlight
<1>2. CASE handle_msg
  <2>1. server'.msg = server.msg /\ UNCHANGED <<pool, in, out, tool>>
    BY <1>0, <1>2 DEF handle_msg, ring
  <2> QED  BY <2>1 DEF Lost, InFlight
<1>3. CASE Reply
  <2>1. PICK x, y : x = server.msg /\ y = data[x].type
    OBVIOUS
  <2>2. /\ out' = IF Full(y) THEN out ELSE [out EXCEPT ![y] = Append(@, x)]
        /\ UNCHANGED <<pool, in, tool>> /\ server.pc = "reply"
    BY <1>3, <2>1 DEF Reply
  <2>3. x \in Msgs /\ y \in Types
    BY <1>0, <2>1, <2>2 DEF IpcInv, AnswerInv, InFlight, Null
  <2>4. CASE ~Full(y)
    <3>1. PICK s : s = out[y] /\ s \in Seq(Msgs)
      BY <1>0, <2>3
    <3>2. out'[y] = Append(s, x) /\ \A z \in Types \ {y} : out'[z] = out[z]
      BY <1>0, <2>2, <2>3, <2>4, <3>1
    <3>3. Elems(out'[y]) = Elems(s) \cup {x}
      BY <2>3, <3>1, <3>2, RingAppend
    <3>4. \A z \in Types : Elems(out[z]) \subseteq Elems(out'[z])
      BY <3>1, <3>2, <3>3
    <3> QED  BY <2>1, <2>2, <2>3, <3>3, <3>4 DEF Lost, InFlight
  <2>5. CASE Full(y)
    BY <2>1, <2>2, <2>5 DEF Lost, InFlight
  <2> QED  BY <2>4, <2>5
<1> QED  BY <1>1, <1>2, <1>3 DEF Server

\* A message gets lost only with a tool that is killed, or when the answer finds
\* the ring of its type full (handle_msg does not look at the enqueue's result).
THEOREM SpecNoLeak == Spec => NoLeak
<1> DEFINE A == \A m \in Msgs : ~Lost(m) /\ Lost(m)' =>
                  \/ kills' # kills
                  \/ server.msg = m /\ Full(data[m].type)
<1>1. Init => ToolInv
  BY DEF Init, Idle, ToolInv
<1>2. IpcInv /\ ToolInv /\ [Next]_vars => ToolInv'
  BY NextToolInv DEF IpcInv
<1>3. IpcInv /\ ToolInv /\ [Next]_vars => [A]_vars
  <2> SUFFICES ASSUME IpcInv, ToolInv, Next, NEW m \in Msgs, ~Lost(m), Lost(m)',
                      ~(server.msg = m /\ Full(data[m].type))
               PROVE  kills' # kills
    OBVIOUS
  <2>1. ASSUME Kill  PROVE kills' # kills
    BY <2>1 DEF Kill, IpcInv, TypeOK
  <2>2. ~Server
    BY ServerKeeps
  <2>3. ~(ff_ipc_msg_alloc \/ Call)
    BY ToolKeeps
  <2> QED  BY <2>1, <2>2, <2>3 DEF Next
<1> QED  BY <1>1, <1>2, <1>3, SpecIpcInv, PTL DEF Spec, NoLeak
=============================================================================
