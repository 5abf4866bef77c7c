-------------------------- MODULE FfDispatchProofs --------------------------
(***************************************************************************)
(* Who owns a buffer and who is given a frame, for any number of           *)
(* processes, frames and buffers, any burst and any ring size.             *)
(***************************************************************************)
EXTENDS FfDispatch, SequenceTheorems, FiniteSetTheorems, TLAPS

(***************************************************************************)
(* Sequences without repetitions.                                          *)
(***************************************************************************)
LEMMA AtmostIs ==
  ASSUME NEW n \in Nat, NEW s
  PROVE  s \in Atmost(n) <=> s \in Seq(Frames) /\ Len(s) <= n
  BY DEF Atmost

LEMMA SeqAppend ==
  ASSUME NEW s \in Seq(Frames), NEW f \in Frames
  PROVE  /\ Append(s, f) \in Seq(Frames) /\ Len(Append(s, f)) = Len(s) + 1
         /\ ToSet(Append(s, f)) = ToSet(s) \cup {f}
         /\ IsInjective(s) /\ f \notin ToSet(s) => IsInjective(Append(s, f))
  <1> DEFINE a == Append(s, f)
  <1>1. /\ a \in Seq(Frames) /\ Len(s) \in Nat /\ Len(a) = Len(s) + 1
        /\ DOMAIN s = 1..Len(s) /\ DOMAIN a = 1..(Len(s) + 1)
        /\ \A i \in 1..Len(s) : a[i] = s[i]
        /\ a[Len(s) + 1] = f
    OBVIOUS
  <1>2. ToSet(a) = ToSet(s) \cup {f}
    BY <1>1 DEF ToSet
  <1>3. IsInjective(s) /\ f \notin ToSet(s) => IsInjective(a)
    BY <1>1 DEF ToSet, IsInjective
  <1> QED BY <1>1, <1>2, <1>3

LEMMA SeqTail ==
  ASSUME NEW s \in Seq(Frames), s # <<>>, IsInjective(s)
  PROVE  /\ Tail(s) \in Seq(Frames) /\ Len(Tail(s)) = Len(s) - 1
         /\ Head(s) \in Frames /\ Head(s) \in ToSet(s)
         /\ ToSet(Tail(s)) = ToSet(s) \ {Head(s)}
         /\ IsInjective(Tail(s))
  <1> DEFINE u == Tail(s)
  <1>1. /\ u \in Seq(Frames) /\ Len(s) \in Nat /\ Len(s) > 0 /\ Len(u) = Len(s) - 1
        /\ DOMAIN s = 1..Len(s) /\ DOMAIN u = 1..(Len(s) - 1)
        /\ \A i \in 1..(Len(s) - 1) : u[i] = s[i + 1]
        /\ Head(s) = s[1] /\ Head(s) \in Frames
    OBVIOUS
  <1>2. \A i, j \in 1..Len(s) : s[i] = s[j] => i = j
    BY <1>1 DEF IsInjective
  <1>3. ASSUME NEW f \in ToSet(u)  PROVE f \in ToSet(s) /\ f # Head(s)
    <2>1. PICK i \in 1..(Len(s) - 1) : f = s[i + 1]
      BY <1>1 DEF ToSet
    <2>2. i + 1 \in 1..Len(s) /\ 1 \in 1..Len(s) /\ i + 1 # 1
      BY <1>1
    <2> QED BY <2>1, <2>2, <1>1, <1>2 DEF ToSet
  <1>4. ASSUME NEW f \in ToSet(s), f # Head(s)  PROVE f \in ToSet(u)
    <2>1. PICK i \in 1..Len(s) : f = s[i]
      BY <1>1 DEF ToSet
    <2>2. i - 1 \in 1..(Len(s) - 1) /\ u[i - 1] = s[i]
      BY <1>1, <1>4, <2>1
    <2> QED BY <2>1, <2>2, <1>1 DEF ToSet
  <1>5. IsInjective(u)
    <2> SUFFICES ASSUME NEW i \in 1..(Len(s) - 1), NEW j \in 1..(Len(s) - 1), u[i] = u[j]
                 PROVE  i = j
      BY <1>1 DEF IsInjective
    <2>1. i + 1 \in 1..Len(s) /\ j + 1 \in 1..Len(s) /\ s[i + 1] = s[j + 1]
      BY <1>1
    <2>2. i + 1 = j + 1
      BY <1>2, <2>1
    <2> QED BY <2>2
  <1>6. Head(s) \in ToSet(s)
    BY <1>1 DEF ToSet
  <1> QED BY <1>1, <1>3, <1>4, <1>5, <1>6

\* A part of a sequence.
LEMMA SeqPart ==
  ASSUME NEW s \in Seq(Frames), IsInjective(s), NEW m \in Nat \ {0}, NEW n \in 0..Len(s),
         m <= n + 1
  PROVE  /\ SubSeq(s, m, n) \in Seq(Frames) /\ Len(SubSeq(s, m, n)) = n - m + 1
         /\ \A f \in Frames : f \in ToSet(SubSeq(s, m, n)) <=> \E i \in m..n : s[i] = f
         /\ IsInjective(SubSeq(s, m, n))
  <1> DEFINE u == SubSeq(s, m, n)
             k == n - m + 1
  <1>0. Len(s) \in Nat /\ DOMAIN s = 1..Len(s) /\ \A i \in 1..Len(s) : s[i] \in Frames
    OBVIOUS
  <1>1. u \in Seq(Frames) /\ Len(u) = k /\ k \in Nat /\ \A i \in 1..k : u[i] = s[m + i - 1]
    <2>1. \A i \in m..n : s[i] \in Frames
      BY <1>0
    <2>2. /\ u \in Seq(Frames) /\ Len(u) = IF m <= n THEN k ELSE 0
          /\ \A i \in 1..k : u[i] = s[m + i - 1]
      BY <2>1, SubSeqProperties
    <2>3. k \in Nat /\ (~(m <= n) => k = 0)
      BY <1>0
    <2> QED BY <2>2, <2>3
  <1>2. DOMAIN u = 1..k
    BY <1>1
  <1>3. ASSUME NEW f \in ToSet(u)  PROVE \E i \in m..n : s[i] = f
    <2>1. PICK i \in 1..k : f = s[m + i - 1]
      BY <1>1, <1>2 DEF ToSet
    <2>2. m + i - 1 \in m..n
      BY <1>0
    <2> QED BY <2>1, <2>2
  <1>4. ASSUME NEW i \in m..n  PROVE s[i] \in ToSet(u)
    <2>1. i - m + 1 \in 1..k /\ m + (i - m + 1) - 1 = i
      BY <1>0
    <2> QED BY <2>1, <1>1, <1>2 DEF ToSet
  <1>5. IsInjective(u)
    <2> SUFFICES ASSUME NEW i \in 1..k, NEW j \in 1..k, u[i] = u[j]
                 PROVE  i = j
      BY <1>2 DEF IsInjective
    <2>1. m + i - 1 \in 1..Len(s) /\ m + j - 1 \in 1..Len(s) /\ s[m + i - 1] = s[m + j - 1]
      BY <1>0, <1>1
    <2>2. m + i - 1 = m + j - 1
      BY <2>1, <1>0 DEF IsInjective
    <2> QED BY <2>2
  <1> QED BY <1>1, <1>3, <1>4, <1>5

\* A sequence cut in two.
LEMMA SeqCut ==
  ASSUME NEW s \in Seq(Frames), IsInjective(s), NEW n \in 0..Len(s)
  PROVE  /\ SubSeq(s, 1, n) \in Seq(Frames) /\ Len(SubSeq(s, 1, n)) = n
         /\ Drop(s, n) \in Seq(Frames) /\ Len(Drop(s, n)) = Len(s) - n
         /\ IsInjective(SubSeq(s, 1, n)) /\ IsInjective(Drop(s, n))
         /\ ToSet(SubSeq(s, 1, n)) \cup ToSet(Drop(s, n)) = ToSet(s)
         /\ ToSet(SubSeq(s, 1, n)) \cap ToSet(Drop(s, n)) = {}
  <1> DEFINE a == SubSeq(s, 1, n)
             b == SubSeq(s, n + 1, Len(s))
  <1>1. /\ Len(s) \in Nat /\ DOMAIN s = 1..Len(s)
        /\ \A i, j \in 1..Len(s) : s[i] = s[j] => i = j
        /\ 1 <= n + 1 /\ n + 1 \in Nat \ {0} /\ n + 1 <= Len(s) + 1 /\ Len(s) \in 0..Len(s)
        /\ n - 1 + 1 = n /\ Len(s) - (n + 1) + 1 = Len(s) - n
    BY DEF IsInjective
  <1>2. /\ a \in Seq(Frames) /\ Len(a) = n - 1 + 1 /\ IsInjective(a)
        /\ \A f \in Frames : f \in ToSet(a) <=> \E i \in 1..n : s[i] = f
    BY <1>1, SeqPart
  <1>3. /\ b \in Seq(Frames) /\ Len(b) = Len(s) - (n + 1) + 1 /\ IsInjective(b)
        /\ \A f \in Frames : f \in ToSet(b) <=> \E i \in (n + 1)..Len(s) : s[i] = f
    BY ZenonT(60), <1>1, SeqPart
  <1>4. \A f \in Frames : f \in ToSet(s) <=> \E i \in 1..Len(s) : s[i] = f
    BY <1>1 DEF ToSet
  <1>5. ToSet(a) \subseteq Frames /\ ToSet(b) \subseteq Frames /\ ToSet(s) \subseteq Frames
    BY <1>2, <1>3 DEF ToSet
  <1>6. \A f \in Frames : f \in ToSet(s) <=> f \in ToSet(a) \/ f \in ToSet(b)
    <2>1. \A i \in 1..Len(s) : i \in 1..n \/ i \in (n + 1)..Len(s)
      BY <1>1
    <2>2. /\ \A i \in 1..n : i \in 1..Len(s)
          /\ \A i \in (n + 1)..Len(s) : i \in 1..Len(s)
      BY <1>1
    <2> HIDE DEF a, b
    <2> QED BY <2>1, <2>2, <1>2, <1>3, <1>4
  <1>7. \A f \in Frames : ~(f \in ToSet(a) /\ f \in ToSet(b))
    <2> SUFFICES ASSUME NEW f \in Frames, f \in ToSet(a), f \in ToSet(b) PROVE FALSE
      OBVIOUS
    <2>1. PICK i \in 1..n : s[i] = f
      BY <1>2
    <2>2. PICK j \in (n + 1)..Len(s) : s[j] = f
      BY <1>3
    <2>3. i \in 1..Len(s) /\ j \in 1..Len(s) /\ i # j
      BY <1>1
    <2> QED BY <2>1, <2>2, <2>3, <1>1
  <1> HIDE DEF a
  <1>8. b = Drop(s, n)
    BY DEF Drop
  <1> HIDE DEF b
  <1>9. ToSet(a) \cup ToSet(b) = ToSet(s) /\ ToSet(a) \cap ToSet(b) = {}
    BY <1>5, <1>6, <1>7
  <1>10. Len(a) = n /\ Len(b) = Len(s) - n
    BY <1>1, <1>2, <1>3
  <1> QED BY <1>2, <1>3, <1>8, <1>9, <1>10 DEF a

LEMMA OccursOnce ==
  ASSUME NEW s \in Seq(Frames), IsInjective(s), NEW f \in Frames
  PROVE  Occurs(f, s) = IF f \in ToSet(s) THEN 1 ELSE 0
  <1> DEFINE O == {i \in DOMAIN s : s[i] = f}
  <1>1. CASE f \in ToSet(s)
    <2>1. PICK i \in DOMAIN s : s[i] = f
      BY <1>1 DEF ToSet
    <2>2. O = {i}
      BY <2>1 DEF IsInjective
    <2> QED BY <2>2, <1>1, FS_Singleton DEF Occurs
  <1>2. CASE f \notin ToSet(s)
    <2>1. O = {}
      BY <1>2 DEF ToSet
    <2> QED BY <2>1, <1>2, FS_EmptySet DEF Occurs
  <1> QED BY <1>1, <1>2

LEMMA EmptyFacts ==
  /\ <<>> \in Seq(Frames) /\ Len(<<>>) = 0 /\ ToSet(<<>>) = {} /\ IsInjective(<<>>)
  BY DEF ToSet, IsInjective

LEMMA OneFacts ==
  ASSUME NEW f \in Frames
  PROVE  /\ <<f>> \in Seq(Frames) /\ Len(<<f>>) = 1 /\ ToSet(<<f>>) = {f}
         /\ IsInjective(<<f>>)
  BY DEF ToSet, IsInjective
-----------------------------------------------------------------------------
(***************************************************************************)
(* The buffers of one holder, and of all of them.                          *)
(***************************************************************************)
Row(h, n) == {<<h, i>> : i \in 1..n}

LEMMA RowCount ==
  ASSUME NEW h, NEW n \in Nat
  PROVE  IsFiniteSet(Row(h, n)) /\ Cardinality(Row(h, n)) = n
  <1> DEFINE b == [i \in 1..n |-> <<h, i>>]
  <1>1. b \in Bijection(1..n, Row(h, n))
    <2>1. b \in [1..n -> Row(h, n)]
      BY DEF Row
    <2>2. \A i, j \in 1..n : b[i] = b[j] => i = j
      OBVIOUS
    <2>3. \A x \in Row(h, n) : \E i \in 1..n : b[i] = x
      BY DEF Row
    <2> QED BY <2>1, <2>2, <2>3 DEF Bijection, Injection, Surjection, IsInjective
  <1>2. IsFiniteSet(1..n) /\ Cardinality(1..n) = n
    BY FS_Interval
  <1>3. ExistsBijection(1..n, Row(h, n))
    BY <1>1 DEF ExistsBijection
  <1> HIDE DEF b
  <1> QED BY <1>2, <1>3, FS_Bijection

\* One row of n[x] buffers for every x in S.
Rows(n, S) == UNION {Row(x, n[x]) : x \in S}

LEMMA RowsSplit ==
  ASSUME NEW S, IsFiniteSet(S), NEW n \in [S -> Nat], NEW h \in S
  PROVE  /\ Cardinality(Rows(n, S)) \in Nat /\ Cardinality(Rows(n, S \ {h})) \in Nat
         /\ Cardinality(Rows(n, S)) = Cardinality(Rows(n, S \ {h})) + n[h]
  <1> DEFINE E == Rows(n, S \ {h})
             P == Row(h, n[h])
             Parts == {Row(g, n[g]) : g \in S \ {h}}
  <1>1. \A g \in S : n[g] \in Nat
    OBVIOUS
  <1>2. IsFiniteSet(P) /\ Cardinality(P) = n[h]
    BY <1>1, RowCount
  <1>3. IsFiniteSet(E)
    <2>1. IsFiniteSet(S \ {h})
      BY FS_Subset
    <2>2. IsFiniteSet(Parts)
      <3> DEFINE part == [g \in S \ {h} |-> Row(g, n[g])]
      <3>1. part \in Surjection(S \ {h}, Parts)
        BY DEF Surjection
      <3> HIDE DEF part, Parts
      <3> QED BY <2>1, <3>1, FS_Surjection
    <2>3. \A T \in Parts : IsFiniteSet(T)
      BY <1>1, RowCount
    <2> HIDE DEF Parts
    <2>4. IsFiniteSet(UNION Parts)
      BY <2>2, <2>3, FS_UNION
    <2> QED BY <2>4 DEF Parts, Rows
  <1>4. \A x : x \in Rows(n, S) <=> \E g \in S : x \in Row(g, n[g])
    BY DEF Rows
  <1>5. \A x : x \in E <=> \E g \in S \ {h} : x \in Row(g, n[g])
    BY DEF Rows
  <1>6. E \cap P = {}
    <2>1. \A g, k, x : x \in Row(g, k) => x[1] = g
      BY DEF Row
    <2> HIDE DEF E
    <2> QED BY <1>5, <2>1
  <1>7. Rows(n, S) = E \cup P
    <2> HIDE DEF E
    <2> QED BY <1>4, <1>5
  <1> HIDE DEF E, P
  <1>8. /\ IsFiniteSet(E \cup P)
        /\ Cardinality(E \cup P) = Cardinality(E) + Cardinality(P) - Cardinality(E \cap P)
    BY <1>2, <1>3, FS_Union
  <1>9. Cardinality(E) \in Nat /\ Cardinality(P) \in Nat /\ Cardinality(E \cap P) = 0
    BY <1>1, <1>2, <1>3, <1>6, FS_CardinalityType, FS_EmptySet
  <1>10. Cardinality(Rows(n, S)) = Cardinality(E) + n[h]
    BY <1>2, <1>7, <1>8, <1>9
  <1> QED BY <1>1, <1>9, <1>10 DEF E

\* What happens to the count when one row changes.
LEMMA RowsResize ==
  ASSUME NEW S, IsFiniteSet(S), NEW n \in [S -> Nat], NEW m \in [S -> Nat], NEW h \in S,
         \A g \in S \ {h} : m[g] = n[g]
  PROVE  /\ Cardinality(Rows(n, S)) \in Nat /\ Cardinality(Rows(m, S)) \in Nat
         /\ Cardinality(Rows(m, S)) + n[h] = Cardinality(Rows(n, S)) + m[h]
  <1>1. Rows(m, S \ {h}) = Rows(n, S \ {h})
    BY DEF Rows
  <1>2. /\ Cardinality(Rows(n, S)) \in Nat /\ Cardinality(Rows(n, S \ {h})) \in Nat
        /\ Cardinality(Rows(n, S)) = Cardinality(Rows(n, S \ {h})) + n[h]
    BY RowsSplit
  <1>3. /\ Cardinality(Rows(m, S)) \in Nat
        /\ Cardinality(Rows(m, S)) = Cardinality(Rows(m, S \ {h})) + m[h]
    BY RowsSplit
  <1>4. n[h] \in Nat /\ m[h] \in Nat
    OBVIOUS
  <1> QED BY <1>1, <1>2, <1>3, <1>4

LEMMA HoldersFinite == IsFiniteSet(Holders)
  <1>1. IsFiniteSet(Queues)
    BY DispatchAssumption, FS_Interval DEF Queues
  <1>2. IsFiniteSet({"dispatch", "burst", "tx"})
    <2>1. IsFiniteSet({"dispatch"}) /\ IsFiniteSet({"burst"}) /\ IsFiniteSet({"tx"})
      BY FS_Singleton
    <2>2. IsFiniteSet({"dispatch"} \cup {"burst"})
      BY <2>1, FS_Union
    <2>3. IsFiniteSet(({"dispatch"} \cup {"burst"}) \cup {"tx"})
      BY <2>1, <2>2, FS_Union
    <2>4. {"dispatch", "burst", "tx"} = ({"dispatch"} \cup {"burst"}) \cup {"tx"}
      OBVIOUS
    <2> QED BY <2>3, <2>4
  <1>3. IsFiniteSet({"dispatch", "burst", "tx"} \X Queues)
    BY <1>1, <1>2, FS_Product
  <1>4. IsFiniteSet({<<"kni", Primary>>})
    BY FS_Singleton
  <1> QED BY <1>3, <1>4, FS_Union DEF Holders

LEMMA HoldersResize ==
  ASSUME NEW n \in [Holders -> Nat], NEW m \in [Holders -> Nat], NEW h \in Holders,
         \A g \in Holders \ {h} : m[g] = n[g]
  PROVE  /\ Cardinality(Rows(n, Holders)) \in Nat /\ Cardinality(Rows(m, Holders)) \in Nat
         /\ Cardinality(Rows(m, Holders)) + n[h] = Cardinality(Rows(n, Holders)) + m[h]
  BY HoldersFinite, RowsResize

\* ... one holder's sequence.
LEMMA Resize ==
  ASSUME NEW C \in [Holders -> Seq(Frames)], NEW D \in [Holders -> Seq(Frames)],
         NEW h \in Holders, \A g \in Holders \ {h} : D[g] = C[g]
  PROVE  /\ Cardinality(Places(C)) \in Nat /\ Cardinality(Places(D)) \in Nat
         /\ Cardinality(Places(D)) + Len(C[h]) = Cardinality(Places(C)) + Len(D[h])
  <1> DEFINE n == [g \in Holders |-> Len(C[g])]
             m == [g \in Holders |-> Len(D[g])]
  <1>1. n \in [Holders -> Nat] /\ m \in [Holders -> Nat] /\ \A g \in Holders \ {h} : m[g] = n[g]
    OBVIOUS
  <1>2. n[h] = Len(C[h]) /\ m[h] = Len(D[h])
    OBVIOUS
  <1>3. Rows(n, Holders) = Places(C) /\ Rows(m, Holders) = Places(D)
    BY DEF Rows, Row, Places
  <1> HIDE DEF n, m
  <1>4. PICK u \in [Holders -> Nat], v \in [Holders -> Nat] : u = n /\ v = m
    BY <1>1
  <1>5. \A g \in Holders \ {h} : v[g] = u[g]
    BY <1>1, <1>4
  <1>6. /\ Cardinality(Rows(u, Holders)) \in Nat /\ Cardinality(Rows(v, Holders)) \in Nat
        /\ Cardinality(Rows(v, Holders)) + u[h] = Cardinality(Rows(u, Holders)) + v[h]
    BY <1>5, HoldersResize
  <1> QED BY <1>2, <1>3, <1>4, <1>6

\* ... what one interface holds.
LEMMA HeldResize ==
  ASSUME NEW F \in [Queues -> Nat], NEW G \in [Queues -> Nat], NEW q \in Queues,
         \A r \in Queues \ {q} : G[r] = F[r]
  PROVE  /\ Cardinality(HeldPlaces(F)) \in Nat /\ Cardinality(HeldPlaces(G)) \in Nat
         /\ Cardinality(HeldPlaces(G)) + Held(F[q]) = Cardinality(HeldPlaces(F)) + Held(G[q])
  <1> DEFINE n == [r \in Queues |-> Held(F[r])]
             m == [r \in Queues |-> Held(G[r])]
  <1>1. n \in [Queues -> Nat] /\ m \in [Queues -> Nat] /\ \A r \in Queues \ {q} : m[r] = n[r]
    BY DispatchAssumption DEF Held
  <1>2. n[q] = Held(F[q]) /\ m[q] = Held(G[q])
    OBVIOUS
  <1>3. Rows(n, Queues) = HeldPlaces(F) /\ Rows(m, Queues) = HeldPlaces(G)
    BY DEF Rows, Row, HeldPlaces
  <1>4. IsFiniteSet(Queues)
    BY DispatchAssumption, FS_Interval DEF Queues
  <1> HIDE DEF n, m
  <1>5. /\ Cardinality(Rows(n, Queues)) \in Nat /\ Cardinality(Rows(m, Queues)) \in Nat
        /\ Cardinality(Rows(m, Queues)) + n[q] = Cardinality(Rows(n, Queues)) + m[q]
    BY <1>1, <1>4, RowsResize
  <1> QED BY <1>2, <1>3, <1>5
-----------------------------------------------------------------------------
(***************************************************************************)
(* The state, holder by holder.                                            *)
(***************************************************************************)
Fits(s, n) == s \in Seq(Frames) /\ IsInjective(s) /\ Len(s) <= n

FlagOK == flag \in [Queues -> 0..(Warmup + Slots - 1)]

\* The number of buffers that the interfaces hold.
Kept == Cardinality(HeldPlaces(flag))

\* What TypeOK, ControlInv and OnceInv say of one process.
Good(p) ==
  /\ p \in [pc : ProcPC, burst : Seq(Frames), ring : BOOLEAN, to : Queues]
  /\ Fits(p.burst, MAX_PKT_BURST)
  /\ p.burst # <<>> <=> p.pc \in {"packet", "copy", "input", "send"}
  /\ p.ring => p.pc \in {"packet", "input"}
  /\ p.to # 0 => p.pc = "copy"
  /\ p.pc = "copy" => FilterOf[Head(p.burst)] = "FILTER_ARP"
  /\ p.pc = "send" => Len(p.burst) = 1 /\ FilterOf[Head(p.burst)] = "OUT"

LEMMA Sizes ==
  /\ NbMbufs \in Nat /\ RingCapacity \in Nat /\ MAX_PKT_BURST \in Nat /\ MAX_PKT_BURST > 0
  /\ MAX_PKT_BURST - 1 \in Nat /\ NbQueues \in Nat /\ NbQueues > 0
  /\ Primary \in Queues /\ 0 \in Queues /\ Queues \subseteq Sinks /\ Kernel \in Sinks /\ Wire \in Sinks
  /\ Kernel # Wire /\ \A q \in Queues : q # Kernel /\ q # Wire /\ q \in Nat /\ q < NbQueues
  BY DispatchAssumption DEF Primary, Queues, Sinks, Kernel, Wire

LEMMA ContentIs ==
  /\ \A q \in Queues :
       /\ <<"dispatch", q>> \in Holders /\ Content[<<"dispatch", q>>] = dispatch[q]
       /\ <<"burst", q>> \in Holders /\ Content[<<"burst", q>>] = proc[q].burst
       /\ <<"tx", q>> \in Holders /\ Content[<<"tx", q>>] = tx[q]
  /\ <<"kni", Primary>> \in Holders /\ Content[<<"kni", Primary>>] = kni
  /\ DOMAIN Content = Holders
  /\ Content = [h \in Holders |-> Content[h]]
  BY DEF Holders, Content

LEMMA ContentIsNext ==
  (/\ \A q \in Queues :
        /\ <<"dispatch", q>> \in Holders /\ Content[<<"dispatch", q>>] = dispatch[q]
        /\ <<"burst", q>> \in Holders /\ Content[<<"burst", q>>] = proc[q].burst
        /\ <<"tx", q>> \in Holders /\ Content[<<"tx", q>>] = tx[q]
   /\ <<"kni", Primary>> \in Holders /\ Content[<<"kni", Primary>>] = kni
   /\ DOMAIN Content = Holders
   /\ Content = [h \in Holders |-> Content[h]])'
  BY ContentIs, PTL

LEMMA HolderIs ==
  ASSUME NEW h \in Holders
  PROVE  (\E q \in Queues : h \in {<<"dispatch", q>>, <<"burst", q>>, <<"tx", q>>})
         \/ h = <<"kni", Primary>>
  BY DEF Holders

LEMMA StateFits ==
  DispatchInv =>
    /\ \A q \in Queues : Good(proc[q]) /\ Fits(dispatch[q], RingCapacity)
                          /\ Fits(tx[q], MAX_PKT_BURST - 1)
    /\ Fits(kni, RingCapacity)
    /\ Content \in [Holders -> Seq(Frames)]
  <1> SUFFICES ASSUME DispatchInv
               PROVE  /\ \A q \in Queues : Good(proc[q]) /\ Fits(dispatch[q], RingCapacity)
                                            /\ Fits(tx[q], MAX_PKT_BURST - 1)
                      /\ Fits(kni, RingCapacity)
                      /\ Content \in [Holders -> Seq(Frames)]
    OBVIOUS
  <1>1. ASSUME NEW q \in Queues
        PROVE  /\ Fits(dispatch[q], RingCapacity) /\ Fits(tx[q], MAX_PKT_BURST - 1)
               /\ Fits(proc[q].burst, MAX_PKT_BURST)
    <2>1. /\ dispatch[q] \in Atmost(RingCapacity) /\ tx[q] \in Atmost(MAX_PKT_BURST - 1)
          /\ proc[q].burst \in Atmost(MAX_PKT_BURST)
      BY DEF DispatchInv, TypeOK
    <2>2. IsInjective(dispatch[q]) /\ IsInjective(tx[q]) /\ IsInjective(proc[q].burst)
      BY ContentIs DEF DispatchInv, OnceInv
    <2> QED BY <2>1, <2>2, Sizes, AtmostIs DEF Fits
  <1>2. Fits(kni, RingCapacity)
    <2>1. kni \in Atmost(RingCapacity)
      BY DEF DispatchInv, TypeOK
    <2>2. IsInjective(kni)
      BY ContentIs DEF DispatchInv, OnceInv
    <2> QED BY <2>1, <2>2, Sizes, AtmostIs DEF Fits
  <1>3. ASSUME NEW q \in Queues  PROVE Good(proc[q])
    <2>1. proc[q] \in [pc : ProcPC, burst : Atmost(MAX_PKT_BURST), ring : BOOLEAN, to : Queues]
      BY DEF DispatchInv, TypeOK
    <2>2. proc[q] \in [pc : ProcPC, burst : Seq(Frames), ring : BOOLEAN, to : Queues]
      BY <1>1, <2>1 DEF Fits
    <2> QED BY <1>1, <2>2 DEF Good, DispatchInv, ControlInv, Pkt
  <1>4. Content \in [Holders -> Seq(Frames)]
    <2>1. ASSUME NEW h \in Holders  PROVE Content[h] \in Seq(Frames)
      BY ZenonT(60), <1>1, <1>2, HolderIs, ContentIs DEF Fits
    <2> QED BY <2>1, ContentIs
  <1> QED BY <1>1, <1>2, <1>3, <1>4

LEMMA StateFitsBack ==
  (/\ pool \in 0..NbMbufs
   /\ dispatch = [q \in Queues |-> dispatch[q]] /\ proc = [q \in Queues |-> proc[q]]
   /\ tx = [q \in Queues |-> tx[q]]
   /\ \A q \in Queues : Good(proc[q]) /\ Fits(dispatch[q], RingCapacity)
                         /\ Fits(tx[q], MAX_PKT_BURST - 1)
   /\ Fits(kni, RingCapacity)
   /\ knictl \in [Queues -> KniActions \cup {"DEFAULT"}] /\ FlagOK
   /\ seen \in [Frames -> [Sinks -> Nat]] /\ gone \subseteq Frames)
  => TypeOK /\ ControlInv /\ OnceInv
  <1> SUFFICES
        ASSUME pool \in 0..NbMbufs,
               dispatch = [q \in Queues |-> dispatch[q]], proc = [q \in Queues |-> proc[q]],
               tx = [q \in Queues |-> tx[q]],
               \A q \in Queues : Good(proc[q]) /\ Fits(dispatch[q], RingCapacity)
                                 /\ Fits(tx[q], MAX_PKT_BURST - 1),
               Fits(kni, RingCapacity),
               knictl \in [Queues -> KniActions \cup {"DEFAULT"}], FlagOK,
               seen \in [Frames -> [Sinks -> Nat]], gone \subseteq Frames
        PROVE  TypeOK /\ ControlInv /\ OnceInv
    OBVIOUS
  <1>1. ASSUME NEW q \in Queues
        PROVE  /\ dispatch[q] \in Atmost(RingCapacity) /\ tx[q] \in Atmost(MAX_PKT_BURST - 1)
               /\ proc[q] \in [pc : ProcPC, burst : Atmost(MAX_PKT_BURST),
                               ring : BOOLEAN, to : Queues]
    <2>1. /\ Fits(dispatch[q], RingCapacity) /\ Fits(tx[q], MAX_PKT_BURST - 1)
          /\ Fits(proc[q].burst, MAX_PKT_BURST)
          /\ proc[q] \in [pc : ProcPC, burst : Seq(Frames), ring : BOOLEAN, to : Queues]
      BY DEF Good
    <2>2. /\ dispatch[q] \in Atmost(RingCapacity) /\ tx[q] \in Atmost(MAX_PKT_BURST - 1)
          /\ proc[q].burst \in Atmost(MAX_PKT_BURST)
      BY <2>1, Sizes, AtmostIs DEF Fits
    <2> QED BY <2>1, <2>2
  <1>2. kni \in Atmost(RingCapacity)
    BY Sizes, AtmostIs DEF Fits
  <1>3. TypeOK
    BY <1>1, <1>2 DEF TypeOK, FlagOK
  <1>4. ControlInv
    BY DEF ControlInv, Good, Pkt
  <1>5. OnceInv
    <2>1. ASSUME NEW h \in Holders  PROVE IsInjective(Content[h])
      <3>1. \A q \in Queues : /\ IsInjective(dispatch[q]) /\ IsInjective(tx[q])
                              /\ IsInjective(proc[q].burst)
        BY DEF Good, Fits
      <3>2. IsInjective(kni)
        BY DEF Fits
      <3>3. CASE h = <<"kni", Primary>>
        BY <3>2, <3>3, ContentIs
      <3>4. ASSUME NEW q \in Queues, h \in {<<"dispatch", q>>, <<"burst", q>>, <<"tx", q>>}
            PROVE  IsInjective(Content[h])
        <4>1. Content[h] \in {dispatch[q], proc[q].burst, tx[q]}
          BY <3>4, ContentIs
        <4> QED BY <3>1, <4>1
      <3> QED BY <3>3, <3>4, HolderIs
    <2> QED BY <2>1 DEF OnceInv
  <1> QED BY <1>3, <1>4, <1>5

LEMMA StateFitsNext ==
  (/\ pool \in 0..NbMbufs
   /\ dispatch = [q \in Queues |-> dispatch[q]] /\ proc = [q \in Queues |-> proc[q]]
   /\ tx = [q \in Queues |-> tx[q]]
   /\ \A q \in Queues : Good(proc[q]) /\ Fits(dispatch[q], RingCapacity)
                         /\ Fits(tx[q], MAX_PKT_BURST - 1)
   /\ Fits(kni, RingCapacity)
   /\ knictl \in [Queues -> KniActions \cup {"DEFAULT"}] /\ FlagOK
   /\ seen \in [Frames -> [Sinks -> Nat]] /\ gone \subseteq Frames)'
  => (TypeOK /\ ControlInv /\ OnceInv)'
  BY StateFitsBack, PTL
-----------------------------------------------------------------------------
(***************************************************************************)
(* What the actions have in common: process q changes its own part, its    *)
(* table, the ring of one queue and the kni ring.                          *)
(***************************************************************************)
Touches(q, j) ==
  /\ proc' = [proc EXCEPT ![q] = proc'[q]] /\ Good(proc'[q])
  /\ dispatch' = [dispatch EXCEPT ![j] = dispatch'[j]] /\ Fits(dispatch'[j], RingCapacity)
  /\ tx' = [tx EXCEPT ![q] = tx'[q]] /\ Fits(tx'[q], MAX_PKT_BURST - 1)
  /\ Fits(kni', RingCapacity)
  /\ knictl' \in [Queues -> KniActions \cup {"DEFAULT"}]
  /\ seen' \in [Frames -> [Sinks -> Nat]] /\ gone' \subseteq Frames
  /\ FlagOK' /\ pool' \in Nat
  /\ pool' + Len(proc'[q].burst) + Len(dispatch'[j]) + Len(tx'[q]) + Len(kni') + Kept'
       = pool + Len(proc[q].burst) + Len(dispatch[j]) + Len(tx[q]) + Len(kni) + Kept

LEMMA KeptIs ==
  FlagOK => Kept \in Nat
  <1> SUFFICES ASSUME FlagOK  PROVE Kept \in Nat
    OBVIOUS
  <1>1. PICK q \in Queues : TRUE
    BY Sizes
  <1>2. flag \in [Queues -> Nat]
    BY DispatchAssumption DEF FlagOK
  <1> QED BY <1>2, HeldResize DEF Kept

LEMMA KeptIsNext ==
  (FlagOK => Kept \in Nat)'
  BY KeptIs, PTL

\* In a step that leaves flag alone.
LEMMA KeptSame ==
  ASSUME DispatchInv, flag' = flag
  PROVE  FlagOK' /\ Kept' = Kept
  BY DEF DispatchInv, TypeOK, FlagOK, Kept

LEMMA TouchesContent ==
  ASSUME DispatchInv, NEW q \in Queues, NEW j \in Queues, Touches(q, j)
  PROVE  /\ \A r \in Queues : r # q => proc'[r] = proc[r] /\ tx'[r] = tx[r]
         /\ \A r \in Queues : r # j => dispatch'[r] = dispatch[r]
         /\ \A h \in Holders :
              h \notin {<<"burst", q>>, <<"dispatch", j>>, <<"tx", q>>, <<"kni", Primary>>}
              => Content'[h] = Content[h]
  <1>1. \A r \in Queues : r # q => proc'[r] = proc[r] /\ tx'[r] = tx[r]
    BY DEF Touches, DispatchInv, TypeOK
  <1>2. \A r \in Queues : r # j => dispatch'[r] = dispatch[r]
    BY DEF Touches, DispatchInv, TypeOK
  <1>3. ASSUME NEW h \in Holders,
               h \notin {<<"burst", q>>, <<"dispatch", j>>, <<"tx", q>>, <<"kni", Primary>>}
        PROVE  Content'[h] = Content[h]
    <2>1. PICK r \in Queues : h \in {<<"dispatch", r>>, <<"burst", r>>, <<"tx", r>>}
      BY <1>3, HolderIs
    <2>2. /\ Content[<<"dispatch", r>>] = dispatch[r] /\ Content'[<<"dispatch", r>>] = dispatch'[r]
          /\ Content[<<"burst", r>>] = proc[r].burst /\ Content'[<<"burst", r>>] = proc'[r].burst
          /\ Content[<<"tx", r>>] = tx[r] /\ Content'[<<"tx", r>>] = tx'[r]
      BY ContentIs, ContentIsNext
    <2>3. CASE h = <<"dispatch", r>>
      BY <1>2, <1>3, <2>2, <2>3
    <2>4. CASE h = <<"burst", r>>
      BY <1>1, <1>3, <2>2, <2>4
    <2>5. CASE h = <<"tx", r>>
      BY <1>1, <1>3, <2>2, <2>5
    <2> QED BY <2>1, <2>3, <2>4, <2>5
  <1> QED BY <1>1, <1>2, <1>3

LEMMA TouchesKeeps ==
  ASSUME DispatchInv, Conserved, NEW q \in Queues, NEW j \in Queues, Touches(q, j)
  PROVE  TypeOK' /\ ControlInv' /\ OnceInv' /\ Conserved'
  <1> DEFINE hb == <<"burst", q>>
             hd == <<"dispatch", j>>
             ht == <<"tx", q>>
             hk == <<"kni", Primary>>
             C1 == [Content EXCEPT ![hb] = proc'[q].burst]
             C2 == [C1 EXCEPT ![hd] = dispatch'[j]]
             C3 == [C2 EXCEPT ![ht] = tx'[q]]
             C4 == [C3 EXCEPT ![hk] = kni']
  <1>1. /\ proc'[q].burst \in Seq(Frames) /\ dispatch'[j] \in Seq(Frames)
        /\ tx'[q] \in Seq(Frames) /\ kni' \in Seq(Frames)
        /\ Content \in [Holders -> Seq(Frames)]
    BY StateFits DEF Touches, Good, Fits
  <1>2. hb \in Holders /\ hd \in Holders /\ ht \in Holders /\ hk \in Holders
    BY ContentIs
  <1>3. hb # hd /\ hb # ht /\ hb # hk /\ hd # ht /\ hd # hk /\ ht # hk
    OBVIOUS
  <1>4. /\ Content[hb] = proc[q].burst /\ Content[hd] = dispatch[j]
        /\ Content[ht] = tx[q] /\ Content[hk] = kni
    BY ContentIs
  <1>5. /\ Content'[hb] = proc'[q].burst /\ Content'[hd] = dispatch'[j]
        /\ Content'[ht] = tx'[q] /\ Content'[hk] = kni'
        /\ Content' = [h \in Holders |-> Content'[h]]
    BY ContentIsNext
  <1>6. \A h \in Holders : h \notin {hb, hd, ht, hk} => Content'[h] = Content[h]
    BY TouchesContent
  <1> HIDE DEF hb, hd, ht, hk
  <1>7. /\ C1 \in [Holders -> Seq(Frames)] /\ C2 \in [Holders -> Seq(Frames)]
        /\ C3 \in [Holders -> Seq(Frames)] /\ C4 \in [Holders -> Seq(Frames)]
    BY <1>1, <1>2
  <1>8. Content' = C4
    <2>1. \A h \in Holders : C4[h] = Content'[h]
      BY <1>1, <1>2, <1>3, <1>5, <1>6
    <2> HIDE DEF C4
    <2> QED BY <1>5, <1>7, <2>1
  <1>9. /\ \A h \in Holders \ {hb} : C1[h] = Content[h]
        /\ \A h \in Holders \ {hd} : C2[h] = C1[h]
        /\ \A h \in Holders \ {ht} : C3[h] = C2[h]
        /\ \A h \in Holders \ {hk} : C4[h] = C3[h]
        /\ C1[hb] = proc'[q].burst /\ C1[hd] = dispatch[j] /\ C2[hd] = dispatch'[j]
        /\ C2[ht] = tx[q] /\ C3[ht] = tx'[q] /\ C3[hk] = kni /\ C4[hk] = kni'
    BY <1>1, <1>2, <1>3, <1>4
  <1> HIDE DEF C1, C2, C3, C4
  <1>10. /\ Cardinality(Places(Content)) \in Nat /\ Cardinality(Places(C1)) \in Nat
         /\ Cardinality(Places(C1)) + Len(proc[q].burst)
              = Cardinality(Places(Content)) + Len(proc'[q].burst)
    BY ZenonT(60), <1>1, <1>2, <1>4, <1>7, <1>9, Resize
  <1>11. /\ Cardinality(Places(C2)) \in Nat
         /\ Cardinality(Places(C2)) + Len(dispatch[j]) = Cardinality(Places(C1)) + Len(dispatch'[j])
    BY ZenonT(60), <1>2, <1>7, <1>9, Resize
  <1>12. /\ Cardinality(Places(C3)) \in Nat
         /\ Cardinality(Places(C3)) + Len(tx[q]) = Cardinality(Places(C2)) + Len(tx'[q])
    <2>1. \A h \in Holders \ {ht} : C3[h] = C2[h]
      BY <1>9
    <2>2. /\ Cardinality(Places(C3)) \in Nat
          /\ Cardinality(Places(C3)) + Len(C2[ht]) = Cardinality(Places(C2)) + Len(C3[ht])
      BY <1>2, <1>7, <2>1, Resize
    <2> QED BY <2>2, <1>9
  <1>13. /\ Cardinality(Places(C4)) \in Nat
         /\ Cardinality(Places(C4)) + Len(kni) = Cardinality(Places(C3)) + Len(kni')
    BY <1>2, <1>7, <1>9, Resize
  <1>14. /\ Len(proc[q].burst) \in Nat /\ Len(dispatch[j]) \in Nat /\ Len(tx[q]) \in Nat
         /\ Len(kni) \in Nat
         /\ Len(proc'[q].burst) \in Nat /\ Len(dispatch'[j]) \in Nat /\ Len(tx'[q]) \in Nat
         /\ Len(kni') \in Nat
    BY <1>1, StateFits DEF Good, Fits
  <1>15. /\ pool' \in Nat /\ pool \in Nat /\ Kept \in Nat /\ Kept' \in Nat
         /\ pool' + Len(proc'[q].burst) + Len(dispatch'[j]) + Len(tx'[q]) + Len(kni') + Kept'
              = pool + Len(proc[q].burst) + Len(dispatch[j]) + Len(tx[q]) + Len(kni) + Kept
    BY KeptIs, KeptIsNext DEF Touches, DispatchInv, TypeOK, FlagOK
  <1>16. pool' + Kept' + Cardinality(Places(C4)) = pool + Kept + Cardinality(Places(Content))
    <2> DEFINE n == Cardinality(Places(Content))
               n1 == Cardinality(Places(C1))
               n2 == Cardinality(Places(C2))
               n3 == Cardinality(Places(C3))
               n4 == Cardinality(Places(C4))
               a == Len(proc[q].burst)
               b == Len(dispatch[j])
               c == Len(tx[q])
               d == Len(kni)
               a1 == Len(proc'[q].burst)
               b1 == Len(dispatch'[j])
               c1 == Len(tx'[q])
               d1 == Len(kni')
               m == pool
               m1 == pool'
               k == Kept
               k1 == Kept'
    <2>1. n \in Nat /\ n1 \in Nat /\ n2 \in Nat /\ n3 \in Nat /\ n4 \in Nat
      BY <1>10, <1>11, <1>12, <1>13
    <2>2. n1 + a = n + a1 /\ n2 + b = n1 + b1 /\ n3 + c = n2 + c1 /\ n4 + d = n3 + d1
      BY <1>10, <1>11, <1>12, <1>13
    <2>3. /\ a \in Nat /\ b \in Nat /\ c \in Nat /\ d \in Nat
          /\ a1 \in Nat /\ b1 \in Nat /\ c1 \in Nat /\ d1 \in Nat
      BY <1>14
    <2>4. /\ m1 \in Nat /\ m \in Nat /\ k \in Nat /\ k1 \in Nat
          /\ m1 + a1 + b1 + c1 + d1 + k1 = m + a + b + c + d + k
      BY <1>15
    <2> HIDE DEF n, n1, n2, n3, n4, a, b, c, d, a1, b1, c1, d1, m, m1, k, k1
    <2>5. n2 + a + b = n + a1 + b1
      BY <2>1, <2>2, <2>3
    <2>6. n4 + c + d = n2 + c1 + d1
      BY <2>1, <2>2, <2>3
    <2>7. n4 + a + b + c + d = n + a1 + b1 + c1 + d1
      BY <2>1, <2>3, <2>5, <2>6
    <2>8. m1 + k1 + n4 = m + k + n
      <3> DEFINE u == a + b + c + d
                 v == a1 + b1 + c1 + d1
      <3>1. u \in Nat /\ v \in Nat
        BY <2>3
      <3>2. n4 + u = n + v
        BY <2>1, <2>3, <2>7
      <3>3. m1 + k1 + v = m + k + u
        BY <2>3, <2>4
      <3> HIDE DEF u, v
      <3> QED BY <3>1, <3>2, <3>3, <2>1, <2>4
    <2> QED BY <2>8 DEF n, n4, m, m1, k, k1
  <1>17. Conserved'
    <2>1. pool + Kept + Cardinality(Places(Content)) = NbMbufs
      BY DEF Conserved, Kept
    <2>2. pool' + Kept' + Cardinality(Places(Content')) = NbMbufs
      BY <2>1, <1>8, <1>16
    <2> QED BY <2>2 DEF Conserved, Kept
  <1>18. pool' \in 0..NbMbufs
    <2>1. pool + Kept + Cardinality(Places(Content)) = NbMbufs
      BY DEF Conserved, Kept
    <2> QED BY <2>1, <1>13, <1>15, <1>16, Sizes
  <1>19. /\ dispatch' = [r \in Queues |-> dispatch'[r]] /\ proc' = [r \in Queues |-> proc'[r]]
         /\ tx' = [r \in Queues |-> tx'[r]]
    BY DEF Touches, DispatchInv, TypeOK
  <1>20. ASSUME NEW r \in Queues
         PROVE  Good(proc'[r]) /\ Fits(dispatch'[r], RingCapacity) /\ Fits(tx'[r], MAX_PKT_BURST - 1)
    <2>1. Good(proc[r]) /\ Fits(dispatch[r], RingCapacity) /\ Fits(tx[r], MAX_PKT_BURST - 1)
      BY StateFits
    <2>2. /\ r # q => proc'[r] = proc[r] /\ tx'[r] = tx[r]
          /\ r # j => dispatch'[r] = dispatch[r]
      BY TouchesContent
    <2>3. Good(proc'[q]) /\ Fits(dispatch'[j], RingCapacity) /\ Fits(tx'[q], MAX_PKT_BURST - 1)
      BY DEF Touches
    <2> QED BY <2>1, <2>2, <2>3
  <1>21. /\ Fits(kni', RingCapacity) /\ knictl' \in [Queues -> KniActions \cup {"DEFAULT"}]
         /\ seen' \in [Frames -> [Sinks -> Nat]] /\ gone' \subseteq Frames /\ FlagOK'
    BY DEF Touches
  <1> QED BY <1>17, <1>18, <1>19, <1>20, <1>21, StateFitsNext
-----------------------------------------------------------------------------
(***************************************************************************)
(* What may happen to one frame.                                           *)
(***************************************************************************)
\* Sink s is given frame f.
Got(f, s) == \A t \in Sinks : seen'[f][t] = IF t = s THEN seen[f][t] + 1 ELSE seen[f][t]

LEMMA HoldersHave ==
  /\ \A q \in Queues : {<<"dispatch", q>>, <<"burst", q>>, <<"tx", q>>} \subseteq Holders
  /\ <<"kni", Primary>> \in Holders
  BY DEF Holders

LEMMA SingleKept ==
  ASSUME NEW f \in Frames, Single(f), seen'[f] = seen[f],
         \A h \in Holders : Has(f, h)' => Has(f, h)
  PROVE  Single(f)'
  BY DEF Single

LEMMA SinglePlaced ==
  ASSUME NEW f \in Frames, NEW g \in Holders, seen'[f] = seen[f],
         \A s \in Sinks : seen[f][s] = 0,
         \A h \in Holders : Has(f, h)' => h = g
  PROVE  Single(f)'
  BY DEF Single

LEMMA SingleGiven ==
  ASSUME NEW f \in Frames, Single(f), NEW g \in Holders, Has(f, g),
         NEW s \in Sinks, Got(f, s), \A h \in Holders : ~Has(f, h)'
  PROVE  Single(f)'
  BY DEF Single, Got

\* Process q still has f to copy for no more queues than before.
Fewer(f, q) ==
  Original(f, q)' => /\ Original(f, q)
                     /\ \A j \in Queues \ {q} : ToCopy(f, q, j)' => ToCopy(f, q, j)

LEMMA SpreadKept ==
  ASSUME NEW f \in Frames, Spread(f), seen'[f] = seen[f],
         \A h \in Holders : Has(f, h)' => Has(f, h),
         \A q \in Queues : Fewer(f, q)
  PROVE  Spread(f)'
  BY HoldersHave, Sizes DEF Spread, Fewer, Fresh, In

LEMMA SpreadSent ==
  ASSUME NEW f \in Frames, Spread(f), NEW q \in Queues,
         In(f, "tx", q) \/ Original(f, q), Got(f, Wire),
         \A h \in Holders : Has(f, h)' => Has(f, h),
         ~In(f, "tx", q)', ~Original(f, q)',
         \A r \in Queues : Original(f, r)' => Original(f, r)
  PROVE  Spread(f)'
  <1>1. /\ (\A r \in Queues : In(f, "dispatch", r)' => In(f, "dispatch", r))
        /\ (\A r \in Queues : In(f, "burst", r)' => In(f, "burst", r))
        /\ (\A r \in Queues : In(f, "tx", r)' => In(f, "tx", r))
        /\ (In(f, "kni", Primary)' => In(f, "kni", Primary))
    BY HoldersHave, Sizes DEF In
  <1>2. Primary \in Queues /\ Kernel \in Sinks /\ Wire \in Sinks /\ Kernel # Wire
        /\ \A r \in Queues : r \in Sinks /\ r # Kernel /\ r # Wire
    BY Sizes
  <1>3. \A s \in Sinks : seen'[f][s] <= 1
    BY <1>1, <1>2 DEF Spread, Got
  <1>4. \A r \in Queues :
          /\ ~(In(f, "dispatch", r)' /\ In(f, "burst", r)')
          /\ In(f, "dispatch", r)' \/ In(f, "burst", r)' => seen'[f][r] = 0
          /\ In(f, "tx", r)' => seen'[f][Wire] = 0
    BY <1>1, <1>2 DEF Spread, Fresh, Got
  <1>5. /\ In(f, "kni", Primary)' => seen'[f][Kernel] = 0
        /\ In(f, "kni", Primary)' \/ seen'[f][Kernel] > 0 =>
             ~In(f, "dispatch", Primary)' /\ ~In(f, "burst", Primary)'
    BY <1>1, <1>2 DEF Spread, Fresh, Got
  <1>6. \A r, i \in Queues : In(f, "tx", r)' /\ In(f, "tx", i)' => r = i
    BY <1>1 DEF Spread
  <1>7. ASSUME NEW r \in Queues, Original(f, r)'
        PROVE  /\ seen'[f][Wire] = 0
               /\ \A i \in Queues : ~In(f, "tx", i)'
               /\ \A i \in Queues \ {r} : ~Original(f, i)' /\ (ToCopy(f, r, i)' => Fresh(f, i)')
    BY <1>1, <1>2, <1>7 DEF Spread, Fewer, Fresh, Got
  <1> QED BY <1>3, <1>4, <1>5, <1>6, <1>7 DEF Spread

LEMMA SpreadToKernel ==
  ASSUME NEW f \in Frames, Spread(f), In(f, "kni", Primary), Got(f, Kernel),
         \A h \in Holders : Has(f, h)' => Has(f, h), ~In(f, "kni", Primary)',
         \A q \in Queues : Fewer(f, q)
  PROVE  Spread(f)'
  <1>1. /\ (\A r \in Queues : In(f, "dispatch", r)' => In(f, "dispatch", r))
        /\ (\A r \in Queues : In(f, "burst", r)' => In(f, "burst", r))
        /\ (\A r \in Queues : In(f, "tx", r)' => In(f, "tx", r))
        /\ (In(f, "kni", Primary)' => In(f, "kni", Primary))
    BY HoldersHave, Sizes DEF In
  <1>2. Primary \in Queues /\ Kernel \in Sinks /\ Wire \in Sinks /\ Kernel # Wire
        /\ \A r \in Queues : r \in Sinks /\ r # Kernel /\ r # Wire
    BY Sizes
  <1>3. \A s \in Sinks : seen'[f][s] <= 1
    BY <1>1, <1>2 DEF Spread, Got
  <1>4. \A r \in Queues :
          /\ ~(In(f, "dispatch", r)' /\ In(f, "burst", r)')
          /\ In(f, "dispatch", r)' \/ In(f, "burst", r)' => seen'[f][r] = 0
          /\ In(f, "tx", r)' => seen'[f][Wire] = 0
    BY <1>1, <1>2 DEF Spread, Fresh, Got
  <1>5. /\ In(f, "kni", Primary)' => seen'[f][Kernel] = 0
        /\ In(f, "kni", Primary)' \/ seen'[f][Kernel] > 0 =>
             ~In(f, "dispatch", Primary)' /\ ~In(f, "burst", Primary)'
    BY <1>1, <1>2 DEF Spread, Fresh, Got
  <1>6. \A r, i \in Queues : In(f, "tx", r)' /\ In(f, "tx", i)' => r = i
    BY <1>1 DEF Spread
  <1>7. ASSUME NEW r \in Queues, Original(f, r)'
        PROVE  /\ seen'[f][Wire] = 0
               /\ \A i \in Queues : ~In(f, "tx", i)'
               /\ \A i \in Queues \ {r} : ~Original(f, i)' /\ (ToCopy(f, r, i)' => Fresh(f, i)')
    BY <1>1, <1>2, <1>7 DEF Spread, Fewer, Fresh, Got
  <1> QED BY <1>3, <1>4, <1>5, <1>6, <1>7 DEF Spread

LEMMA SpreadTaken ==
  ASSUME NEW f \in Frames, Spread(f), NEW q \in Queues, In(f, "dispatch", q),
         seen'[f] = seen[f], ~In(f, "dispatch", q)',
         \A h \in Holders : Has(f, h)' => Has(f, h) \/ h = <<"burst", q>>,
         \A r \in Queues : Fewer(f, r)
  PROVE  Spread(f)'
  BY HoldersHave, Sizes DEF Spread, Fewer, Fresh, In

LEMMA SpreadNew ==
  ASSUME NEW f \in Frames, NEW q \in Queues, seen'[f] = seen[f],
         \A s \in Sinks : seen[f][s] = 0,
         \A h \in Holders : Has(f, h)' => h = <<"burst", q>>
  PROVE  Spread(f)'
  <1>1. /\ (\A r \in Queues : ~In(f, "dispatch", r)' /\ ~In(f, "tx", r)')
        /\ (\A r \in Queues : In(f, "burst", r)' => r = q)
        /\ ~In(f, "kni", Primary)'
    BY HoldersHave, Sizes DEF In
  <1>2. Primary \in Queues /\ Kernel \in Sinks /\ Wire \in Sinks /\ Kernel # Wire
        /\ \A r \in Queues : r \in Sinks /\ r # Kernel /\ r # Wire
    BY Sizes
  <1>3. \A s \in Sinks : seen'[f][s] <= 1
    BY <1>1, <1>2 DEF Spread, Original
  <1>4. \A r \in Queues :
          /\ ~(In(f, "dispatch", r)' /\ In(f, "burst", r)')
          /\ In(f, "dispatch", r)' \/ In(f, "burst", r)' => seen'[f][r] = 0
          /\ In(f, "tx", r)' => seen'[f][Wire] = 0
    BY <1>1, <1>2 DEF Spread, Fresh
  <1>5. /\ In(f, "kni", Primary)' => seen'[f][Kernel] = 0
        /\ In(f, "kni", Primary)' \/ seen'[f][Kernel] > 0 =>
             ~In(f, "dispatch", Primary)' /\ ~In(f, "burst", Primary)'
    BY <1>1, <1>2 DEF Spread, Fresh
  <1>6. \A r, i \in Queues : In(f, "tx", r)' /\ In(f, "tx", i)' => r = i
    BY <1>1 DEF Spread
  <1>7. ASSUME NEW r \in Queues, Original(f, r)'
        PROVE  /\ seen'[f][Wire] = 0
               /\ \A i \in Queues : ~In(f, "tx", i)'
               /\ \A i \in Queues \ {r} : ~Original(f, i)' /\ (ToCopy(f, r, i)' => Fresh(f, i)')
    BY <1>1, <1>2, <1>7 DEF Spread, Fewer, Fresh, Original
  <1> QED BY <1>3, <1>4, <1>5, <1>6, <1>7 DEF Spread

LEMMA SpreadToTx ==
  ASSUME NEW f \in Frames, Spread(f), NEW q \in Queues, Original(f, q),
         seen'[f] = seen[f],
         \A h \in Holders : Has(f, h)' => Has(f, h) \/ h = <<"tx", q>>,
         \A r \in Queues : ~Original(f, r)'
  PROVE  Spread(f)'
  BY HoldersHave, Sizes DEF Spread, Fresh, In

LEMMA SpreadCopied ==
  ASSUME NEW f \in Frames, Spread(f), NEW q \in Queues, NEW j \in Queues \ {q},
         Original(f, q), ToCopy(f, q, j), seen'[f] = seen[f],
         \A h \in Holders : Has(f, h)' => Has(f, h) \/ h = <<"dispatch", j>>,
         \A r \in Queues : Fewer(f, r), Original(f, q)' => ~ToCopy(f, q, j)'
  PROVE  Spread(f)'
  <1>1. /\ (\A r \in Queues : In(f, "dispatch", r)' => In(f, "dispatch", r) \/ r = j)
        /\ (\A r \in Queues : In(f, "burst", r)' => In(f, "burst", r))
        /\ (\A r \in Queues : In(f, "tx", r)' => In(f, "tx", r))
        /\ (In(f, "kni", Primary)' => In(f, "kni", Primary))
    BY HoldersHave, Sizes DEF In
  <1>2. Primary \in Queues /\ Kernel \in Sinks /\ Wire \in Sinks /\ Kernel # Wire
        /\ \A r \in Queues : r \in Sinks /\ r # Kernel /\ r # Wire
    BY Sizes
  <1>3. \A s \in Sinks : seen'[f][s] <= 1
    BY <1>1, <1>2 DEF Spread
  <1>4. \A r \in Queues :
          /\ ~(In(f, "dispatch", r)' /\ In(f, "burst", r)')
          /\ In(f, "dispatch", r)' \/ In(f, "burst", r)' => seen'[f][r] = 0
          /\ In(f, "tx", r)' => seen'[f][Wire] = 0
    BY <1>1, <1>2 DEF Spread, Fresh
  <1>5. /\ In(f, "kni", Primary)' => seen'[f][Kernel] = 0
        /\ In(f, "kni", Primary)' \/ seen'[f][Kernel] > 0 =>
             ~In(f, "dispatch", Primary)' /\ ~In(f, "burst", Primary)'
    BY <1>1, <1>2 DEF Spread, Fresh
  <1>6. \A r, i \in Queues : In(f, "tx", r)' /\ In(f, "tx", i)' => r = i
    BY <1>1 DEF Spread
  <1>7. ASSUME NEW r \in Queues, Original(f, r)'
        PROVE  /\ seen'[f][Wire] = 0
               /\ \A i \in Queues : ~In(f, "tx", i)'
               /\ \A i \in Queues \ {r} : ~Original(f, i)' /\ (ToCopy(f, r, i)' => Fresh(f, i)')
    BY <1>1, <1>2, <1>7 DEF Spread, Fewer, Fresh
  <1> QED BY <1>3, <1>4, <1>5, <1>6, <1>7 DEF Spread

LEMMA SpreadInput ==
  ASSUME NEW f \in Frames, Spread(f), NEW q \in Queues, In(f, "burst", q),
         seen \in [Frames -> [Sinks -> Nat]], seen'[f] = seen[f] \/ Got(f, q), ~In(f, "burst", q)',
         \A h \in Holders : Has(f, h)' =>
            Has(f, h) \/ (h = <<"kni", Primary>> /\ q = Primary),
         \A r \in Queues : Fewer(f, r)
  PROVE  Spread(f)'
  <1>1. /\ (\A r \in Queues : In(f, "dispatch", r)' => In(f, "dispatch", r))
        /\ (\A r \in Queues : In(f, "burst", r)' => In(f, "burst", r))
        /\ (\A r \in Queues : In(f, "tx", r)' => In(f, "tx", r))
        /\ (In(f, "kni", Primary)' => In(f, "kni", Primary) \/ q = Primary)
    BY HoldersHave, Sizes DEF In
  <1>2. Primary \in Queues /\ Kernel \in Sinks /\ Wire \in Sinks /\ Kernel # Wire
        /\ \A r \in Queues : r \in Sinks /\ r # Kernel /\ r # Wire
    BY Sizes
  <1>3. \A s \in Sinks : seen'[f][s] <= 1
    BY <1>1, <1>2 DEF Spread, Got
  <1>4. \A r \in Queues :
          /\ ~(In(f, "dispatch", r)' /\ In(f, "burst", r)')
          /\ In(f, "dispatch", r)' \/ In(f, "burst", r)' => seen'[f][r] = 0
          /\ In(f, "tx", r)' => seen'[f][Wire] = 0
    BY <1>1, <1>2 DEF Spread, Fresh, Got
  <1>5. /\ In(f, "kni", Primary)' => seen'[f][Kernel] = 0
        /\ In(f, "kni", Primary)' \/ seen'[f][Kernel] > 0 =>
             ~In(f, "dispatch", Primary)' /\ ~In(f, "burst", Primary)'
    BY <1>1, <1>2 DEF Spread, Fresh, Got
  <1>6. \A r, i \in Queues : In(f, "tx", r)' /\ In(f, "tx", i)' => r = i
    BY <1>1 DEF Spread
  <1>7. ASSUME NEW r \in Queues, Original(f, r)'
        PROVE  /\ seen'[f][Wire] = 0
               /\ \A i \in Queues : ~In(f, "tx", i)'
               /\ \A i \in Queues \ {r} : ~Original(f, i)' /\ (ToCopy(f, r, i)' => Fresh(f, i)')
    BY <1>1, <1>2, <1>7 DEF Spread, Fewer, Fresh, Got
  <1> QED BY <1>3, <1>4, <1>5, <1>6, <1>7 DEF Spread
-----------------------------------------------------------------------------
(***************************************************************************)
(* The frames of a step of process q that touches the ring of queue j.     *)
(***************************************************************************)
FrameOK(f) == IF FilterOf[f] = "FILTER_ARP" THEN Spread(f) ELSE Single(f)

LEMMA InIs ==
  \A f, q : q \in Queues =>
    /\ In(f, "dispatch", q) <=> f \in ToSet(dispatch[q])
    /\ In(f, "burst", q) <=> f \in ToSet(proc[q].burst)
    /\ In(f, "tx", q) <=> f \in ToSet(tx[q])
    /\ In(f, "kni", Primary) <=> f \in ToSet(kni)
  BY ContentIs DEF In, Has

LEMMA InIsNext ==
  (\A f, q : q \in Queues =>
     /\ In(f, "dispatch", q) <=> f \in ToSet(dispatch[q])
     /\ In(f, "burst", q) <=> f \in ToSet(proc[q].burst)
     /\ In(f, "tx", q) <=> f \in ToSet(tx[q])
     /\ In(f, "kni", Primary) <=> f \in ToSet(kni))'
  BY InIs, PTL

LEMMA TouchesFrame ==
  ASSUME DispatchInv, NEW q \in Queues, NEW j \in Queues, Touches(q, j), NEW f
  PROVE  /\ In(f, "burst", q) <=> f \in ToSet(proc[q].burst)
         /\ In(f, "dispatch", j) <=> f \in ToSet(dispatch[j])
         /\ In(f, "tx", q) <=> f \in ToSet(tx[q])
         /\ In(f, "kni", Primary) <=> f \in ToSet(kni)
         /\ In(f, "burst", q)' <=> f \in ToSet(proc'[q].burst)
         /\ In(f, "dispatch", j)' <=> f \in ToSet(dispatch'[j])
         /\ In(f, "tx", q)' <=> f \in ToSet(tx'[q])
         /\ In(f, "kni", Primary)' <=> f \in ToSet(kni')
         /\ \A h \in Holders : Has(f, h)' =>
              \/ h \notin {<<"burst", q>>, <<"dispatch", j>>, <<"tx", q>>, <<"kni", Primary>>}
                 /\ Has(f, h)
              \/ h = <<"burst", q>> /\ In(f, "burst", q)'
              \/ h = <<"dispatch", j>> /\ In(f, "dispatch", j)'
              \/ h = <<"tx", q>> /\ In(f, "tx", q)'
              \/ h = <<"kni", Primary>> /\ In(f, "kni", Primary)'
         /\ \A r \in Queues \ {q} : Fewer(f, r)
  <1>1. /\ In(f, "burst", q) <=> f \in ToSet(proc[q].burst)
        /\ In(f, "dispatch", j) <=> f \in ToSet(dispatch[j])
        /\ In(f, "tx", q) <=> f \in ToSet(tx[q])
        /\ In(f, "kni", Primary) <=> f \in ToSet(kni)
    BY InIs
  <1>2. /\ In(f, "burst", q)' <=> f \in ToSet(proc'[q].burst)
        /\ In(f, "dispatch", j)' <=> f \in ToSet(dispatch'[j])
        /\ In(f, "tx", q)' <=> f \in ToSet(tx'[q])
        /\ In(f, "kni", Primary)' <=> f \in ToSet(kni')
    BY InIsNext
  <1>3. ASSUME NEW h \in Holders, Has(f, h)'
        PROVE  \/ h \notin {<<"burst", q>>, <<"dispatch", j>>, <<"tx", q>>, <<"kni", Primary>>}
                  /\ Has(f, h)
               \/ h = <<"burst", q>> /\ In(f, "burst", q)'
               \/ h = <<"dispatch", j>> /\ In(f, "dispatch", j)'
               \/ h = <<"tx", q>> /\ In(f, "tx", q)'
               \/ h = <<"kni", Primary>> /\ In(f, "kni", Primary)'
    <2>1. CASE h \in {<<"burst", q>>, <<"dispatch", j>>, <<"tx", q>>, <<"kni", Primary>>}
      BY <1>3, <2>1 DEF In
    <2>2. CASE h \notin {<<"burst", q>>, <<"dispatch", j>>, <<"tx", q>>, <<"kni", Primary>>}
      <3>1. Content'[h] = Content[h]
        BY <2>2, TouchesContent
      <3> QED BY <1>3, <2>2, <3>1 DEF Has
    <2> QED BY <2>1, <2>2
  <1>4. ASSUME NEW r \in Queues \ {q}  PROVE Fewer(f, r)
    <2>1. proc'[r] = proc[r]
      BY TouchesContent
    <2>2. In(f, "burst", r)' <=> In(f, "burst", r)
      BY <2>1, InIs, InIsNext
    <2>3. Original(f, r)' <=> Original(f, r)
      BY <2>1, <2>2 DEF Original
    <2>4. \A i \in Queues : ToCopy(f, r, i)' <=> ToCopy(f, r, i)
      BY <2>1 DEF ToCopy, Pkt
    <2> QED BY <2>3, <2>4 DEF Fewer
  <1> QED BY <1>1, <1>2, <1>3, <1>4

LEMMA FrameKept ==
  ASSUME DispatchInv, NEW q \in Queues, NEW j \in Queues, Touches(q, j), NEW f \in Frames,
         seen'[f] = seen[f], Fewer(f, q),
         f \in ToSet(proc'[q].burst) => f \in ToSet(proc[q].burst),
         f \in ToSet(dispatch'[j]) => f \in ToSet(dispatch[j]),
         f \in ToSet(tx'[q]) => f \in ToSet(tx[q]),
         f \in ToSet(kni') => f \in ToSet(kni)
  PROVE  FrameOK(f)'
  <1>1. \A h \in Holders : Has(f, h)' => Has(f, h)
    <2>1. /\ In(f, "burst", q)' => In(f, "burst", q)
          /\ In(f, "dispatch", j)' => In(f, "dispatch", j)
          /\ In(f, "tx", q)' => In(f, "tx", q)
          /\ In(f, "kni", Primary)' => In(f, "kni", Primary)
      BY TouchesFrame
    <2> QED BY <2>1, TouchesFrame DEF In
  <1>2. \A r \in Queues : Fewer(f, r)
    BY TouchesFrame
  <1>3. FrameOK(f)
    BY DEF FrameOK, DispatchInv, FrameInv
  <1>4. CASE FilterOf[f] = "FILTER_ARP"
    <2>1. Spread(f)'
      BY <1>1, <1>2, <1>3, <1>4, SpreadKept DEF FrameOK
    <2> QED BY <1>4, <2>1 DEF FrameOK
  <1>5. CASE FilterOf[f] # "FILTER_ARP"
    <2>1. Single(f)'
      BY <1>1, <1>3, <1>5, SingleKept DEF FrameOK
    <2> QED BY <1>5, <2>1 DEF FrameOK
  <1> QED BY <1>4, <1>5

LEMMA TouchesInv ==
  ASSUME DispatchInv, Conserved, NEW q \in Queues, NEW j \in Queues, Touches(q, j),
         \A f \in Frames : FrameOK(f)'
  PROVE  DispatchInv' /\ Conserved'
  BY TouchesKeeps DEF DispatchInv, FrameInv, FrameOK

\* Nothing is left to copy in a process that is not at a packet.
LEMMA FewerIdle ==
  ASSUME NEW f, NEW q \in Queues, proc'[q].burst = proc[q].burst, proc'[q].ring = proc[q].ring,
         proc[q].pc \notin {"copy", "input"}
  PROVE  Fewer(f, q)
  <1>1. Original(f, q)' <=> Original(f, q)
    BY InIs, InIsNext DEF Original
  <1>2. \A j \in Queues : ToCopy(f, q, j)
    BY DEF ToCopy
  <1> QED BY <1>1, <1>2 DEF Fewer

LEMMA NextPacketIs ==
  ASSUME DispatchInv, NEW q \in Queues, proc[q].pc \in {"packet", "input"}, NextPacket(q)
  PROVE  /\ Pkt(q) \in Frames /\ Pkt(q) \in ToSet(proc[q].burst)
         /\ proc' = [proc EXCEPT ![q] = proc'[q]] /\ Good(proc'[q])
         /\ Len(proc[q].burst) \in Nat /\ Len(proc[q].burst) > 0
         /\ Len(proc'[q].burst) = Len(proc[q].burst) - 1
         /\ ToSet(proc'[q].burst) = ToSet(proc[q].burst) \ {Pkt(q)}
         /\ \A f : Fewer(f, q) /\ (f = Pkt(q) => ~Original(f, q)')
  <1> DEFINE s == proc[q].burst
             u == Tail(proc[q].burst)
             P == proc'[q]
  <1>1. Good(proc[q])
    BY StateFits
  <1>2. s \in Seq(Frames) /\ IsInjective(s) /\ s # <<>> /\ Len(s) <= MAX_PKT_BURST
    BY <1>1 DEF Good, Fits
  <1>3. /\ u \in Seq(Frames) /\ Len(u) = Len(s) - 1 /\ Head(s) \in Frames
        /\ Head(s) \in ToSet(s) /\ ToSet(u) = ToSet(s) \ {Head(s)} /\ IsInjective(u)
    BY <1>2, SeqTail
  <1>4. Len(s) \in Nat /\ Len(s) > 0
    BY <1>2
  <1>5. /\ proc' = [proc EXCEPT ![q] = P]
        /\ P = [proc[q] EXCEPT !.burst = u, !.ring = proc[q].ring /\ u # <<>>,
                              !.pc = IF u # <<>> THEN "packet"
                                     ELSE IF proc[q].ring THEN "rx" ELSE "loop"]
    BY DEF NextPacket, DispatchInv, TypeOK
  <1>6. proc[q] \in [pc : ProcPC, burst : Seq(Frames), ring : BOOLEAN, to : Queues]
    BY <1>1 DEF Good
  <1>7. /\ P.burst = u /\ P.to = proc[q].to /\ P.ring = (proc[q].ring /\ u # <<>>)
        /\ P.pc = IF u # <<>> THEN "packet" ELSE IF proc[q].ring THEN "rx" ELSE "loop"
        /\ P \in [pc : ProcPC, burst : Seq(Frames), ring : BOOLEAN, to : Queues]
    BY <1>3, <1>5, <1>6 DEF ProcPC
  <1> HIDE DEF P, u
  <1>8. Fits(P.burst, MAX_PKT_BURST)
    BY <1>2, <1>3, <1>4, <1>7, Sizes DEF Fits
  <1>9. Good(P)
    BY <1>1, <1>7, <1>8 DEF Good
  <1>10. ASSUME NEW f  PROVE Fewer(f, q) /\ (f = Pkt(q) => ~Original(f, q)')
    <2>1. Original(f, q)' => f \in ToSet(u) /\ ~P.ring
      BY <1>7, InIsNext DEF Original, P
    <2>2. f \in ToSet(u) => u # <<>> /\ f \in ToSet(s) /\ f # Pkt(q)
      BY <1>3, EmptyFacts DEF Pkt
    <2>3. Original(f, q)' => Original(f, q) /\ f # Pkt(q)
      BY <2>1, <2>2, <1>7, InIs DEF Original
    <2>4. f # Pkt(q) => \A j \in Queues : ToCopy(f, q, j)
      BY DEF ToCopy
    <2> QED BY <2>3, <2>4 DEF Fewer
  <1>11. ToSet(P.burst) = ToSet(proc[q].burst) \ {Pkt(q)} /\ Len(P.burst) = Len(proc[q].burst) - 1
    BY <1>3, <1>7 DEF Pkt
  <1> QED BY <1>3, <1>4, <1>5, <1>9, <1>10, <1>11 DEF Pkt, P
-----------------------------------------------------------------------------
(***************************************************************************)
(* What the actions are made of.                                           *)
(***************************************************************************)
LEMMA Types ==
  ASSUME DispatchInv, NEW q \in Queues
  PROVE  /\ pool \in Nat /\ knictl \in [Queues -> KniActions \cup {"DEFAULT"}]
         /\ seen \in [Frames -> [Sinks -> Nat]] /\ gone \subseteq Frames
         /\ dispatch = [dispatch EXCEPT ![q] = dispatch[q]] /\ tx = [tx EXCEPT ![q] = tx[q]]
         /\ proc = [proc EXCEPT ![q] = proc[q]]
         /\ Good(proc[q]) /\ Fits(dispatch[q], RingCapacity) /\ Fits(tx[q], MAX_PKT_BURST - 1)
         /\ Fits(kni, RingCapacity)
         /\ Len(proc[q].burst) \in Nat /\ Len(dispatch[q]) \in Nat /\ Len(tx[q]) \in Nat
         /\ Len(kni) \in Nat
  <1>1. /\ pool \in Nat /\ knictl \in [Queues -> KniActions \cup {"DEFAULT"}]
        /\ seen \in [Frames -> [Sinks -> Nat]] /\ gone \subseteq Frames
        /\ dispatch = [dispatch EXCEPT ![q] = dispatch[q]] /\ tx = [tx EXCEPT ![q] = tx[q]]
        /\ proc = [proc EXCEPT ![q] = proc[q]]
    BY DEF DispatchInv, TypeOK
  <1>2. /\ Good(proc[q]) /\ Fits(dispatch[q], RingCapacity) /\ Fits(tx[q], MAX_PKT_BURST - 1)
        /\ Fits(kni, RingCapacity)
    BY StateFits
  <1>3. /\ proc[q].burst \in Seq(Frames) /\ dispatch[q] \in Seq(Frames) /\ tx[q] \in Seq(Frames)
        /\ kni \in Seq(Frames)
    BY <1>2 DEF Good, Fits
  <1> QED BY <1>1, <1>2, <1>3

LEMMA GotoIs ==
  ASSUME DispatchInv, NEW q \in Queues, NEW pc \in ProcPC, Goto(q, pc)
  PROVE  /\ proc' = [proc EXCEPT ![q] = proc'[q]]
         /\ proc'[q] \in [pc : ProcPC, burst : Seq(Frames), ring : BOOLEAN, to : Queues]
         /\ proc'[q].burst = proc[q].burst /\ proc'[q].ring = proc[q].ring
         /\ proc'[q].to = proc[q].to /\ proc'[q].pc = pc
         /\ {proc[q].pc, pc} \cap {"packet", "copy", "input", "send"} = {} => Good(proc'[q])
  <1>1. Good(proc[q])
    BY StateFits
  <1>2. proc' = [proc EXCEPT ![q] = proc'[q]] /\ proc'[q] = [proc[q] EXCEPT !.pc = pc]
    BY DEF Goto, DispatchInv, TypeOK
  <1>3. /\ proc'[q] \in [pc : ProcPC, burst : Seq(Frames), ring : BOOLEAN, to : Queues]
        /\ proc'[q].burst = proc[q].burst /\ proc'[q].ring = proc[q].ring
        /\ proc'[q].to = proc[q].to /\ proc'[q].pc = pc
    BY <1>1, <1>2 DEF Good
  <1>4. {proc[q].pc, pc} \cap {"packet", "copy", "input", "send"} = {} => Good(proc'[q])
    BY <1>1, <1>3 DEF Good
  <1> QED BY <1>2, <1>3, <1>4

LEMMA GivenIs ==
  ASSUME DispatchInv, NEW to \in Sinks, NEW s \in Seq(Frames), IsInjective(s),
         seen' = Given(to, s)
  PROVE  /\ seen' \in [Frames -> [Sinks -> Nat]]
         /\ \A f \in Frames : IF f \in ToSet(s) THEN Got(f, to) ELSE seen'[f] = seen[f]
  <1>1. seen \in [Frames -> [Sinks -> Nat]]
    BY DEF DispatchInv, TypeOK
  <1>2. \A f \in Frames : Occurs(f, s) = IF f \in ToSet(s) THEN 1 ELSE 0
    BY OccursOnce
  <1>3. /\ DOMAIN seen' = Frames /\ seen' = [f \in Frames |-> seen'[f]]
        /\ \A f \in Frames : seen'[f] = [seen[f] EXCEPT ![to] = seen[f][to] + Occurs(f, s)]
    BY DEF Given
  <1>4. ASSUME NEW f \in Frames
        PROVE  /\ seen'[f] \in [Sinks -> Nat]
               /\ IF f \in ToSet(s) THEN Got(f, to) ELSE seen'[f] = seen[f]
    <2>1. seen[f] \in [Sinks -> Nat] /\ seen[f][to] \in Nat
      BY <1>1
    <2>2. CASE f \in ToSet(s)
      <3>1. seen'[f] = [seen[f] EXCEPT ![to] = seen[f][to] + 1]
        BY <1>2, <1>3, <2>2
      <3> QED BY <2>1, <2>2, <3>1 DEF Got
    <2>3. CASE f \notin ToSet(s)
      <3>1. seen'[f] = [seen[f] EXCEPT ![to] = seen[f][to] + 0]
        BY <1>2, <1>3, <2>3
      <3>2. seen'[f] = seen[f]
        BY <2>1, <3>1
      <3> QED BY <2>1, <2>3, <3>2
    <2> QED BY <2>2, <2>3
  <1> QED BY <1>3, <1>4

LEMMA SendBurstIs ==
  ASSUME DispatchInv, NEW s \in Seq(Frames), IsInjective(s), send_burst(s)
  PROVE  /\ seen' \in [Frames -> [Sinks -> Nat]] /\ gone' \subseteq Frames
         /\ pool' = pool + Len(s)
         /\ \A f \in Frames : seen'[f] = seen[f] \/ (f \in ToSet(s) /\ Got(f, Wire))
  <1>1. PICK k \in 0..Len(s) : /\ seen' = Given(Wire, SubSeq(s, 1, k))
                               /\ gone' = Dropped(Drop(s, k)) /\ pool' = pool + Len(s)
    BY DEF send_burst
  <1>2. /\ SubSeq(s, 1, k) \in Seq(Frames) /\ IsInjective(SubSeq(s, 1, k))
        /\ Drop(s, k) \in Seq(Frames) /\ ToSet(SubSeq(s, 1, k)) \cup ToSet(Drop(s, k)) = ToSet(s)
    BY SeqCut
  <1>3. /\ seen' \in [Frames -> [Sinks -> Nat]]
        /\ \A f \in Frames : IF f \in ToSet(SubSeq(s, 1, k)) THEN Got(f, Wire) ELSE seen'[f] = seen[f]
    BY <1>1, <1>2, GivenIs, Sizes
  <1>4. ToSet(s) \subseteq Frames
    BY DEF ToSet
  <1>5. gone \subseteq Frames
    BY DEF DispatchInv, TypeOK
  <1> QED BY <1>1, <1>2, <1>3, <1>4, <1>5 DEF Dropped

LEMMA SendSingleIs ==
  ASSUME DispatchInv, NEW q \in Queues, NEW m \in Frames, m \notin ToSet(tx[q]),
         send_single_packet(q, m)
  PROVE  /\ tx' = [tx EXCEPT ![q] = tx'[q]] /\ Fits(tx'[q], MAX_PKT_BURST - 1)
         /\ seen' \in [Frames -> [Sinks -> Nat]] /\ gone' \subseteq Frames
         /\ pool' \in Nat /\ pool' + Len(tx'[q]) = pool + Len(tx[q]) + 1
         /\ \/ ToSet(tx'[q]) = ToSet(tx[q]) \cup {m} /\ \A f \in Frames : seen'[f] = seen[f]
            \/ /\ ToSet(tx'[q]) = {}
               /\ \A f \in Frames : seen'[f] = seen[f]
                                    \/ ((f \in ToSet(tx[q]) \/ f = m) /\ Got(f, Wire))
  <1> DEFINE s == Append(tx[q], m)
  <1>1. Fits(tx[q], MAX_PKT_BURST - 1) /\ pool \in Nat /\ Len(tx[q]) \in Nat
    BY Types
  <1>2. /\ s \in Seq(Frames) /\ Len(s) = Len(tx[q]) + 1 /\ ToSet(s) = ToSet(tx[q]) \cup {m}
        /\ IsInjective(s)
    BY <1>1, SeqAppend DEF Fits
  <1>3. /\ Len(s) = MAX_PKT_BURST => send_burst(s) /\ tx' = [tx EXCEPT ![q] = <<>>]
        /\ Len(s) # MAX_PKT_BURST => tx' = [tx EXCEPT ![q] = s] /\ UNCHANGED <<pool, seen, gone>>
    BY DEF send_single_packet
  <1>4. tx \in [Queues -> Atmost(MAX_PKT_BURST - 1)]
    BY DEF DispatchInv, TypeOK
  <1> HIDE DEF s
  <1>5. CASE Len(s) = MAX_PKT_BURST
    <2>1. tx' = [tx EXCEPT ![q] = tx'[q]] /\ tx'[q] = <<>>
      BY <1>3, <1>4, <1>5
    <2>2. /\ seen' \in [Frames -> [Sinks -> Nat]] /\ gone' \subseteq Frames /\ pool' = pool + Len(s)
          /\ \A f \in Frames : seen'[f] = seen[f] \/ (f \in ToSet(s) /\ Got(f, Wire))
      BY <1>2, <1>3, <1>5, SendBurstIs
    <2>3. pool' \in Nat /\ pool' + Len(tx'[q]) = pool + Len(tx[q]) + 1
      BY <1>1, <1>2, <2>1, <2>2, EmptyFacts
    <2>4. Fits(tx'[q], MAX_PKT_BURST - 1) /\ ToSet(tx'[q]) = {}
      BY <2>1, EmptyFacts, Sizes DEF Fits
    <2> QED BY <2>1, <2>2, <2>3, <2>4, <1>2
  <1>6. CASE Len(s) # MAX_PKT_BURST
    <2>1. tx' = [tx EXCEPT ![q] = tx'[q]] /\ tx'[q] = s
      BY <1>3, <1>4, <1>6
    <2>2. pool' = pool /\ seen' = seen /\ gone' = gone
      BY <1>3, <1>6
    <2>3. Fits(s, MAX_PKT_BURST - 1)
      BY <1>1, <1>2, <1>6, Sizes DEF Fits
    <2>4. seen' \in [Frames -> [Sinks -> Nat]] /\ gone' \subseteq Frames
      BY <2>2, Types
    <2>5. pool' \in Nat /\ pool' + Len(tx'[q]) = pool + Len(tx[q]) + 1
      BY <1>1, <1>2, <2>1, <2>2
    <2>6. ToSet(tx'[q]) = ToSet(tx[q]) \cup {m} /\ \A f \in Frames : seen'[f] = seen[f]
      BY <1>2, <2>1, <2>2
    <2> QED BY <2>1, <2>3, <2>4, <2>5, <2>6
  <1> QED BY <1>5, <1>6

\* A frame that leaves by the table of process q.
LEMMA FrameSent ==
  ASSUME DispatchInv, NEW q \in Queues, NEW j \in Queues, Touches(q, j), NEW f \in Frames,
         Got(f, Wire), f \notin ToSet(tx'[q]),
         \/ f \in ToSet(tx[q])
         \/ f \in ToSet(proc[q].burst) /\ ~proc[q].ring /\ f \notin ToSet(proc'[q].burst),
         f \in ToSet(proc'[q].burst) => f \in ToSet(proc[q].burst),
         f \in ToSet(dispatch'[j]) => f \in ToSet(dispatch[j]),
         f \in ToSet(kni') => f \in ToSet(kni), Fewer(f, q)
  PROVE  FrameOK(f)'
  <1>1. /\ \A h \in Holders : Has(f, h)' => Has(f, h)
        /\ ~In(f, "tx", q)'
        /\ In(f, "tx", q) \/ (In(f, "burst", q) /\ Original(f, q) /\ ~In(f, "burst", q)')
    <2>1. /\ In(f, "burst", q)' => In(f, "burst", q)
          /\ In(f, "dispatch", j)' => In(f, "dispatch", j)
          /\ ~In(f, "tx", q)'
          /\ In(f, "kni", Primary)' => In(f, "kni", Primary)
          /\ In(f, "tx", q) \/ (In(f, "burst", q) /\ ~proc[q].ring /\ ~In(f, "burst", q)')
      BY TouchesFrame
    <2> QED BY <2>1, TouchesFrame DEF In, Original
  <1>2. \A r \in Queues : Original(f, r)' => Original(f, r)
    BY TouchesFrame DEF Fewer
  <1>3. FrameOK(f)
    BY DEF FrameOK, DispatchInv, FrameInv
  <1>4. CASE FilterOf[f] = "FILTER_ARP"
    <2>1. Spread(f)
      BY <1>3, <1>4 DEF FrameOK
    <2>2. ~Original(f, q)'
      <3>1. CASE In(f, "tx", q)
        BY <1>2, <2>1, <3>1 DEF Spread
      <3>2. CASE ~In(f, "burst", q)'
        BY <3>2 DEF Original
      <3> QED BY <3>1, <3>2, <1>1
    <2>3. Spread(f)'
      BY <1>1, <1>2, <2>1, <2>2, SpreadSent
    <2> QED BY <1>4, <2>3 DEF FrameOK
  <1>5. CASE FilterOf[f] # "FILTER_ARP"
    <2>1. Single(f)
      BY <1>3, <1>5 DEF FrameOK
    <2>2. PICK g \in Holders : Has(f, g) /\ ~Has(f, g)'
      BY <1>1, HoldersHave DEF In
    <2>3. \A h \in Holders : ~Has(f, h)'
      BY <1>1, <2>1, <2>2 DEF Single
    <2>4. Single(f)'
      BY <2>1, <2>2, <2>3, Sizes, SingleGiven
    <2> QED BY <1>5, <2>4 DEF FrameOK
  <1> QED BY <1>4, <1>5
-----------------------------------------------------------------------------
(***************************************************************************)
(* The actions.                                                            *)
(***************************************************************************)
LEMMA AfterDrainIs ==
  ASSUME DispatchInv, NEW q \in Queues, proc[q].pc = "drain", AfterDrain(q)
  PROVE  /\ proc' = [proc EXCEPT ![q] = proc'[q]] /\ Good(proc'[q])
         /\ proc'[q].burst = proc[q].burst /\ \A f : Fewer(f, q)
  <1>1. PICK pc \in {"kni", "ring"} : Goto(q, pc)
    BY DEF AfterDrain
  <1>2. pc \in ProcPC /\ {proc[q].pc, pc} \cap {"packet", "copy", "input", "send"} = {}
    BY DEF ProcPC
  <1>3. /\ proc' = [proc EXCEPT ![q] = proc'[q]] /\ Good(proc'[q])
        /\ proc'[q].burst = proc[q].burst /\ proc'[q].ring = proc[q].ring
    BY <1>1, <1>2, GotoIs
  <1>4. \A f : Fewer(f, q)
    BY <1>3, FewerIdle
  <1> QED BY <1>3, <1>4

LEMMA TxDrainStep ==
  ASSUME DispatchInv, Conserved, NEW q \in Queues, TxDrain(q)
  PROVE  DispatchInv' /\ Conserved'
  <1>1. /\ proc[q].pc = "drain" /\ send_burst(tx[q]) /\ tx' = [tx EXCEPT ![q] = <<>>]
        /\ AfterDrain(q) /\ dispatch' = dispatch /\ kni' = kni /\ knictl' = knictl
        /\ flag' = flag
    BY DEF TxDrain
  <1>2. /\ proc' = [proc EXCEPT ![q] = proc'[q]] /\ Good(proc'[q])
        /\ proc'[q].burst = proc[q].burst /\ \A f : Fewer(f, q)
    BY <1>1, AfterDrainIs
  <1>3. tx' = [tx EXCEPT ![q] = tx'[q]] /\ tx'[q] = <<>>
    BY <1>1 DEF DispatchInv, TypeOK
  <1>4. Fits(tx'[q], MAX_PKT_BURST - 1) /\ Len(tx'[q]) = 0 /\ ToSet(tx'[q]) = {}
    BY <1>3, EmptyFacts, Sizes DEF Fits
  <1>5. /\ seen' \in [Frames -> [Sinks -> Nat]] /\ gone' \subseteq Frames
        /\ pool' = pool + Len(tx[q])
        /\ \A f \in Frames : seen'[f] = seen[f] \/ (f \in ToSet(tx[q]) /\ Got(f, Wire))
    BY <1>1, Types, SendBurstIs DEF Fits
  <1>6. Touches(q, q)
    <2>1. /\ pool' \in Nat
          /\ pool' + Len(proc'[q].burst) + Len(dispatch'[q]) + Len(tx'[q]) + Len(kni')
              = pool + Len(proc[q].burst) + Len(dispatch[q]) + Len(tx[q]) + Len(kni)
      BY <1>1, <1>2, <1>4, <1>5, Types
    <2> QED BY <2>1, <1>1, <1>2, <1>3, <1>4, <1>5, Types, KeptSame DEF Touches
  <1>7. ASSUME NEW f \in Frames  PROVE FrameOK(f)'
    <2>1. CASE seen'[f] = seen[f]
      BY <1>1, <1>2, <1>4, <1>6, <2>1, FrameKept
    <2>2. CASE f \in ToSet(tx[q]) /\ Got(f, Wire)
      BY <1>1, <1>2, <1>4, <1>6, <2>2, FrameSent
    <2> QED BY <1>5, <2>1, <2>2
  <1> QED BY <1>6, <1>7, TouchesInv

\* Steps that move no frame.
LEMMA IdleStep ==
  ASSUME DispatchInv, Conserved, NEW q \in Queues,
         proc' = [proc EXCEPT ![q] = proc'[q]], Good(proc'[q]),
         proc'[q].burst = proc[q].burst, \A f : Fewer(f, q),
         knictl' \in [Queues -> KniActions \cup {"DEFAULT"}],
         UNCHANGED <<pool, dispatch, kni, tx, flag, seen>>, gone' \subseteq Frames
  PROVE  DispatchInv' /\ Conserved'
  <1>1. /\ pool' = pool /\ dispatch' = dispatch /\ kni' = kni /\ tx' = tx /\ seen' = seen
        /\ flag' = flag
    OBVIOUS
  <1>2. Touches(q, q)
    BY <1>1, Types, KeptSame DEF Touches
  <1>3. ASSUME NEW f \in Frames  PROVE FrameOK(f)'
    BY <1>1, <1>2, FrameKept
  <1> QED BY <1>2, <1>3, TouchesInv

LEMMA NoDrainStep ==
  ASSUME DispatchInv, Conserved, NEW q \in Queues, NoDrain(q)
  PROVE  DispatchInv' /\ Conserved'
  <1>1. /\ proc[q].pc = "drain" /\ AfterDrain(q)
        /\ UNCHANGED <<pool, dispatch, kni, tx, flag, seen>> /\ knictl' = knictl /\ gone' = gone
    BY DEF NoDrain
  <1>2. /\ proc' = [proc EXCEPT ![q] = proc'[q]] /\ Good(proc'[q])
        /\ proc'[q].burst = proc[q].burst /\ \A f : Fewer(f, q)
    BY <1>1, AfterDrainIs
  <1>3. knictl' \in [Queues -> KniActions \cup {"DEFAULT"}] /\ gone' \subseteq Frames
    BY <1>1, Types
  <1> QED BY <1>1, <1>2, <1>3, IdleStep

LEMMA LoopStep ==
  ASSUME DispatchInv, Conserved, NEW q \in Queues, Loop(q)
  PROVE  DispatchInv' /\ Conserved'
  <1>1. /\ proc[q].pc = "loop" /\ Goto(q, "drain")
        /\ UNCHANGED <<pool, dispatch, kni, tx, flag, seen>> /\ gone' = gone
        /\ knictl' = knictl \/ \E a \in KniActions : knictl' = [knictl EXCEPT ![q] = a]
    BY DEF Loop
  <1>2. "drain" \in ProcPC /\ {proc[q].pc, "drain"} \cap {"packet", "copy", "input", "send"} = {}
    BY <1>1 DEF ProcPC
  <1>3. /\ proc' = [proc EXCEPT ![q] = proc'[q]] /\ Good(proc'[q])
        /\ proc'[q].burst = proc[q].burst /\ proc'[q].ring = proc[q].ring
    BY <1>1, <1>2, GotoIs
  <1>4. \A f : Fewer(f, q)
    BY <1>1, <1>3, FewerIdle
  <1>5. knictl' \in [Queues -> KniActions \cup {"DEFAULT"}] /\ gone' \subseteq Frames
    <2>1. knictl \in [Queues -> KniActions \cup {"DEFAULT"}] /\ gone \subseteq Frames
      BY Types
    <2> QED BY <1>1, <2>1
  <1> QED BY <1>1, <1>3, <1>4, <1>5, IdleStep

LEMMA FilterStep ==
  ASSUME DispatchInv, Conserved, NEW q \in Queues, Filter(q)
  PROVE  DispatchInv' /\ Conserved'
  <1>1. /\ proc[q].pc = "packet"
        /\ UNCHANGED <<pool, dispatch, kni, tx, flag, seen>> /\ knictl' = knictl /\ gone' = gone
        /\ Goto(q, IF FilterOf[Pkt(q)] = "FILTER_ARP" /\ ~proc[q].ring THEN "copy" ELSE "input")
    BY DEF Filter
  <1>2. PICK pc \in {"copy", "input"} :
          /\ Goto(q, pc) /\ (pc = "copy" <=> FilterOf[Pkt(q)] = "FILTER_ARP" /\ ~proc[q].ring)
    BY <1>1
  <1>3. pc \in ProcPC
    BY DEF ProcPC
  <1>4. /\ proc' = [proc EXCEPT ![q] = proc'[q]]
        /\ proc'[q] \in [pc : ProcPC, burst : Seq(Frames), ring : BOOLEAN, to : Queues]
        /\ proc'[q].burst = proc[q].burst /\ proc'[q].ring = proc[q].ring
        /\ proc'[q].to = proc[q].to /\ proc'[q].pc = pc
    BY <1>2, <1>3, GotoIs
  <1>5. Good(proc[q])
    BY StateFits
  <1>6. Good(proc'[q])
    BY <1>1, <1>2, <1>4, <1>5 DEF Good, Pkt
  <1>7. ASSUME NEW f  PROVE Fewer(f, q)
    BY <1>1, <1>4, FewerIdle
  <1>8. knictl' \in [Queues -> KniActions \cup {"DEFAULT"}] /\ gone' \subseteq Frames
    BY <1>1, Types
  <1> QED BY <1>1, <1>4, <1>6, <1>7, <1>8, IdleStep

LEMMA FrameToKernel ==
  ASSUME DispatchInv, NEW q \in Queues, Touches(q, q), NEW f \in Frames,
         Got(f, Kernel), f \in ToSet(kni), f \notin ToSet(kni'),
         proc'[q].burst = proc[q].burst, dispatch' = dispatch, tx' = tx, Fewer(f, q)
  PROVE  FrameOK(f)'
  <1>1. /\ \A h \in Holders : Has(f, h)' => Has(f, h)
        /\ In(f, "kni", Primary) /\ ~In(f, "kni", Primary)'
    <2>1. /\ In(f, "burst", q)' => In(f, "burst", q)
          /\ In(f, "dispatch", q)' => In(f, "dispatch", q)
          /\ In(f, "tx", q)' => In(f, "tx", q)
          /\ In(f, "kni", Primary) /\ ~In(f, "kni", Primary)'
      BY TouchesFrame
    <2> QED BY <2>1, TouchesFrame DEF In
  <1>2. \A r \in Queues : Fewer(f, r)
    BY TouchesFrame
  <1>3. FrameOK(f)
    BY DEF FrameOK, DispatchInv, FrameInv
  <1>4. CASE FilterOf[f] = "FILTER_ARP"
    <2>1. Spread(f)'
      BY <1>1, <1>2, <1>3, <1>4, SpreadToKernel DEF FrameOK
    <2> QED BY <1>4, <2>1 DEF FrameOK
  <1>5. CASE FilterOf[f] # "FILTER_ARP"
    <2>1. Single(f)
      BY <1>3, <1>5 DEF FrameOK
    <2>2. \A h \in Holders : ~Has(f, h)'
      BY <1>1, <2>1, HoldersHave DEF Single, In
    <2>3. Single(f)'
      BY <1>1, <2>1, <2>2, Sizes, HoldersHave, SingleGiven DEF In
    <2> QED BY <1>5, <2>3 DEF FrameOK
  <1> QED BY <1>4, <1>5

LEMMA KniProcessStep ==
  ASSUME DispatchInv, Conserved, NEW q \in Queues, ff_kni_process(q)
  PROVE  DispatchInv' /\ Conserved'
  <1> DEFINE n == BurstOf(kni)
  <1>1. PICK k \in 0..n :
          /\ proc[q].pc = "kni" /\ Goto(q, "ring")
          /\ seen' = Given(Kernel, SubSeq(kni, 1, k)) /\ gone' = Dropped(SubSeq(kni, k + 1, n))
          /\ pool' = pool + n /\ kni' = Drop(kni, n)
          /\ dispatch' = dispatch /\ tx' = tx /\ knictl' = knictl /\ flag' = flag
    BY DEF ff_kni_process
  <1>2. kni \in Seq(Frames) /\ IsInjective(kni) /\ Len(kni) <= RingCapacity /\ Len(kni) \in Nat
    BY Types DEF Fits
  <1>3. n \in 0..Len(kni)
    BY <1>2, Sizes DEF BurstOf
  <1> HIDE DEF n
  <1>4. k \in 0..Len(kni) /\ k <= n /\ k + 1 \in Nat \ {0} /\ k + 1 <= n + 1
    BY <1>2, <1>3
  <1>5. /\ kni' \in Seq(Frames) /\ Len(kni') = Len(kni) - n /\ IsInjective(kni')
        /\ ToSet(SubSeq(kni, 1, n)) \cup ToSet(kni') = ToSet(kni)
        /\ ToSet(SubSeq(kni, 1, n)) \cap ToSet(kni') = {}
    BY <1>1, <1>2, <1>3, SeqCut
  <1>6. /\ SubSeq(kni, 1, k) \in Seq(Frames) /\ IsInjective(SubSeq(kni, 1, k))
    BY <1>2, <1>4, SeqCut
  <1>7. ToSet(SubSeq(kni, 1, k)) \subseteq ToSet(SubSeq(kni, 1, n))
    <2>1. \A f \in Frames : f \in ToSet(SubSeq(kni, 1, k)) => \E i \in 1..k : kni[i] = f
      <3>1. 1 \in Nat \ {0} /\ 1 <= k + 1
        BY <1>4
      <3> QED BY <1>2, <1>4, <3>1, SeqPart
    <2>2. \A f \in Frames : (\E i \in 1..n : kni[i] = f) => f \in ToSet(SubSeq(kni, 1, n))
      <3>1. 1 \in Nat \ {0} /\ 1 <= n + 1
        BY <1>3
      <3> QED BY <1>2, <1>3, <3>1, SeqPart
    <2>3. \A i \in 1..k : i \in 1..n
      BY <1>3, <1>4
    <2>4. ToSet(SubSeq(kni, 1, k)) \subseteq Frames
      BY <1>6 DEF ToSet
    <2> QED BY <2>1, <2>2, <2>3, <2>4
  <1>8. /\ seen' \in [Frames -> [Sinks -> Nat]]
        /\ \A f \in Frames : IF f \in ToSet(SubSeq(kni, 1, k)) THEN Got(f, Kernel)
                                                        ELSE seen'[f] = seen[f]
    BY <1>1, <1>6, Sizes, GivenIs
  <1>9. gone' \subseteq Frames
    <2>1. SubSeq(kni, k + 1, n) \in Seq(Frames)
      BY <1>2, <1>3, <1>4, SeqPart
    <2>2. ToSet(SubSeq(kni, k + 1, n)) \subseteq Frames
      BY <2>1 DEF ToSet
    <2> QED BY <1>1, <2>2, Types DEF Dropped
  <1>10. "ring" \in ProcPC /\ {proc[q].pc, "ring"} \cap {"packet", "copy", "input", "send"} = {}
    BY <1>1 DEF ProcPC
  <1>11. /\ proc' = [proc EXCEPT ![q] = proc'[q]] /\ Good(proc'[q])
         /\ proc'[q].burst = proc[q].burst /\ proc'[q].ring = proc[q].ring
    BY <1>1, <1>10, GotoIs
  <1>12. \A f : Fewer(f, q)
    BY <1>1, <1>11, FewerIdle
  <1>13. Touches(q, q)
    <2>1. pool \in Nat /\ Len(proc[q].burst) \in Nat /\ Len(dispatch[q]) \in Nat /\ Len(tx[q]) \in Nat
      BY Types
    <2>2. /\ pool' \in Nat
          /\ pool' + Len(proc'[q].burst) + Len(dispatch'[q]) + Len(tx'[q]) + Len(kni')
              = pool + Len(proc[q].burst) + Len(dispatch[q]) + Len(tx[q]) + Len(kni)
      <3> DEFINE m == pool
                 m1 == pool'
                 a == Len(proc[q].burst)
                 a1 == Len(proc'[q].burst)
                 b == Len(dispatch[q])
                 b1 == Len(dispatch'[q])
                 c == Len(tx[q])
                 c1 == Len(tx'[q])
                 d == Len(kni)
                 d1 == Len(kni')
      <3>1. /\ m \in Nat /\ a \in Nat /\ b \in Nat /\ c \in Nat /\ d \in Nat /\ n \in Nat
           /\ m1 \in Nat /\ a1 \in Nat /\ b1 \in Nat /\ c1 \in Nat /\ d1 \in Nat
        BY <1>1, <1>2, <1>3, <1>5, <1>11, <2>1
      <3>2. m1 = m + n /\ d = n + d1 /\ a1 = a /\ b1 = b /\ c1 = c
        BY <1>1, <1>2, <1>3, <1>5, <1>11
      <3> HIDE DEF m, m1, a, a1, b, b1, c, c1, d, d1
      <3>3. m1 + a1 + b1 + c1 + d1 = m + a + b + c + d
        BY <3>1, <3>2
      <3> QED BY <3>1, <3>3 DEF m, m1, a, a1, b, b1, c, c1, d, d1
    <2>3. Fits(kni', RingCapacity)
      BY <1>2, <1>3, <1>5, Sizes DEF Fits
    <2> QED BY <2>2, <2>3, <1>1, <1>8, <1>9, <1>11, Types, KeptSame DEF Touches
  <1>14. ASSUME NEW f \in Frames  PROVE FrameOK(f)'
    <2>1. CASE f \in ToSet(SubSeq(kni, 1, k))
      BY <1>1, <1>5, <1>7, <1>8, <1>11, <1>12, <1>13, <2>1, FrameToKernel
    <2>2. CASE f \notin ToSet(SubSeq(kni, 1, k))
      <3>1. seen'[f] = seen[f] /\ (f \in ToSet(kni') => f \in ToSet(kni))
        BY <1>5, <1>8, <2>2
      <3> QED BY <1>1, <1>11, <1>12, <1>13, <3>1, FrameKept
    <2> QED BY <2>1, <2>2
  <1> QED BY <1>13, <1>14, TouchesInv

LEMMA DispatchRingStep ==
  ASSUME DispatchInv, Conserved, NEW q \in Queues, process_dispatch_ring(q)
  PROVE  DispatchInv' /\ Conserved'
  <1> DEFINE s == dispatch[q]
             n == BurstOf(s)
             P == proc'[q]
  <1>1. /\ proc[q].pc = "ring" /\ dispatch' = [dispatch EXCEPT ![q] = Drop(s, n)]
        /\ proc' = [proc EXCEPT ![q].burst = SubSeq(s, 1, n), ![q].ring = n > 0,
                               ![q].pc = IF n = 0 THEN "rx" ELSE "packet"]
        /\ pool' = pool /\ kni' = kni /\ tx' = tx /\ knictl' = knictl /\ seen' = seen /\ gone' = gone
        /\ flag' = flag
    BY DEF process_dispatch_ring, DispatchInv, TypeOK
  <1>2. s \in Seq(Frames) /\ IsInjective(s) /\ Len(s) <= RingCapacity /\ Len(s) \in Nat
    BY Types DEF Fits
  <1>3. n \in 0..Len(s) /\ n <= MAX_PKT_BURST
    BY <1>2, Sizes DEF BurstOf
  <1>4. Good(proc[q])
    BY Types
  <1>5. /\ dispatch' = [dispatch EXCEPT ![q] = dispatch'[q]] /\ dispatch'[q] = Drop(s, n)
        /\ proc' = [proc EXCEPT ![q] = P]
        /\ P = [proc[q] EXCEPT !.burst = SubSeq(s, 1, n), !.ring = n > 0,
                              !.pc = IF n = 0 THEN "rx" ELSE "packet"]
    BY <1>1 DEF DispatchInv, TypeOK
  <1> HIDE DEF n, s, P
  <1>6. /\ SubSeq(s, 1, n) \in Seq(Frames) /\ Len(SubSeq(s, 1, n)) = n
        /\ Drop(s, n) \in Seq(Frames) /\ Len(Drop(s, n)) = Len(s) - n
        /\ IsInjective(SubSeq(s, 1, n)) /\ IsInjective(Drop(s, n))
        /\ ToSet(SubSeq(s, 1, n)) \cup ToSet(Drop(s, n)) = ToSet(s)
        /\ ToSet(SubSeq(s, 1, n)) \cap ToSet(Drop(s, n)) = {}
    BY <1>2, <1>3, SeqCut
  <1>7. /\ P \in [pc : ProcPC, burst : Seq(Frames), ring : BOOLEAN, to : Queues]
        /\ P.burst = SubSeq(s, 1, n) /\ P.ring = (n > 0) /\ P.to = proc[q].to
        /\ P.pc = IF n = 0 THEN "rx" ELSE "packet"
    <2>1. proc[q] \in [pc : ProcPC, burst : Seq(Frames), ring : BOOLEAN, to : Queues]
      BY <1>4 DEF Good
    <2>2. (n > 0) \in BOOLEAN /\ (IF n = 0 THEN "rx" ELSE "packet") \in ProcPC
      BY DEF ProcPC
    <2> QED BY <1>5, <1>6, <2>1, <2>2
  <1>8. Good(P)
    <2>1. SubSeq(s, 1, n) # <<>> <=> n # 0
      BY <1>6
    <2>2. Fits(P.burst, MAX_PKT_BURST)
      BY <1>3, <1>6, <1>7 DEF Fits
    <2>3. P.to = 0 /\ (n > 0 <=> n # 0)
      BY <1>1, <1>3, <1>4, <1>7 DEF Good
    <2> QED BY <1>7, <2>1, <2>2, <2>3 DEF Good
  <1>9. proc[q].burst = <<>> /\ Len(proc[q].burst) = 0 /\ ToSet(proc[q].burst) = {}
    BY <1>1, <1>4, EmptyFacts DEF Good
  <1>10. Touches(q, q)
    <2>1. pool \in Nat /\ Len(tx[q]) \in Nat /\ Len(kni) \in Nat
      BY Types
    <2>2. /\ pool' \in Nat
          /\ pool' + Len(proc'[q].burst) + Len(dispatch'[q]) + Len(tx'[q]) + Len(kni')
              = pool + Len(proc[q].burst) + Len(dispatch[q]) + Len(tx[q]) + Len(kni)
      <3> DEFINE m == pool
                 m1 == pool'
                 a == Len(proc[q].burst)
                 a1 == Len(proc'[q].burst)
                 b == Len(dispatch[q])
                 b1 == Len(dispatch'[q])
                 c == Len(tx[q])
                 c1 == Len(tx'[q])
                 d == Len(kni)
                 d1 == Len(kni')
      <3>1. /\ m \in Nat /\ a \in Nat /\ b \in Nat /\ c \in Nat /\ d \in Nat /\ n \in Nat
           /\ m1 \in Nat /\ a1 \in Nat /\ b1 \in Nat /\ c1 \in Nat /\ d1 \in Nat
        BY <1>1, <1>2, <1>3, <1>5, <1>6, <1>7, <1>9, <2>1 DEF P, s
      <3>2. m1 = m /\ a = 0 /\ a1 = n /\ b = n + b1 /\ c1 = c /\ d1 = d
        BY <1>1, <1>2, <1>3, <1>5, <1>6, <1>7, <1>9 DEF P, s
      <3> HIDE DEF m, m1, a, a1, b, b1, c, c1, d, d1
      <3>3. m1 + a1 + b1 + c1 + d1 = m + a + b + c + d
        BY <3>1, <3>2
      <3> QED BY <3>1, <3>3 DEF m, m1, a, a1, b, b1, c, c1, d, d1
    <2>3. Fits(dispatch'[q], RingCapacity)
      BY <1>2, <1>3, <1>5, <1>6, Sizes DEF Fits
    <2> QED BY <2>2, <2>3, <1>1, <1>5, <1>8, Types, KeptSame DEF Touches, P
  <1>11. ASSUME NEW f  PROVE Fewer(f, q)
    <2>1. ~Original(f, q)'
      <3>1. f \in ToSet(P.burst) => P.ring
        <4>1. CASE n = 0
          <5>1. P.burst = <<>>
            BY <1>6, <1>7, <4>1
          <5> QED BY <5>1, EmptyFacts
        <4>2. CASE n # 0
          BY <1>3, <1>7, <4>2
        <4> QED BY <4>1, <4>2
      <3> QED BY <3>1, InIsNext DEF Original, P
    <2> QED BY <2>1 DEF Fewer
  <1>12. ASSUME NEW f \in Frames  PROVE FrameOK(f)'
    <2>1. CASE f \notin ToSet(P.burst)
      <3>1. f \in ToSet(dispatch'[q]) => f \in ToSet(dispatch[q])
        BY <1>5, <1>6 DEF s
      <3> QED BY <1>1, <1>10, <1>11, <2>1, <3>1, FrameKept DEF P
    <2>2. CASE f \in ToSet(P.burst)
      <3>1. f \in ToSet(dispatch[q]) /\ f \notin ToSet(dispatch'[q])
        BY <1>5, <1>6, <1>7, <2>2 DEF s
      <3>2. /\ In(f, "dispatch", q) /\ ~In(f, "dispatch", q)'
            /\ In(f, "tx", q)' => In(f, "tx", q)
            /\ In(f, "kni", Primary)' => In(f, "kni", Primary)
        BY <1>1, <1>10, <3>1, TouchesFrame
      <3>3. \A h \in Holders : Has(f, h)' =>
               h = <<"burst", q>> \/ (Has(f, h) /\ h # <<"dispatch", q>>)
        <4>1. \A h \in Holders : Has(f, h)' =>
                \/ h \notin {<<"burst", q>>, <<"dispatch", q>>, <<"tx", q>>, <<"kni", Primary>>}
                   /\ Has(f, h)
                \/ h = <<"burst", q>> /\ In(f, "burst", q)'
                \/ h = <<"dispatch", q>> /\ In(f, "dispatch", q)'
                \/ h = <<"tx", q>> /\ In(f, "tx", q)'
                \/ h = <<"kni", Primary>> /\ In(f, "kni", Primary)'
          BY <1>10, TouchesFrame
        <4> QED BY <4>1, <3>2 DEF In
      <3>4. \A r \in Queues : Fewer(f, r)
        <4>1. \A r \in Queues \ {q} : Fewer(f, r)
          BY <1>10, TouchesFrame
        <4> QED BY <4>1, <1>11
      <3>5. FrameOK(f)
        BY DEF FrameOK, DispatchInv, FrameInv
      <3>6. CASE FilterOf[f] = "FILTER_ARP"
        <4>1. Spread(f)'
          BY <1>1, <3>2, <3>3, <3>4, <3>5, <3>6, SpreadTaken DEF FrameOK
        <4> QED BY <3>6, <4>1 DEF FrameOK
      <3>7. CASE FilterOf[f] # "FILTER_ARP"
        <4>1. Single(f)
          BY <3>5, <3>7 DEF FrameOK
        <4>2. \A h \in Holders : Has(f, h) => h = <<"dispatch", q>>
          BY <3>2, <4>1, HoldersHave DEF Single, In
        <4>3. \A t \in Sinks : seen[f][t] = 0
          BY <3>2, <4>1, HoldersHave DEF Single, In
        <4>4. Single(f)'
          BY <1>1, <3>3, <4>2, <4>3, HoldersHave, SinglePlaced
        <4> QED BY <3>7, <4>4 DEF FrameOK
      <3> QED BY <3>6, <3>7
    <2> QED BY <2>1, <2>2
  <1> QED BY <1>10, <1>12, TouchesInv

\* A frame that arrives or is sent by a stack.
LEMMA NewIs ==
  ASSUME NEW f \in New
  PROVE  /\ f \in Frames /\ \A s \in Sinks : seen[f][s] = 0
         /\ \A h \in Holders : ~Has(f, h)
  BY DEF New, InBuffers, Has

LEMMA FrameNew ==
  ASSUME DispatchInv, NEW q \in Queues, Touches(q, q), NEW f \in New, seen' = seen,
         dispatch' = dispatch, tx' = tx, kni' = kni
  PROVE  FrameOK(f)'
  <1>1. /\ f \in Frames /\ \A s \in Sinks : seen[f][s] = 0
        /\ \A h \in Holders : ~Has(f, h)
    BY NewIs
  <1>2. ~In(f, "dispatch", q) /\ ~In(f, "tx", q) /\ ~In(f, "kni", Primary)
    BY <1>1, HoldersHave DEF In
  <1>3. ~In(f, "dispatch", q)' /\ ~In(f, "tx", q)' /\ ~In(f, "kni", Primary)'
    BY <1>2, TouchesFrame
  <1>4. \A h \in Holders : Has(f, h)' =>
          \/ h \notin {<<"burst", q>>, <<"dispatch", q>>, <<"tx", q>>, <<"kni", Primary>>}
             /\ Has(f, h)
          \/ h = <<"burst", q>> /\ In(f, "burst", q)'
          \/ h = <<"dispatch", q>> /\ In(f, "dispatch", q)'
          \/ h = <<"tx", q>> /\ In(f, "tx", q)'
          \/ h = <<"kni", Primary>> /\ In(f, "kni", Primary)'
    BY TouchesFrame
  <1>5. \A h \in Holders : Has(f, h)' => h = <<"burst", q>>
    BY <1>1, <1>3, <1>4
  <1>6. CASE FilterOf[f] = "FILTER_ARP"
    BY <1>1, <1>5, <1>6, SpreadNew DEF FrameOK
  <1>7. CASE FilterOf[f] # "FILTER_ARP"
    BY <1>1, <1>5, <1>7, HoldersHave, SinglePlaced DEF FrameOK
  <1> QED BY <1>6, <1>7

LEMMA PermutationIs ==
  ASSUME NEW S \in SUBSET Frames, IsFiniteSet(S), S # {}, NEW s \in SetToSeqs(S)
  PROVE  /\ s \in Seq(Frames) /\ IsInjective(s) /\ Len(s) = Cardinality(S) /\ s # <<>>
         /\ ToSet(s) \subseteq S
  <1> DEFINE n == Cardinality(S)
  <1>1. n \in Nat /\ n # 0
    BY FS_CardinalityType, FS_EmptySet
  <1>2. s \in [1..n -> S] /\ \A i, j \in 1..n : i # j => s[i] # s[j]
    BY DEF SetToSeqs
  <1> HIDE DEF n
  <1>3. s \in Seq(S) /\ s \in Seq(Frames)
    BY <1>1, <1>2, SeqDef
  <1>4. Len(s) = n /\ DOMAIN s = 1..n
    BY <1>1, <1>2, <1>3, LenProperties
  <1>5. s # <<>>
    BY <1>1, <1>4, EmptyFacts
  <1>6. IsInjective(s) /\ ToSet(s) \subseteq S
    BY <1>2, <1>4 DEF IsInjective, ToSet
  <1> QED BY <1>3, <1>4, <1>5, <1>6 DEF n

\* A process that holds nothing gets a burst of new frames from outside.
LEMMA ArrivalStep ==
  ASSUME DispatchInv, Conserved, NEW q \in Queues, NEW s \in Seq(Frames),
         IsInjective(s), s # <<>>, Len(s) <= MAX_PKT_BURST, Len(s) <= pool,
         \A f \in ToSet(s) : f \in New,
         NEW pc \in {"packet", "send"}, proc[q].pc \in {"rx", "loop"},
         pc = "send" => Len(s) = 1 /\ FilterOf[Head(s)] = "OUT",
         proc' = [proc EXCEPT ![q].burst = s, ![q].pc = pc],
         pool' = pool - Len(s), UNCHANGED <<dispatch, kni, tx, knictl, flag, seen, gone>>
  PROVE  DispatchInv' /\ Conserved'
  <1> DEFINE P == proc'[q]
  <1>1. Good(proc[q])
    BY StateFits
  <1>2. proc' = [proc EXCEPT ![q] = P] /\ P = [proc[q] EXCEPT !.burst = s, !.pc = pc]
    BY DEF DispatchInv, TypeOK
  <1>3. proc[q] \in [pc : ProcPC, burst : Seq(Frames), ring : BOOLEAN, to : Queues]
    BY <1>1 DEF Good
  <1> HIDE DEF P
  <1>4. /\ P \in [pc : ProcPC, burst : Seq(Frames), ring : BOOLEAN, to : Queues]
        /\ P.burst = s /\ P.pc = pc /\ P.ring = proc[q].ring /\ P.to = proc[q].to
    BY <1>2, <1>3 DEF ProcPC
  <1>5. proc[q].burst = <<>> /\ ~proc[q].ring /\ proc[q].to = 0
    BY <1>1 DEF Good
  <1>6. Good(P)
    BY <1>4, <1>5 DEF Good, Fits
  <1>7. /\ dispatch' = dispatch /\ kni' = kni /\ tx' = tx /\ knictl' = knictl /\ seen' = seen
        /\ gone' = gone /\ flag' = flag
    OBVIOUS
  <1>8. Touches(q, q)
    <2>1. /\ pool' \in Nat
          /\ pool' + Len(proc'[q].burst) + Len(dispatch'[q]) + Len(tx'[q]) + Len(kni')
              = pool + Len(proc[q].burst) + Len(dispatch[q]) + Len(tx[q]) + Len(kni)
      <3>0. /\ Len(s) \in Nat /\ Len(P.burst) = Len(s) /\ Len(proc[q].burst) = 0
            /\ pool' \in Nat /\ pool = pool' + Len(s)
        <4>1. Len(s) \in Nat /\ pool \in Nat /\ pool' = pool - Len(s) /\ Len(s) <= pool
          BY Types
        <4>2. pool' \in Nat /\ pool = pool' + Len(s)
          BY ONLY <4>1
        <4> QED BY <4>1, <4>2, <1>4, <1>5, EmptyFacts
      <3> DEFINE m == pool
                 m1 == pool'
                 a == Len(proc[q].burst)
                 a1 == Len(proc'[q].burst)
                 b == Len(dispatch[q])
                 b1 == Len(dispatch'[q])
                 c == Len(tx[q])
                 c1 == Len(tx'[q])
                 d == Len(kni)
                 d1 == Len(kni')
      <3>1. /\ m \in Nat /\ a \in Nat /\ b \in Nat /\ c \in Nat /\ d \in Nat
           /\ m1 \in Nat /\ a1 \in Nat /\ b1 \in Nat /\ c1 \in Nat /\ d1 \in Nat
        BY <1>7, <3>0, Types DEF P
      <3>2. m = m1 + a1 /\ a = 0 /\ b1 = b /\ c1 = c /\ d1 = d
        BY <1>7, <3>0 DEF P
      <3> HIDE DEF m, m1, a, a1, b, b1, c, c1, d, d1
      <3>3. m1 + a1 + b1 + c1 + d1 = m + a + b + c + d
        BY <3>1, <3>2
      <3> QED BY <3>1, <3>3 DEF m, m1, a, a1, b, b1, c, c1, d, d1
    <2> QED BY <2>1, <1>2, <1>6, <1>7, Types, KeptSame DEF Touches, P
  <1>9. ASSUME NEW f \in Frames  PROVE FrameOK(f)'
    <2>1. CASE f \in ToSet(s)
      <3>1. f \in New
        BY <2>1
      <3> QED BY <1>7, <1>8, <3>1, FrameNew
    <2>2. CASE f \notin ToSet(s)
      <3>1. f \notin ToSet(proc'[q].burst)
        BY <1>4, <2>2 DEF P
      <3>2. Fewer(f, q)
        BY <3>1, InIsNext DEF Fewer, Original
      <3> QED BY <1>7, <1>8, <3>1, <3>2, FrameKept
    <2> QED BY <2>1, <2>2
  <1> QED BY <1>8, <1>9, TouchesInv

LEMMA RxBurstStep ==
  ASSUME DispatchInv, Conserved, NEW q \in Queues, rx_burst(q)
  PROVE  DispatchInv' /\ Conserved'
  <1>1. proc[q].pc = "rx" /\ UNCHANGED <<dispatch, kni, tx, knictl, flag, seen, gone>>
    BY DEF rx_burst
  <1>2. CASE Goto(q, "loop") /\ UNCHANGED pool
    <2>1. "loop" \in ProcPC /\ {proc[q].pc, "loop"} \cap {"packet", "copy", "input", "send"} = {}
      BY <1>1 DEF ProcPC
    <2>2. /\ proc' = [proc EXCEPT ![q] = proc'[q]] /\ Good(proc'[q])
          /\ proc'[q].burst = proc[q].burst /\ proc'[q].ring = proc[q].ring
      BY <1>2, <2>1, GotoIs
    <2>3. \A f : Fewer(f, q)
      BY <1>1, <2>2, FewerIdle
    <2>4. knictl' \in [Queues -> KniActions \cup {"DEFAULT"}] /\ gone' \subseteq Frames
      BY <1>1, Types
    <2> QED BY <1>1, <1>2, <2>2, <2>3, <2>4, IdleStep
  <1>3. CASE ~(Goto(q, "loop") /\ UNCHANGED pool)
    <2>1. PICK S \in SUBSET {f \in New : FilterOf[f] # "OUT"} :
            /\ S # {} /\ IsFiniteSet(S)
            /\ Cardinality(S) <= MAX_PKT_BURST /\ Cardinality(S) <= pool
            /\ \E s \in SetToSeqs(S) :
                 proc' = [proc EXCEPT ![q].burst = s, ![q].pc = "packet"]
            /\ pool' = pool - Cardinality(S)
      BY <1>3 DEF rx_burst
    <2>2. PICK s \in SetToSeqs(S) : proc' = [proc EXCEPT ![q].burst = s, ![q].pc = "packet"]
      BY <2>1
    <2>3. S \in SUBSET Frames
      BY NewIs
    <2>4. /\ s \in Seq(Frames) /\ IsInjective(s) /\ Len(s) = Cardinality(S) /\ s # <<>>
          /\ ToSet(s) \subseteq S
      BY <2>1, <2>3, PermutationIs
    <2>5. \A f \in ToSet(s) : f \in New
      BY <2>4
    <2>6. Len(s) <= MAX_PKT_BURST /\ Len(s) <= pool /\ pool' = pool - Len(s)
      BY <2>1, <2>4
    <2>7. "packet" \in {"packet", "send"} /\ proc[q].pc \in {"rx", "loop"} /\ "packet" # "send"
      BY <1>1
    <2> QED BY <1>1, <2>2, <2>4, <2>5, <2>6, <2>7, ArrivalStep
  <1> QED BY <1>2, <1>3

LEMMA IfSendStep ==
  ASSUME DispatchInv, Conserved, NEW q \in Queues, ff_dpdk_if_send(q)
  PROVE  DispatchInv' /\ Conserved'
  <1>1. PICK f \in New :
          /\ FilterOf[f] = "OUT"
          /\ IF pool = 0
             THEN gone' = gone \cup {f} /\ UNCHANGED <<pool, proc>>
             ELSE /\ pool' = pool - 1
                  /\ proc' = [proc EXCEPT ![q].pc = "send", ![q].burst = <<f>>]
                  /\ UNCHANGED gone
    BY DEF ff_dpdk_if_send
  <1>2. proc[q].pc = "loop" /\ UNCHANGED <<dispatch, kni, tx, knictl, flag, seen>>
    BY DEF ff_dpdk_if_send
  <1>3. f \in Frames
    BY NewIs
  <1>4. CASE pool = 0
    <2>1. pool' = pool /\ proc' = proc /\ gone' = gone \cup {f}
      BY <1>1, <1>4
    <2>2. /\ proc' = [proc EXCEPT ![q] = proc'[q]] /\ Good(proc'[q])
          /\ proc'[q].burst = proc[q].burst /\ proc'[q].ring = proc[q].ring
      BY <2>1, Types
    <2>3. \A g : Fewer(g, q)
      BY <1>2, <2>2, FewerIdle
    <2>4. knictl' \in [Queues -> KniActions \cup {"DEFAULT"}] /\ gone' \subseteq Frames
      BY <1>2, <1>3, <2>1, Types
    <2> QED BY <1>2, <2>1, <2>2, <2>3, <2>4, IdleStep
  <1>5. CASE pool # 0
    <2>1. /\ pool' = pool - 1 /\ gone' = gone
          /\ proc' = [proc EXCEPT ![q].burst = <<f>>, ![q].pc = "send"]
      BY <1>1, <1>5 DEF DispatchInv, TypeOK
    <2>2. <<f>> \in Seq(Frames) /\ Len(<<f>>) = 1 /\ ToSet(<<f>>) = {f} /\ IsInjective(<<f>>)
      BY <1>3, OneFacts
    <2>3. <<f>> # <<>> /\ Head(<<f>>) = f
      OBVIOUS
    <2>4. Len(<<f>>) <= MAX_PKT_BURST /\ Len(<<f>>) <= pool /\ pool' = pool - Len(<<f>>)
      BY <1>5, <2>1, <2>2, Sizes, Types
    <2>5. \A g \in ToSet(<<f>>) : g \in New
      BY <2>2
    <2> DEFINE s == <<f>>
    <2>6. /\ s \in Seq(Frames) /\ IsInjective(s) /\ s # <<>> /\ Len(s) <= MAX_PKT_BURST
          /\ Len(s) <= pool /\ (\A g \in ToSet(s) : g \in New)
          /\ Len(s) = 1 /\ FilterOf[Head(s)] = "OUT" /\ pool' = pool - Len(s)
          /\ proc' = [proc EXCEPT ![q].burst = s, ![q].pc = "send"]
      BY <1>1, <2>1, <2>2, <2>3, <2>4, <2>5
    <2> HIDE DEF s
    <2>7. "send" \in {"packet", "send"} /\ proc[q].pc \in {"rx", "loop"}
      BY <1>2
    <2>8. UNCHANGED <<dispatch, kni, tx, knictl, flag, seen, gone>>
      BY <1>2, <2>1
    <2> QED BY <2>6, <2>7, <2>8, ArrivalStep
  <1> QED BY <1>4, <1>5
-----------------------------------------------------------------------------
(***************************************************************************)
(* The packet at the head of a burst.                                      *)
(***************************************************************************)
LEMMA PktPlain ==
  ASSUME DispatchInv, NEW q \in Queues, NEW f \in Frames, f \in ToSet(proc[q].burst),
         FilterOf[f] # "FILTER_ARP"
  PROVE  /\ Single(f) /\ \A h \in Holders : Has(f, h) => h = <<"burst", q>>
         /\ \A s \in Sinks : seen[f][s] = 0
         /\ f \notin ToSet(tx[q]) /\ f \notin ToSet(kni) /\ \A j \in Queues : f \notin ToSet(dispatch[j])
  <1>1. Single(f)
    BY DEF DispatchInv, FrameInv
  <1>2. Has(f, <<"burst", q>>) /\ <<"burst", q>> \in Holders
    BY InIs, HoldersHave DEF In
  <1>3. /\ \A h \in Holders : Has(f, h) => h = <<"burst", q>>
        /\ \A s \in Sinks : seen[f][s] = 0
    BY <1>1, <1>2 DEF Single
  <1>4. /\ ~In(f, "tx", q) /\ ~In(f, "kni", Primary)
        /\ \A j \in Queues : ~In(f, "dispatch", j)
    BY <1>3, HoldersHave DEF In
  <1>5. /\ f \notin ToSet(tx[q]) /\ f \notin ToSet(kni)
        /\ \A j \in Queues : f \notin ToSet(dispatch[j])
    BY <1>4, InIs
  <1> QED BY <1>1, <1>3, <1>5

LEMMA PktArp ==
  ASSUME DispatchInv, NEW q \in Queues, NEW f \in Frames, f \in ToSet(proc[q].burst),
         FilterOf[f] = "FILTER_ARP"
  PROVE  /\ Spread(f) /\ In(f, "burst", q)
         /\ ~proc[q].ring =>
              /\ Original(f, q) /\ f \notin ToSet(tx[q])
              /\ \A j \in Queues \ {q} : ToCopy(f, q, j) => f \notin ToSet(dispatch[j])
         /\ q = Primary => f \notin ToSet(kni)
  <1>1. Spread(f)
    BY DEF DispatchInv, FrameInv
  <1>2. In(f, "burst", q)
    BY InIs
  <1>3. ~proc[q].ring => /\ Original(f, q) /\ ~In(f, "tx", q)
                         /\ \A j \in Queues \ {q} : ToCopy(f, q, j) => ~In(f, "dispatch", j)
    BY <1>1, <1>2 DEF Original, Spread, Fresh
  <1>4. q = Primary => ~In(f, "kni", Primary)
    BY <1>1, <1>2 DEF Spread
  <1>5. /\ ~In(f, "tx", q) => f \notin ToSet(tx[q])
        /\ ~In(f, "kni", Primary) => f \notin ToSet(kni)
        /\ \A j \in Queues : ~In(f, "dispatch", j) => f \notin ToSet(dispatch[j])
    BY InIs
  <1> QED BY <1>1, <1>2, <1>3, <1>4, <1>5

LEMMA DiscardStep ==
  ASSUME DispatchInv, Conserved, NEW q \in Queues, Discard(q)
  PROVE  DispatchInv' /\ Conserved'
  <1>1. /\ proc[q].pc \in {"packet", "input"} /\ NextPacket(q)
        /\ pool' = pool + 1 /\ gone' = gone \cup {Pkt(q)}
        /\ dispatch' = dispatch /\ kni' = kni /\ tx' = tx /\ knictl' = knictl /\ seen' = seen
        /\ flag' = flag
    BY DEF Discard
  <1>2. /\ Pkt(q) \in Frames /\ proc' = [proc EXCEPT ![q] = proc'[q]] /\ Good(proc'[q])
        /\ Len(proc[q].burst) \in Nat /\ Len(proc[q].burst) > 0
        /\ Len(proc'[q].burst) = Len(proc[q].burst) - 1
        /\ ToSet(proc'[q].burst) = ToSet(proc[q].burst) \ {Pkt(q)}
        /\ \A f : Fewer(f, q)
    BY <1>1, NextPacketIs
  <1>3. Touches(q, q)
    <2>1. /\ pool' \in Nat
          /\ pool' + Len(proc'[q].burst) + Len(dispatch'[q]) + Len(tx'[q]) + Len(kni')
              = pool + Len(proc[q].burst) + Len(dispatch[q]) + Len(tx[q]) + Len(kni)
      <3>0. /\ Len(proc'[q].burst) \in Nat /\ Len(proc[q].burst) = Len(proc'[q].burst) + 1
            /\ pool' \in Nat
        BY <1>1, <1>2, Types
      <3> DEFINE m == pool
                 m1 == pool'
                 a == Len(proc[q].burst)
                 a1 == Len(proc'[q].burst)
                 b == Len(dispatch[q])
                 b1 == Len(dispatch'[q])
                 c == Len(tx[q])
                 c1 == Len(tx'[q])
                 d == Len(kni)
                 d1 == Len(kni')
      <3>1. /\ m \in Nat /\ a \in Nat /\ b \in Nat /\ c \in Nat /\ d \in Nat
           /\ m1 \in Nat /\ a1 \in Nat /\ b1 \in Nat /\ c1 \in Nat /\ d1 \in Nat
        BY <1>1, <3>0, Types
      <3>2. m1 = m + 1 /\ a = a1 + 1 /\ b1 = b /\ c1 = c /\ d1 = d
        BY <1>1, <3>0
      <3> HIDE DEF m, m1, a, a1, b, b1, c, c1, d, d1
      <3>3. m1 + a1 + b1 + c1 + d1 = m + a + b + c + d
        BY <3>1, <3>2
      <3> QED BY <3>1, <3>3 DEF m, m1, a, a1, b, b1, c, c1, d, d1
    <2> QED BY <2>1, <1>1, <1>2, Types, KeptSame DEF Touches
  <1>4. ASSUME NEW f \in Frames  PROVE FrameOK(f)'
    BY <1>1, <1>2, <1>3, FrameKept
  <1> QED BY <1>3, <1>4, TouchesInv

\* A packet of the burst of process q that goes into the ring of queue j, by
\* itself or as a copy.
LEMMA FrameToRing ==
  ASSUME DispatchInv, NEW q \in Queues, NEW j \in Queues \ {q}, Touches(q, j),
         NEW f \in Frames, f \in ToSet(proc[q].burst), ~proc[q].ring, ToCopy(f, q, j),
         seen'[f] = seen[f], tx' = tx, kni' = kni, Fewer(f, q),
         f \in ToSet(proc'[q].burst) => FilterOf[f] = "FILTER_ARP",
         Original(f, q)' => ~ToCopy(f, q, j)'
  PROVE  FrameOK(f)'
  <1>1. \A h \in Holders : Has(f, h)' =>
          \/ h \notin {<<"burst", q>>, <<"dispatch", j>>, <<"tx", q>>, <<"kni", Primary>>}
             /\ Has(f, h)
          \/ h = <<"burst", q>> /\ In(f, "burst", q)'
          \/ h = <<"dispatch", j>> /\ In(f, "dispatch", j)'
          \/ h = <<"tx", q>> /\ In(f, "tx", q)'
          \/ h = <<"kni", Primary>> /\ In(f, "kni", Primary)'
    BY TouchesFrame
  <1>2. /\ In(f, "burst", q) /\ (In(f, "tx", q)' <=> In(f, "tx", q))
        /\ (In(f, "kni", Primary)' <=> In(f, "kni", Primary))
    BY TouchesFrame
  <1>3. CASE FilterOf[f] = "FILTER_ARP"
    <2>1. Spread(f) /\ Original(f, q)
      BY <1>3, PktArp
    <2>2. \A h \in Holders : Has(f, h)' => Has(f, h) \/ h = <<"dispatch", j>>
      BY <1>1, <1>2 DEF In
    <2>3. \A r \in Queues : Fewer(f, r)
      BY TouchesFrame
    <2>4. Spread(f)'
      BY <2>1, <2>2, <2>3, SpreadCopied
    <2> QED BY <1>3, <2>4 DEF FrameOK
  <1>4. CASE FilterOf[f] # "FILTER_ARP"
    <2>1. /\ \A h \in Holders : Has(f, h) => h = <<"burst", q>>
          /\ \A s \in Sinks : seen[f][s] = 0
      BY <1>4, PktPlain
    <2>2. ~In(f, "tx", q) /\ ~In(f, "kni", Primary)
      BY <2>1, HoldersHave DEF In
    <2>3. ~In(f, "burst", q)'
      BY <1>4, InIsNext
    <2>4. \A h \in Holders : Has(f, h)' => h = <<"dispatch", j>>
      BY <1>1, <1>2, <2>1, <2>2, <2>3
    <2>5. Single(f)'
      BY <2>1, <2>4, HoldersHave, SinglePlaced
    <2> QED BY <1>4, <2>5 DEF FrameOK
  <1> QED BY <1>3, <1>4

LEMMA HandOverStep ==
  ASSUME DispatchInv, Conserved, NEW q \in Queues, HandOver(q)
  PROVE  DispatchInv' /\ Conserved'
  <1>1. PICK j \in Queues \ {q} :
          IF Len(dispatch[j]) < RingCapacity
          THEN dispatch' = [dispatch EXCEPT ![j] = Append(dispatch[j], Pkt(q))] /\ pool' = pool
          ELSE pool' = pool + 1 /\ dispatch' = dispatch
    BY DEF HandOver
  <1>2. /\ proc[q].pc = "packet" /\ proc[q].pc \in {"packet", "input"} /\ ~proc[q].ring
        /\ NextPacket(q) /\ gone' = gone \cup {Pkt(q)}
        /\ kni' = kni /\ tx' = tx /\ knictl' = knictl /\ seen' = seen /\ flag' = flag
    BY DEF HandOver, Asked
  <1>3. PICK p \in Frames : p = Pkt(q)
    BY <1>2, NextPacketIs
  <1>4. /\ p \in ToSet(proc[q].burst)
        /\ proc' = [proc EXCEPT ![q] = proc'[q]] /\ Good(proc'[q])
        /\ Len(proc[q].burst) \in Nat /\ Len(proc[q].burst) > 0
        /\ Len(proc'[q].burst) = Len(proc[q].burst) - 1
        /\ ToSet(proc'[q].burst) = ToSet(proc[q].burst) \ {p}
        /\ \A f : Fewer(f, q) /\ (f = p => ~Original(f, q)')
    BY <1>2, <1>3, NextPacketIs
  <1>5. Len(proc'[q].burst) \in Nat /\ Len(proc[q].burst) = Len(proc'[q].burst) + 1
    BY <1>4
  <1>6. CASE Len(dispatch[j]) < RingCapacity
    <2>1. dispatch' = [dispatch EXCEPT ![j] = Append(dispatch[j], p)] /\ pool' = pool
      BY <1>1, <1>3, <1>6
    <2>2. dispatch' = [dispatch EXCEPT ![j] = dispatch'[j]] /\ dispatch'[j] = Append(dispatch[j], p)
      BY <2>1 DEF DispatchInv, TypeOK
    <2>3. ToCopy(p, q, j)
      BY <1>2 DEF ToCopy
    <2>4. p \notin ToSet(dispatch[j])
      BY <1>2, <1>4, <2>3, PktPlain, PktArp
    <2>5. /\ Fits(dispatch'[j], RingCapacity) /\ Len(dispatch'[j]) = Len(dispatch[j]) + 1
          /\ ToSet(dispatch'[j]) = ToSet(dispatch[j]) \cup {p}
      <3>1. Fits(dispatch[j], RingCapacity) /\ Len(dispatch[j]) \in Nat
        BY Types
      <3> QED BY <3>1, <1>6, <2>2, <2>4, Sizes, SeqAppend DEF Fits
    <2>6. Touches(q, j)
      <3>1. /\ pool' \in Nat
            /\ pool' + Len(proc'[q].burst) + Len(dispatch'[j]) + Len(tx'[q]) + Len(kni')
              = pool + Len(proc[q].burst) + Len(dispatch[j]) + Len(tx[q]) + Len(kni)
        <4> DEFINE m == pool
                   m1 == pool'
                   a == Len(proc[q].burst)
                   a1 == Len(proc'[q].burst)
                   b == Len(dispatch[j])
                   b1 == Len(dispatch'[j])
                   c == Len(tx[q])
                   c1 == Len(tx'[q])
                   d == Len(kni)
                   d1 == Len(kni')
        <4>1. /\ m \in Nat /\ a \in Nat /\ b \in Nat /\ c \in Nat /\ d \in Nat
             /\ m1 \in Nat /\ a1 \in Nat /\ b1 \in Nat /\ c1 \in Nat /\ d1 \in Nat
          BY <1>2, <1>5, <2>1, <2>5, Types
        <4>2. m1 = m /\ a = a1 + 1 /\ b1 = b + 1 /\ c1 = c /\ d1 = d
          BY <1>2, <1>5, <2>1, <2>5
        <4> HIDE DEF m, m1, a, a1, b, b1, c, c1, d, d1
        <4>3. m1 + a1 + b1 + c1 + d1 = m + a + b + c + d
          BY <4>1, <4>2
        <4> QED BY <4>1, <4>3 DEF m, m1, a, a1, b, b1, c, c1, d, d1
      <3>2. gone' \subseteq Frames
        BY <1>2, <1>3, Types
      <3> QED BY <3>1, <3>2, <1>2, <1>4, <2>2, <2>5, Types, KeptSame DEF Touches
    <2>7. ASSUME NEW f \in Frames  PROVE FrameOK(f)'
      <3>1. CASE f = p
        <4>1. f \in ToSet(proc[q].burst) /\ f \notin ToSet(proc'[q].burst) /\ ToCopy(f, q, j)
              /\ Fewer(f, q) /\ ~Original(f, q)'
          BY <1>4, <2>3, <3>1
        <4> QED BY <1>2, <2>6, <4>1, FrameToRing
      <3>2. CASE f # p
        BY <1>2, <1>4, <2>5, <2>6, <3>2, FrameKept
      <3> QED BY <3>1, <3>2
    <2> QED BY <2>6, <2>7, TouchesInv
  <1>7. CASE ~(Len(dispatch[j]) < RingCapacity)
    <2>1. dispatch' = dispatch /\ pool' = pool + 1
      BY <1>1, <1>7
    <2>2. Touches(q, q)
      <3>1. /\ pool' \in Nat
            /\ pool' + Len(proc'[q].burst) + Len(dispatch'[q]) + Len(tx'[q]) + Len(kni')
              = pool + Len(proc[q].burst) + Len(dispatch[q]) + Len(tx[q]) + Len(kni)
        <4> DEFINE m == pool
                   m1 == pool'
                   a == Len(proc[q].burst)
                   a1 == Len(proc'[q].burst)
                   b == Len(dispatch[q])
                   b1 == Len(dispatch'[q])
                   c == Len(tx[q])
                   c1 == Len(tx'[q])
                   d == Len(kni)
                   d1 == Len(kni')
        <4>1. /\ m \in Nat /\ a \in Nat /\ b \in Nat /\ c \in Nat /\ d \in Nat
             /\ m1 \in Nat /\ a1 \in Nat /\ b1 \in Nat /\ c1 \in Nat /\ d1 \in Nat
          BY <1>2, <1>5, <2>1, Types
        <4>2. m1 = m + 1 /\ a = a1 + 1 /\ b1 = b /\ c1 = c /\ d1 = d
          BY <1>2, <1>5, <2>1
        <4> HIDE DEF m, m1, a, a1, b, b1, c, c1, d, d1
        <4>3. m1 + a1 + b1 + c1 + d1 = m + a + b + c + d
          BY <4>1, <4>2
        <4> QED BY <4>1, <4>3 DEF m, m1, a, a1, b, b1, c, c1, d, d1
      <3>2. gone' \subseteq Frames
        BY <1>2, <1>3, Types
      <3> QED BY <3>1, <3>2, <1>2, <1>4, <2>1, Types, KeptSame DEF Touches
    <2>3. ASSUME NEW f \in Frames  PROVE FrameOK(f)'
      BY <1>2, <1>4, <2>1, <2>2, FrameKept
    <2> QED BY <2>2, <2>3, TouchesInv
  <1> QED BY <1>6, <1>7

LEMMA CopyStep ==
  ASSUME DispatchInv, Conserved, NEW q \in Queues, Copy(q)
  PROVE  DispatchInv' /\ Conserved'
  <1> DEFINE P == proc'[q]
  <1>1. Good(proc[q])
    BY StateFits
  <1>2. PICK j \in Queues : j = proc[q].to
    BY <1>1 DEF Good
  <1>3. /\ proc[q].pc = "copy" /\ Copied(q)
        /\ kni' = kni /\ tx' = tx /\ knictl' = knictl /\ seen' = seen /\ flag' = flag
        /\ IF j = q \/ pool = 0 \/ Len(dispatch[j]) = RingCapacity
           THEN /\ gone' = IF j = q THEN gone ELSE gone \cup {Pkt(q)}
                /\ pool' = pool /\ dispatch' = dispatch
           ELSE /\ dispatch' = [dispatch EXCEPT ![j] = Append(dispatch[j], Pkt(q))]
                /\ pool' = pool - 1 /\ gone' = gone
    BY <1>2 DEF Copy
  <1>4. /\ proc[q] \in [pc : ProcPC, burst : Seq(Frames), ring : BOOLEAN, to : Queues]
        /\ proc[q].burst \in Seq(Frames) /\ IsInjective(proc[q].burst)
        /\ proc[q].burst # <<>> /\ ~proc[q].ring /\ FilterOf[Pkt(q)] = "FILTER_ARP"
    BY <1>1, <1>3 DEF Good, Fits, Pkt
  <1>5. PICK p \in Frames : p = Pkt(q) /\ p \in ToSet(proc[q].burst)
    BY <1>4, SeqTail DEF Pkt
  <1>6. PICK i \in Queues : /\ i = (j + 1) % NbQueues
                            /\ i = 0 \/ i = j + 1
    <2>1. j \in Nat /\ j + 1 <= NbQueues /\ NbQueues \in Nat /\ NbQueues > 0
      BY Sizes
    <2>2. (j + 1) % NbQueues = IF j + 1 = NbQueues THEN 0 ELSE j + 1
      BY <2>1
    <2> QED BY <2>1, <2>2, Sizes DEF Queues
  <1>7. /\ proc' = [proc EXCEPT ![q] = P]
        /\ P = [proc[q] EXCEPT !.to = i, !.pc = IF i = 0 THEN "input" ELSE "copy"]
    BY <1>2, <1>3, <1>6 DEF Copied, DispatchInv, TypeOK
  <1> HIDE DEF P
  <1>8. /\ P \in [pc : ProcPC, burst : Seq(Frames), ring : BOOLEAN, to : Queues]
        /\ P.burst = proc[q].burst /\ P.ring = proc[q].ring /\ P.to = i
        /\ P.pc = IF i = 0 THEN "input" ELSE "copy"
    BY <1>4, <1>7 DEF ProcPC
  <1>9. Good(P)
    BY <1>1, <1>4, <1>8 DEF Good, Pkt
  <1>10. ASSUME NEW f
         PROVE  Fewer(f, q) /\ (f = p => ~ToCopy(f, q, j)')
    <2>1. Original(f, q)' <=> Original(f, q)
      BY <1>8, InIs, InIsNext DEF Original, P
    <2>2. \A k \in Queues : ToCopy(f, q, k) <=> ~(f = p /\ k < j)
      BY <1>2, <1>3, <1>5 DEF ToCopy
    <2>3. \A k \in Queues : ToCopy(f, q, k)' <=> ~(f = p /\ (i = 0 \/ k < i))
      BY <1>5, <1>8 DEF ToCopy, Pkt, P
    <2>4. \A k \in Queues : k < j => i = 0 \/ k < i
      BY <1>6, Sizes
    <2>5. i = 0 \/ j < i
      BY <1>6, Sizes
    <2> QED BY <2>1, <2>2, <2>3, <2>4, <2>5 DEF Fewer
  <1>11. CASE j = q \/ pool = 0 \/ Len(dispatch[j]) = RingCapacity
    <2>1. gone' \subseteq Frames /\ pool' = pool /\ dispatch' = dispatch
      BY <1>3, <1>5, <1>11, Types
    <2>2. knictl' \in [Queues -> KniActions \cup {"DEFAULT"}]
      BY <1>3, Types
    <2>3. proc' = [proc EXCEPT ![q] = proc'[q]] /\ Good(proc'[q]) /\ proc'[q].burst = proc[q].burst
      BY <1>7, <1>8, <1>9 DEF P
    <2> QED BY <1>3, <1>10, <2>1, <2>2, <2>3, IdleStep
  <1>12. CASE ~(j = q \/ pool = 0 \/ Len(dispatch[j]) = RingCapacity)
    <2>1. /\ dispatch' = [dispatch EXCEPT ![j] = Append(dispatch[j], p)]
          /\ pool' = pool - 1 /\ gone' = gone /\ j \in Queues \ {q}
      BY <1>3, <1>5, <1>12
    <2>2. dispatch' = [dispatch EXCEPT ![j] = dispatch'[j]] /\ dispatch'[j] = Append(dispatch[j], p)
      BY <2>1 DEF DispatchInv, TypeOK
    <2>3. ToCopy(p, q, j)
      BY <1>2, <1>3, Sizes DEF ToCopy
    <2>4. p \notin ToSet(dispatch[j])
      BY <1>4, <1>5, <2>1, <2>3, PktArp
    <2>5. /\ Fits(dispatch'[j], RingCapacity) /\ Len(dispatch'[j]) = Len(dispatch[j]) + 1
          /\ ToSet(dispatch'[j]) = ToSet(dispatch[j]) \cup {p}
      <3>1. Fits(dispatch[j], RingCapacity) /\ Len(dispatch[j]) \in Nat
        BY Types
      <3>2. Len(dispatch[j]) < RingCapacity
        BY <1>12, <3>1, Sizes DEF Fits
      <3> QED BY <3>1, <3>2, <2>2, <2>4, Sizes, SeqAppend DEF Fits
    <2>6. Touches(q, j)
      <3>0. pool' \in Nat /\ pool = pool' + 1
        BY <1>12, <2>1, Types
      <3>1. /\ pool' \in Nat
            /\ pool' + Len(proc'[q].burst) + Len(dispatch'[j]) + Len(tx'[q]) + Len(kni')
              = pool + Len(proc[q].burst) + Len(dispatch[j]) + Len(tx[q]) + Len(kni)
        <4> DEFINE m == pool
                   m1 == pool'
                   a == Len(proc[q].burst)
                   a1 == Len(proc'[q].burst)
                   b == Len(dispatch[j])
                   b1 == Len(dispatch'[j])
                   c == Len(tx[q])
                   c1 == Len(tx'[q])
                   d == Len(kni)
                   d1 == Len(kni')
        <4>1. /\ m \in Nat /\ a \in Nat /\ b \in Nat /\ c \in Nat /\ d \in Nat
             /\ m1 \in Nat /\ a1 \in Nat /\ b1 \in Nat /\ c1 \in Nat /\ d1 \in Nat
          BY <1>3, <1>8, <3>0, <2>5, Types DEF P
        <4>2. m = m1 + 1 /\ a = a1 /\ b1 = b + 1 /\ c1 = c /\ d1 = d
          BY <1>3, <1>8, <3>0, <2>5 DEF P
        <4> HIDE DEF m, m1, a, a1, b, b1, c, c1, d, d1
        <4>3. m1 + a1 + b1 + c1 + d1 = m + a + b + c + d
          BY <4>1, <4>2
        <4> QED BY <4>1, <4>3 DEF m, m1, a, a1, b, b1, c, c1, d, d1
      <3> QED BY <3>1, <1>3, <1>7, <1>9, <2>1, <2>2, <2>5, Types, KeptSame DEF Touches, P
    <2>7. ASSUME NEW f \in Frames  PROVE FrameOK(f)'
      <3>1. CASE f = p
        <4>1. /\ f \in ToSet(proc[q].burst) /\ ToCopy(f, q, j) /\ FilterOf[f] = "FILTER_ARP"
              /\ Fewer(f, q) /\ ~ToCopy(f, q, j)'
          BY <1>4, <1>5, <1>10, <2>3, <3>1
        <4>2. j \in Queues \ {q} /\ seen'[f] = seen[f]
          BY <1>3, <2>1
        <4> QED BY <1>3, <1>4, <2>6, <4>1, <4>2, FrameToRing
      <3>2. CASE f # p
        <4>1. /\ f \in ToSet(proc'[q].burst) => f \in ToSet(proc[q].burst)
              /\ f \in ToSet(dispatch'[j]) => f \in ToSet(dispatch[j])
          BY <1>8, <2>5, <3>2 DEF P
        <4>2. Fewer(f, q) /\ seen'[f] = seen[f]
          BY <1>3, <1>10
        <4> QED BY <1>3, <2>6, <4>1, <4>2, FrameKept
      <3> QED BY <3>1, <3>2
    <2> QED BY <2>6, <2>7, TouchesInv
  <1> QED BY <1>11, <1>12

\* A packet of process q is queued in its table, or leaves with it.
LEMMA SendStep ==
  ASSUME DispatchInv, Conserved, NEW q \in Queues, NEW p \in Frames,
         p \in ToSet(proc[q].burst), ~proc[q].ring,
         proc' = [proc EXCEPT ![q] = proc'[q]], Good(proc'[q]),
         Len(proc'[q].burst) \in Nat, Len(proc[q].burst) = Len(proc'[q].burst) + 1,
         ToSet(proc'[q].burst) = ToSet(proc[q].burst) \ {p},
         \A f : Fewer(f, q) /\ (f = p => ~Original(f, q)'),
         send_single_packet(q, p), UNCHANGED <<dispatch, kni, knictl, flag>>
  PROVE  DispatchInv' /\ Conserved'
  <1>1. dispatch' = dispatch /\ kni' = kni /\ knictl' = knictl /\ flag' = flag
    OBVIOUS
  <1>2. p \notin ToSet(tx[q])
    BY PktPlain, PktArp
  <1>3. /\ tx' = [tx EXCEPT ![q] = tx'[q]] /\ Fits(tx'[q], MAX_PKT_BURST - 1)
        /\ seen' \in [Frames -> [Sinks -> Nat]] /\ gone' \subseteq Frames
        /\ pool' \in Nat /\ pool' + Len(tx'[q]) = pool + Len(tx[q]) + 1
        /\ \/ ToSet(tx'[q]) = ToSet(tx[q]) \cup {p} /\ \A f \in Frames : seen'[f] = seen[f]
           \/ /\ ToSet(tx'[q]) = {}
              /\ \A f \in Frames : seen'[f] = seen[f]
                                   \/ ((f \in ToSet(tx[q]) \/ f = p) /\ Got(f, Wire))
    BY <1>2, SendSingleIs
  <1>4. Touches(q, q)
    <2>0. Len(tx'[q]) \in Nat
      BY <1>3 DEF Fits
    <2>1. /\ pool' \in Nat
          /\ pool' + Len(proc'[q].burst) + Len(dispatch'[q]) + Len(tx'[q]) + Len(kni')
              = pool + Len(proc[q].burst) + Len(dispatch[q]) + Len(tx[q]) + Len(kni)
      <3> DEFINE m == pool
                 m1 == pool'
                 a == Len(proc[q].burst)
                 a1 == Len(proc'[q].burst)
                 b == Len(dispatch[q])
                 b1 == Len(dispatch'[q])
                 c == Len(tx[q])
                 c1 == Len(tx'[q])
                 d == Len(kni)
                 d1 == Len(kni')
      <3>1. /\ m \in Nat /\ a \in Nat /\ b \in Nat /\ c \in Nat /\ d \in Nat
           /\ m1 \in Nat /\ a1 \in Nat /\ b1 \in Nat /\ c1 \in Nat /\ d1 \in Nat
        BY <1>1, <1>3, <2>0, Types
      <3>2. m1 + c1 = m + c + 1 /\ a = a1 + 1 /\ b1 = b /\ d1 = d
        BY <1>1, <1>3
      <3> HIDE DEF m, m1, a, a1, b, b1, c, c1, d, d1
      <3>3. m1 + a1 + b1 + c1 + d1 = m + a + b + c + d
        BY <3>1, <3>2
      <3> QED BY <3>1, <3>3 DEF m, m1, a, a1, b, b1, c, c1, d, d1
    <2> QED BY <2>1, <1>1, <1>3, Types, KeptSame DEF Touches
  <1>5. ASSUME NEW f \in Frames, f # p \/ seen'[f] = seen[f], ToSet(tx'[q]) = {}
        PROVE  FrameOK(f)'
    <2>1. seen'[f] = seen[f] \/ (f \in ToSet(tx[q]) /\ Got(f, Wire))
      BY <1>3, <1>5
    <2>2. CASE seen'[f] = seen[f]
      BY <1>1, <1>4, <1>5, <2>2, FrameKept
    <2>3. CASE f \in ToSet(tx[q]) /\ Got(f, Wire)
      BY <1>1, <1>4, <1>5, <2>3, FrameSent
    <2> QED BY <2>1, <2>2, <2>3
  <1>6. ASSUME NEW f \in Frames, f = p, Got(f, Wire), ToSet(tx'[q]) = {}
        PROVE  FrameOK(f)'
    BY <1>1, <1>4, <1>6, FrameSent
  <1>7. ASSUME NEW f \in Frames, ToSet(tx'[q]) = ToSet(tx[q]) \cup {p}, seen'[f] = seen[f]
        PROVE  FrameOK(f)'
    <2>1. CASE f # p
      BY <1>1, <1>4, <1>7, <2>1, FrameKept
    <2>2. CASE f = p
      <3>1. \A h \in Holders : Has(f, h)' =>
              \/ h \notin {<<"burst", q>>, <<"dispatch", q>>, <<"tx", q>>, <<"kni", Primary>>}
                 /\ Has(f, h)
              \/ h = <<"burst", q>> /\ In(f, "burst", q)'
              \/ h = <<"dispatch", q>> /\ In(f, "dispatch", q)'
              \/ h = <<"tx", q>> /\ In(f, "tx", q)'
              \/ h = <<"kni", Primary>> /\ In(f, "kni", Primary)'
        BY <1>4, TouchesFrame
      <3>2. /\ f \in ToSet(proc[q].burst) /\ f \notin ToSet(proc'[q].burst)
            /\ Fewer(f, q) /\ ~Original(f, q)'
        BY <2>2
      <3>3. /\ ~In(f, "burst", q)'
            /\ In(f, "dispatch", q)' <=> In(f, "dispatch", q)
            /\ In(f, "kni", Primary)' <=> In(f, "kni", Primary)
        BY <1>1, <1>4, <3>2, TouchesFrame
      <3>4. CASE FilterOf[f] = "FILTER_ARP"
        <4>1. Spread(f) /\ Original(f, q)
          BY <3>2, <3>4, PktArp
        <4>2. \A h \in Holders : Has(f, h)' => Has(f, h) \/ h = <<"tx", q>>
          BY <3>1, <3>3 DEF In
        <4>3. \A r \in Queues \ {q} : Original(f, r)' => Original(f, r)
          <5>1. \A r \in Queues \ {q} : Fewer(f, r)
            BY <1>4, TouchesFrame
          <5> QED BY <5>1 DEF Fewer
        <4>4. \A r \in Queues : ~Original(f, r)'
          BY <3>2, <4>1, <4>3 DEF Spread
        <4>5. Spread(f)'
          BY <1>7, <4>1, <4>2, <4>4, SpreadToTx
        <4> QED BY <3>4, <4>5 DEF FrameOK
      <3>5. CASE FilterOf[f] # "FILTER_ARP"
        <4>1. /\ \A h \in Holders : Has(f, h) => h = <<"burst", q>>
              /\ \A s \in Sinks : seen[f][s] = 0
          BY <3>2, <3>5, PktPlain
        <4>2. ~In(f, "dispatch", q) /\ ~In(f, "kni", Primary)
          BY <4>1, HoldersHave DEF In
        <4>3. \A h \in Holders : Has(f, h)' => h = <<"tx", q>>
          BY <3>1, <3>3, <4>1, <4>2
        <4>4. Single(f)'
          BY <1>7, <4>1, <4>3, HoldersHave, SinglePlaced
        <4> QED BY <3>5, <4>4 DEF FrameOK
      <3> QED BY <3>4, <3>5
    <2> QED BY <2>1, <2>2
  <1>8. \A f \in Frames : FrameOK(f)'
    BY <1>3, <1>5, <1>6, <1>7
  <1> QED BY <1>4, <1>8, TouchesInv

LEMMA RespondStep ==
  ASSUME DispatchInv, Conserved, NEW q \in Queues, Respond(q)
  PROVE  DispatchInv' /\ Conserved'
  <1>1. /\ proc[q].pc \in {"packet", "input"} /\ ~proc[q].ring /\ NextPacket(q)
        /\ send_single_packet(q, Pkt(q)) /\ UNCHANGED <<dispatch, kni, knictl, flag>>
    BY DEF Respond, Asked
  <1>2. PICK p \in Frames : p = Pkt(q)
    BY <1>1, NextPacketIs
  <1>3. /\ p \in ToSet(proc[q].burst)
        /\ proc' = [proc EXCEPT ![q] = proc'[q]] /\ Good(proc'[q])
        /\ Len(proc[q].burst) \in Nat /\ Len(proc[q].burst) > 0
        /\ Len(proc'[q].burst) = Len(proc[q].burst) - 1
        /\ ToSet(proc'[q].burst) = ToSet(proc[q].burst) \ {p}
        /\ \A f : Fewer(f, q) /\ (f = p => ~Original(f, q)')
    BY <1>1, <1>2, NextPacketIs
  <1>4. Len(proc'[q].burst) \in Nat /\ Len(proc[q].burst) = Len(proc'[q].burst) + 1
    BY <1>3
  <1>5. send_single_packet(q, p)
    BY <1>1, <1>2
  <1> QED BY <1>1, <1>3, <1>4, <1>5, SendStep

LEMMA SendCopyStep ==
  ASSUME DispatchInv, Conserved, NEW q \in Queues, SendCopy(q)
  PROVE  DispatchInv' /\ Conserved'
  <1> DEFINE P == proc'[q]
  <1>1. /\ proc[q].pc = "send" /\ send_single_packet(q, Pkt(q))
        /\ proc' = [proc EXCEPT ![q].pc = "loop", ![q].burst = <<>>]
        /\ UNCHANGED <<dispatch, kni, knictl, flag>>
    BY DEF SendCopy
  <1>2. Good(proc[q])
    BY StateFits
  <1>3. /\ proc[q] \in [pc : ProcPC, burst : Seq(Frames), ring : BOOLEAN, to : Queues]
        /\ proc[q].burst \in Seq(Frames) /\ IsInjective(proc[q].burst)
        /\ proc[q].burst # <<>> /\ ~proc[q].ring /\ proc[q].to = 0 /\ Len(proc[q].burst) = 1
    BY <1>1, <1>2 DEF Good, Fits
  <1>4. PICK p \in Frames : p = Pkt(q) /\ ToSet(proc[q].burst) = {p}
    <2>1. Pkt(q) \in Frames /\ Pkt(q) = proc[q].burst[1] /\ DOMAIN proc[q].burst = 1..1
      BY <1>3 DEF Pkt
    <2> QED BY <2>1 DEF ToSet
  <1>5. proc' = [proc EXCEPT ![q] = P] /\ P = [proc[q] EXCEPT !.pc = "loop", !.burst = <<>>]
    BY <1>1 DEF DispatchInv, TypeOK
  <1> HIDE DEF P
  <1>6. /\ P \in [pc : ProcPC, burst : Seq(Frames), ring : BOOLEAN, to : Queues]
        /\ P.burst = <<>> /\ P.pc = "loop" /\ P.ring = proc[q].ring /\ P.to = proc[q].to
    BY <1>3, <1>5, EmptyFacts DEF ProcPC
  <1>7. Good(P) /\ Len(P.burst) = 0 /\ ToSet(P.burst) = {}
    BY <1>3, <1>6, EmptyFacts, Sizes DEF Good, Fits
  <1>8. /\ Good(proc'[q]) /\ Len(proc'[q].burst) \in Nat
        /\ Len(proc[q].burst) = Len(proc'[q].burst) + 1
        /\ ToSet(proc'[q].burst) = ToSet(proc[q].burst) \ {p}
        /\ proc' = [proc EXCEPT ![q] = proc'[q]]
    BY <1>3, <1>4, <1>5, <1>7 DEF P
  <1>9. \A f : ~Original(f, q)'
    BY <1>7, InIsNext DEF Original, P
  <1>10. \A f : Fewer(f, q) /\ (f = p => ~Original(f, q)')
    BY <1>9 DEF Fewer
  <1>11. send_single_packet(q, p) /\ p \in ToSet(proc[q].burst)
    BY <1>1, <1>4
  <1> QED BY <1>1, <1>3, <1>8, <1>10, <1>11, SendStep

\* The buffer of a packet that ff_veth_process_packet is given is free or held.
LEMMA ProcessPacketIs ==
  ASSUME DispatchInv, NEW q \in Queues, NEW free \in Nat, ff_veth_process_packet(q, free)
  PROVE  FlagOK' /\ pool' \in Nat /\ pool' + Kept' = free + Kept + 1
  <1>1. /\ flag \in [Queues -> 0..(Warmup + Slots - 1)]
        /\ Warmup \in Nat /\ Slots \in Nat \ {0}
    BY DispatchAssumption DEF DispatchInv, TypeOK
  <1>2. PICK k \in 0..(Warmup + Slots - 1) : k = flag[q]
    BY <1>1
  <1>3. PICK n \in 0..(Warmup + Slots - 1) :
          /\ flag' = [flag EXCEPT ![q] = n] /\ pool' \in Nat
          /\ pool' + Held(n) = free + Held(k) + 1
    <2>1. CASE k < Warmup
      <3>1. PICK m \in 0..(Warmup + Slots - 1) : m = k + 1
        BY <1>1, <2>1
      <3>2. pool' = free + 1 /\ flag' = [flag EXCEPT ![q] = m]
        BY <1>1, <1>2, <2>1, <3>1 DEF ff_veth_process_packet
      <3>3. Held(k) = 0 /\ Held(m) = 0
        BY <1>1, <2>1, <3>1 DEF Held
      <3>4. pool' \in Nat /\ pool' + Held(m) = free + Held(k) + 1
        BY <3>2, <3>3
      <3> QED BY <3>2, <3>4
    <2>2. CASE ~(k < Warmup) /\ k < Warmup + Slots - 1
      <3>1. PICK m \in 0..(Warmup + Slots - 1) : m = k + 1
        BY <1>1, <2>2
      <3>2. pool' = free /\ flag' = [flag EXCEPT ![q] = m]
        BY <1>1, <1>2, <2>2, <3>1 DEF ff_veth_process_packet
      <3>3. Held(k) \in Nat /\ Held(m) = Held(k) + 1
        BY <1>1, <2>2, <3>1 DEF Held
      <3>4. pool' \in Nat /\ pool' + Held(m) = free + Held(k) + 1
        BY <3>2, <3>3
      <3> QED BY <3>2, <3>4
    <2>3. CASE ~(k < Warmup) /\ ~(k < Warmup + Slots - 1)
      <3>1. PICK m \in 0..(Warmup + Slots - 1) : m = Warmup
        BY <1>1
      <3>2. pool' = free + Slots /\ flag' = [flag EXCEPT ![q] = m]
        BY <1>1, <1>2, <2>3, <3>1 DEF ff_veth_process_packet
      <3>3. Held(m) = 0 /\ Held(k) = Slots - 1
        BY <1>1, <2>3, <3>1 DEF Held
      <3>4. pool' \in Nat /\ pool' + Held(m) = free + Held(k) + 1
        BY <1>1, <3>2, <3>3
      <3> QED BY <3>2, <3>4
    <2> QED BY <2>1, <2>2, <2>3
  <1>4. FlagOK'
    BY <1>1, <1>3 DEF FlagOK
  <1>5. /\ flag \in [Queues -> Nat] /\ flag' \in [Queues -> Nat] /\ flag'[q] = n
        /\ \A r \in Queues \ {q} : flag'[r] = flag[r]
    BY <1>1, <1>3
  <1>6. Kept \in Nat /\ Kept' \in Nat /\ Kept' + Held(k) = Kept + Held(n)
    BY <1>2, <1>5, HeldResize DEF Kept
  <1>7. Held(n) \in Nat /\ Held(k) \in Nat
    BY <1>1 DEF Held
  <1>8. pool' + Kept' = free + Kept + 1
    <2>1. PICK u \in Nat, v \in Nat : u = Held(n) /\ v = Held(k)
      BY <1>7
    <2>2. PICK a \in Nat, b \in Nat, c \in Nat : a = pool' /\ b = Kept' /\ c = Kept
      BY <1>3, <1>6
    <2>3. a + u = free + v + 1 /\ b + v = c + u
      BY <1>3, <1>6, <2>1, <2>2
    <2>4. a + b = free + c + 1
      BY ONLY <2>3
    <2> QED BY <2>2, <2>4
  <1> QED BY <1>3, <1>4, <1>8

LEMMA VethInputIs ==
  ASSUME DispatchInv, NEW q \in Queues, NEW p \in Frames, NEW free \in Nat,
         ff_veth_input(q, p, free)
  PROVE  /\ seen' \in [Frames -> [Sinks -> Nat]] /\ gone' \subseteq Frames
         /\ \A f \in Frames : seen'[f] = seen[f] \/ (f = p /\ Got(f, q))
         /\ FlagOK' /\ pool' \in Nat /\ pool' + Kept' = free + Kept + 1
  <1>1. <<p>> \in Seq(Frames) /\ ToSet(<<p>>) = {p} /\ IsInjective(<<p>>) /\ q \in Sinks
    BY OneFacts, Sizes
  <1>2. CASE seen' = Given(q, <<p>>) /\ gone' = gone /\ ff_veth_process_packet(q, free)
    <2>1. /\ seen' \in [Frames -> [Sinks -> Nat]]
          /\ \A f \in Frames : IF f \in ToSet(<<p>>) THEN Got(f, q) ELSE seen'[f] = seen[f]
      BY <1>1, <1>2, GivenIs
    <2>2. FlagOK' /\ pool' \in Nat /\ pool' + Kept' = free + Kept + 1
      BY <1>2, ProcessPacketIs
    <2> QED BY <1>1, <1>2, <2>1, <2>2, Types
  <1>3. CASE gone' = gone \cup {p} /\ seen' = seen /\ flag' = flag /\ pool' = free + 1
    <2>1. FlagOK' /\ Kept' = Kept /\ Kept \in Nat
      BY <1>3, KeptSame, KeptIs DEF DispatchInv, TypeOK, FlagOK
    <2>2. pool' \in Nat /\ pool' + Kept' = free + Kept + 1
      BY <1>3, <2>1
    <2> QED BY <1>3, <2>1, <2>2, Types
  <1> QED BY <1>2, <1>3 DEF ff_veth_input

\* The packet of process q is handed to its interface, or to the kernel's ring, or
\* lost.
LEMMA InputStep ==
  ASSUME DispatchInv, Conserved, NEW q \in Queues, proc[q].pc = "input", NextPacket(q),
         NEW p \in Frames, p = Pkt(q),
         dispatch' = dispatch, tx' = tx, knictl' = knictl,
         seen' \in [Frames -> [Sinks -> Nat]], gone' \subseteq Frames,
         \A f \in Frames : seen'[f] = seen[f] \/ (f = p /\ Got(f, q)),
         FlagOK', pool' \in Nat,
         \/ kni' = kni /\ pool' + Kept' = pool + Kept + 1
         \/ /\ kni' = Append(kni, p) /\ pool' + Kept' = pool + Kept /\ Len(kni) < RingCapacity
            /\ IF FilterOf[p] = "FILTER_ARP" THEN q = Primary ELSE seen' = seen
  PROVE  DispatchInv' /\ Conserved'
  <1>0. Kept \in Nat /\ Kept' \in Nat
    BY KeptIs, KeptIsNext DEF DispatchInv, TypeOK, FlagOK
  <1>1. /\ p \in ToSet(proc[q].burst)
        /\ proc' = [proc EXCEPT ![q] = proc'[q]] /\ Good(proc'[q])
        /\ Len(proc[q].burst) \in Nat /\ Len(proc[q].burst) > 0
        /\ Len(proc'[q].burst) = Len(proc[q].burst) - 1
        /\ ToSet(proc'[q].burst) = ToSet(proc[q].burst) \ {p}
        /\ \A f : Fewer(f, q)
    BY NextPacketIs
  <1>2. Len(proc'[q].burst) \in Nat /\ Len(proc[q].burst) = Len(proc'[q].burst) + 1
    BY <1>1
  <1>3. /\ Fits(kni', RingCapacity) /\ pool' \in Nat /\ Len(kni') \in Nat
        /\ (pool' + Kept') + Len(kni') = (pool + Kept) + Len(kni) + 1
        /\ \/ ToSet(kni') = ToSet(kni)
           \/ /\ ToSet(kni') = ToSet(kni) \cup {p}
              /\ IF FilterOf[p] = "FILTER_ARP" THEN q = Primary ELSE seen' = seen
    <2>1. Fits(kni, RingCapacity) /\ Len(kni) \in Nat /\ pool \in Nat
      BY Types
    <2>2. CASE kni' = kni /\ pool' + Kept' = pool + Kept + 1
      BY <1>0, <2>1, <2>2
    <2>3. CASE /\ kni' = Append(kni, p) /\ pool' + Kept' = pool + Kept /\ Len(kni) < RingCapacity
               /\ IF FilterOf[p] = "FILTER_ARP" THEN q = Primary ELSE seen' = seen
      <3>1. p \notin ToSet(kni)
        BY <1>1, <2>3, PktPlain, PktArp
      <3>2. /\ kni' \in Seq(Frames) /\ Len(kni') = Len(kni) + 1 /\ IsInjective(kni')
            /\ ToSet(kni') = ToSet(kni) \cup {p}
        BY <2>1, <2>3, <3>1, SeqAppend DEF Fits
      <3>3. Fits(kni', RingCapacity) /\ pool' \in Nat /\ Len(kni') \in Nat
        BY <2>1, <2>3, <3>2, Sizes DEF Fits
      <3>4. (pool' + Kept') + Len(kni') = (pool + Kept) + Len(kni) + 1
        BY <1>0, <2>1, <2>3, <3>2
      <3> QED BY <2>3, <3>2, <3>3, <3>4
    <2> QED BY <2>2, <2>3
  <1>4. Touches(q, q)
    <2>1. /\ pool' \in Nat
          /\ pool' + Len(proc'[q].burst) + Len(dispatch'[q]) + Len(tx'[q]) + Len(kni') + Kept'
              = pool + Len(proc[q].burst) + Len(dispatch[q]) + Len(tx[q]) + Len(kni) + Kept
      <3> DEFINE m == pool
                 m1 == pool'
                 a == Len(proc[q].burst)
                 a1 == Len(proc'[q].burst)
                 b == Len(dispatch[q])
                 b1 == Len(dispatch'[q])
                 c == Len(tx[q])
                 c1 == Len(tx'[q])
                 d == Len(kni)
                 d1 == Len(kni')
                 k == Kept
                 k1 == Kept'
      <3>1. /\ m \in Nat /\ a \in Nat /\ b \in Nat /\ c \in Nat /\ d \in Nat
           /\ m1 \in Nat /\ a1 \in Nat /\ b1 \in Nat /\ c1 \in Nat /\ d1 \in Nat
           /\ k \in Nat /\ k1 \in Nat
        BY <1>0, <1>1, <1>2, <1>3, Types
      <3>2. (m1 + k1) + d1 = (m + k) + d + 1 /\ a = a1 + 1 /\ b1 = b /\ c1 = c
        BY <1>2, <1>3
      <3> HIDE DEF m, m1, a, a1, b, b1, c, c1, d, d1, k, k1
      <3>3. m1 + a1 + b1 + c1 + d1 + k1 = m + a + b + c + d + k
        <4>1. m1 + a1 + b1 + c1 + d1 + k1 = ((m1 + k1) + d1) + a1 + b + c
          BY <3>1, <3>2
        <4>2. m + a + b + c + d + k = ((m + k) + d + 1) + a1 + b + c
          BY <3>1, <3>2
        <4> QED BY <3>2, <4>1, <4>2
      <3> QED BY <3>1, <3>3 DEF m, m1, a, a1, b, b1, c, c1, d, d1, k, k1
    <2> QED BY <2>1, <1>1, <1>3, Types DEF Touches
  <1>5. ASSUME NEW f \in Frames, f # p  PROVE FrameOK(f)'
    <2>1. seen'[f] = seen[f] /\ (f \in ToSet(kni') => f \in ToSet(kni))
      BY <1>3, <1>5
    <2> QED BY <1>1, <1>4, <2>1, FrameKept
  <1>6. ASSUME NEW f \in Frames, f = p  PROVE FrameOK(f)'
    <2>1. \A h \in Holders : Has(f, h)' =>
          \/ h \notin {<<"burst", q>>, <<"dispatch", q>>, <<"tx", q>>, <<"kni", Primary>>}
             /\ Has(f, h)
          \/ h = <<"burst", q>> /\ In(f, "burst", q)'
          \/ h = <<"dispatch", q>> /\ In(f, "dispatch", q)'
          \/ h = <<"tx", q>> /\ In(f, "tx", q)'
          \/ h = <<"kni", Primary>> /\ In(f, "kni", Primary)'
      BY <1>4, TouchesFrame
    <2>2. /\ f \in ToSet(proc[q].burst) /\ f \notin ToSet(proc'[q].burst) /\ Fewer(f, q)
          /\ seen'[f] = seen[f] \/ Got(f, q)
      BY <1>1, <1>6
    <2>3. /\ ~In(f, "burst", q)'
          /\ In(f, "dispatch", q)' <=> In(f, "dispatch", q)
          /\ In(f, "tx", q)' <=> In(f, "tx", q)
          /\ In(f, "kni", Primary)' <=> f \in ToSet(kni')
          /\ In(f, "kni", Primary) <=> f \in ToSet(kni)
      BY <1>4, <2>2, TouchesFrame
    <2>4. CASE FilterOf[f] = "FILTER_ARP"
      <3>1. Spread(f) /\ In(f, "burst", q)
        BY <2>2, <2>4, PktArp
      <3>2. In(f, "kni", Primary)' => In(f, "kni", Primary) \/ q = Primary
        BY <1>3, <1>6, <2>3, <2>4
      <3>3. \A h \in Holders : Has(f, h)' =>
               Has(f, h) \/ (h = <<"kni", Primary>> /\ q = Primary)
        BY <2>1, <2>3, <3>2 DEF In
      <3>4. \A r \in Queues : Fewer(f, r)
        <4>1. \A r \in Queues \ {q} : Fewer(f, r)
          BY <1>4, TouchesFrame
        <4> QED BY <4>1, <2>2
      <3>5. Spread(f)'
        BY <2>2, <2>3, <3>1, <3>3, <3>4, Types, SpreadInput
      <3> QED BY <2>4, <3>5 DEF FrameOK
    <2>5. CASE FilterOf[f] # "FILTER_ARP"
      <3>1. /\ Single(f) /\ \A h \in Holders : Has(f, h) => h = <<"burst", q>>
            /\ \A s \in Sinks : seen[f][s] = 0
        BY <2>2, <2>5, PktPlain
      <3>2. ~In(f, "dispatch", q) /\ ~In(f, "tx", q) /\ ~In(f, "kni", Primary)
        BY <3>1, HoldersHave DEF In
      <3>3. \A h \in Holders : Has(f, h)' => h = <<"kni", Primary>> /\ In(f, "kni", Primary)'
        BY <2>1, <2>3, <3>1, <3>2
      <3>4. CASE seen'[f] = seen[f]
        BY <2>5, <3>1, <3>3, <3>4, HoldersHave, SinglePlaced DEF FrameOK
      <3>5. CASE Got(f, q) /\ seen'[f] # seen[f]
        <4>1. ~In(f, "kni", Primary)'
          BY <1>3, <1>6, <2>3, <2>5, <3>2, <3>5
        <4>2. \A h \in Holders : ~Has(f, h)'
          BY <3>3, <4>1
        <4>3. Has(f, <<"burst", q>>) /\ <<"burst", q>> \in Holders /\ q \in Sinks
          BY <2>2, InIs, HoldersHave, Sizes DEF In
        <4>4. Single(f)'
          BY <3>1, <3>5, <4>2, <4>3, SingleGiven
        <4> QED BY <2>5, <4>4 DEF FrameOK
      <3> QED BY <2>2, <3>4, <3>5
    <2> QED BY <2>4, <2>5
  <1> QED BY <1>4, <1>5, <1>6, TouchesInv

LEMMA InputArpStep ==
  ASSUME DispatchInv, Conserved, NEW q \in Queues, InputArp(q)
  PROVE  DispatchInv' /\ Conserved'
  <1>1. /\ proc[q].pc = "input" /\ FilterOf[Pkt(q)] = "FILTER_ARP" /\ NextPacket(q)
        /\ dispatch' = dispatch /\ tx' = tx /\ knictl' = knictl
        /\ \/ /\ q = Primary /\ pool > 0 /\ Len(kni) < RingCapacity
              /\ kni' = Append(kni, Pkt(q)) /\ ff_veth_input(q, Pkt(q), pool - 1)
           \/ kni' = kni /\ ff_veth_input(q, Pkt(q), pool)
    BY DEF InputArp
  <1>2. PICK p \in Frames : p = Pkt(q)
    BY <1>1, NextPacketIs
  <1>3. pool \in Nat /\ Kept \in Nat
    BY Types, KeptIs DEF DispatchInv, TypeOK, FlagOK
  <1>4. PICK free \in Nat :
          /\ ff_veth_input(q, p, free)
          /\ \/ kni' = kni /\ free = pool
             \/ kni' = Append(kni, p) /\ free + 1 = pool /\ Len(kni) < RingCapacity /\ q = Primary
    <2>1. CASE kni' = kni /\ ff_veth_input(q, Pkt(q), pool)
      BY <1>2, <1>3, <2>1
    <2>2. CASE /\ q = Primary /\ pool > 0 /\ Len(kni) < RingCapacity
               /\ kni' = Append(kni, Pkt(q)) /\ ff_veth_input(q, Pkt(q), pool - 1)
      <3>1. PICK m \in Nat : m = pool - 1
        BY <1>3, <2>2
      <3>2. ff_veth_input(q, p, m) /\ m + 1 = pool
        BY <1>2, <1>3, <2>2, <3>1
      <3> QED BY <1>2, <2>2, <3>2
    <2> QED BY <1>1, <2>1, <2>2
  <1>5. /\ seen' \in [Frames -> [Sinks -> Nat]] /\ gone' \subseteq Frames
        /\ \A f \in Frames : seen'[f] = seen[f] \/ (f = p /\ Got(f, q))
        /\ FlagOK' /\ pool' \in Nat /\ pool' + Kept' = free + Kept + 1
    BY <1>4, VethInputIs
  <1>6. \/ kni' = kni /\ pool' + Kept' = pool + Kept + 1
        \/ /\ kni' = Append(kni, p) /\ pool' + Kept' = pool + Kept /\ Len(kni) < RingCapacity
           /\ IF FilterOf[p] = "FILTER_ARP" THEN q = Primary ELSE seen' = seen
    <2>1. free + 1 = pool => free + Kept + 1 = pool + Kept
      BY <1>3
    <2> QED BY <1>1, <1>2, <1>4, <1>5, <2>1
  <1> QED BY <1>1, <1>2, <1>5, <1>6, InputStep

LEMMA InputOtherStep ==
  ASSUME DispatchInv, Conserved, NEW q \in Queues, InputOther(q)
  PROVE  DispatchInv' /\ Conserved'
  <1>1. /\ proc[q].pc = "input" /\ FilterOf[Pkt(q)] # "FILTER_ARP" /\ NextPacket(q)
        /\ dispatch' = dispatch /\ tx' = tx /\ knictl' = knictl
        /\ \/ ff_kni_enqueue(Pkt(q)) /\ seen' = seen /\ flag' = flag
           \/ ff_veth_input(q, Pkt(q), pool) /\ kni' = kni
    BY DEF InputOther
  <1>2. PICK p \in Frames : p = Pkt(q)
    BY <1>1, NextPacketIs
  <1>3. CASE ff_kni_enqueue(Pkt(q)) /\ seen' = seen /\ flag' = flag
    <2>0. FlagOK' /\ Kept' = Kept /\ Kept \in Nat /\ pool \in Nat
      BY <1>3, Types, KeptSame, KeptIs DEF DispatchInv, TypeOK, FlagOK
    <2>1. \/ kni' = kni /\ pool' = pool + 1 /\ gone' = gone \cup {p}
          \/ kni' = Append(kni, p) /\ pool' = pool /\ Len(kni) < RingCapacity /\ gone' = gone
      BY <1>2, <1>3 DEF ff_kni_enqueue
    <2>2. /\ seen' \in [Frames -> [Sinks -> Nat]] /\ gone' \subseteq Frames
          /\ \A f \in Frames : seen'[f] = seen[f] \/ (f = p /\ Got(f, q))
      BY <1>3, <2>1, Types
    <2>3. pool' \in Nat /\ (pool' = pool + 1 => pool' + Kept' = pool + Kept + 1)
      BY <2>0, <2>1
    <2>4. \/ kni' = kni /\ pool' + Kept' = pool + Kept + 1
          \/ /\ kni' = Append(kni, p) /\ pool' + Kept' = pool + Kept /\ Len(kni) < RingCapacity
             /\ IF FilterOf[p] = "FILTER_ARP" THEN q = Primary ELSE seen' = seen
      BY <1>1, <1>2, <1>3, <2>0, <2>1, <2>3
    <2> QED BY <1>1, <1>2, <2>0, <2>2, <2>3, <2>4, InputStep
  <1>4. CASE ff_veth_input(q, Pkt(q), pool) /\ kni' = kni
    <2>1. /\ seen' \in [Frames -> [Sinks -> Nat]] /\ gone' \subseteq Frames
          /\ \A f \in Frames : seen'[f] = seen[f] \/ (f = p /\ Got(f, q))
          /\ FlagOK' /\ pool' \in Nat /\ pool' + Kept' = pool + Kept + 1
      BY <1>2, <1>4, Types, VethInputIs
    <2> QED BY <1>1, <1>2, <1>4, <2>1, InputStep
  <1> QED BY <1>1, <1>3, <1>4

-----------------------------------------------------------------------------
(***************************************************************************)
(* The theorems.                                                           *)
(***************************************************************************)
LEMMA InitInv == Init => DispatchInv /\ Conserved
  <1> SUFFICES ASSUME Init  PROVE DispatchInv /\ Conserved
    OBVIOUS
  <1>1. /\ pool = NbMbufs /\ kni = <<>> /\ gone = {}
        /\ dispatch = [q \in Queues |-> <<>>] /\ tx = [q \in Queues |-> <<>>]
        /\ proc = [q \in Queues |-> [pc |-> "drain", burst |-> <<>>, ring |-> FALSE, to |-> 0]]
        /\ knictl = [q \in Queues |-> "DEFAULT"] /\ flag = [q \in Queues |-> 0]
        /\ seen = [f \in Frames |-> [s \in Sinks |-> 0]]
    BY DEF Init
  <1>2. /\ Fits(<<>>, RingCapacity) /\ Fits(<<>>, MAX_PKT_BURST) /\ Fits(<<>>, MAX_PKT_BURST - 1)
    BY EmptyFacts, Sizes DEF Fits
  <1>3. \A q \in Queues : Good(proc[q])
    <2>1. [pc |-> "drain", burst |-> <<>>, ring |-> FALSE, to |-> 0]
            \in [pc : ProcPC, burst : Seq(Frames), ring : BOOLEAN, to : Queues]
      BY EmptyFacts, Sizes DEF ProcPC
    <2>2. Good([pc |-> "drain", burst |-> <<>>, ring |-> FALSE, to |-> 0])
      BY <1>2, <2>1 DEF Good
    <2> QED BY <1>1, <2>2
  <1>4. \A q \in Queues : Fits(dispatch[q], RingCapacity) /\ Fits(tx[q], MAX_PKT_BURST - 1)
    BY <1>1, <1>2
  <1>5. TypeOK /\ ControlInv /\ OnceInv
    <2>1. /\ pool \in 0..NbMbufs /\ Fits(kni, RingCapacity)
          /\ knictl \in [Queues -> KniActions \cup {"DEFAULT"}]
          /\ seen \in [Frames -> [Sinks -> Nat]] /\ gone \subseteq Frames
      BY <1>1, <1>2, Sizes
    <2>3. FlagOK
      BY <1>1, DispatchAssumption DEF FlagOK
    <2>2. /\ dispatch = [q \in Queues |-> dispatch[q]] /\ proc = [q \in Queues |-> proc[q]]
          /\ tx = [q \in Queues |-> tx[q]]
      BY <1>1
    <2> QED BY <1>3, <1>4, <2>1, <2>2, <2>3, StateFitsBack
  <1>6. \A h \in Holders : Content[h] = <<>>
    <2>1. ASSUME NEW h \in Holders  PROVE Content[h] = <<>>
      <3>1. CASE h = <<"kni", Primary>>
        BY <1>1, <3>1, ContentIs
      <3>2. ASSUME NEW q \in Queues, h \in {<<"dispatch", q>>, <<"burst", q>>, <<"tx", q>>}
            PROVE  Content[h] = <<>>
        <4>1. dispatch[q] = <<>> /\ proc[q].burst = <<>> /\ tx[q] = <<>>
          BY <1>1
        <4> QED BY <3>2, <4>1, ContentIs
      <3> QED BY <3>1, <3>2, HolderIs
    <2> QED BY <2>1
  <1>7. \A f, h : h \in Holders => ~Has(f, h)
    BY <1>6, EmptyFacts DEF Has
  <1>8. FrameInv
    <2>1. ASSUME NEW f \in Frames  PROVE Spread(f) /\ Single(f)
      <3>1. \A s \in Sinks : seen[f][s] = 0
        BY <1>1
      <3>2. Single(f)
        BY <1>7, <3>1 DEF Single
      <3>3. /\ \A q \in Queues : ~In(f, "dispatch", q) /\ ~In(f, "burst", q) /\ ~In(f, "tx", q)
            /\ ~In(f, "kni", Primary)
        BY <1>7, HoldersHave DEF In
      <3>4. Spread(f)
        BY <3>1, <3>3, Sizes DEF Spread, Original
      <3> QED BY <3>2, <3>4
    <2> QED BY <2>1 DEF FrameInv
  <1>9. Conserved
    <2>1. Places(Content) = {}
      <3>1. \A h \in Holders : Len(Content[h]) = 0
        BY <1>6, EmptyFacts
      <3> QED BY <3>1 DEF Places
    <2>2. HeldPlaces(flag) = {}
      <3>1. \A q \in Queues : Held(flag[q]) = 0
        BY <1>1, DispatchAssumption DEF Held
      <3> QED BY <3>1 DEF HeldPlaces
    <2>3. Cardinality(HeldPlaces(flag)) = 0 /\ Cardinality(Places(Content)) = 0
      BY <2>1, <2>2, FS_EmptySet
    <2> QED BY <1>1, <2>3, Sizes DEF Conserved
  <1> QED BY <1>5, <1>8, <1>9 DEF DispatchInv

LEMMA NextInv ==
  DispatchInv /\ Conserved /\ [Next]_vars => DispatchInv' /\ Conserved'
  <1> SUFFICES ASSUME DispatchInv, Conserved, [Next]_vars  PROVE DispatchInv' /\ Conserved'
    OBVIOUS
  <1>1. ASSUME NEW q \in Queues, main_loop(q) \/ ff_dpdk_if_send(q)
        PROVE  DispatchInv' /\ Conserved'
    <2>1. CASE TxDrain(q)
      BY <2>1, TxDrainStep
    <2>2. CASE NoDrain(q)
      BY <2>2, NoDrainStep
    <2>3. CASE ff_kni_process(q)
      BY <2>3, KniProcessStep
    <2>4. CASE process_dispatch_ring(q)
      BY <2>4, DispatchRingStep
    <2>5. CASE rx_burst(q)
      BY <2>5, RxBurstStep
    <2>6. CASE Respond(q)
      BY <2>6, RespondStep
    <2>7. CASE Discard(q)
      BY <2>7, DiscardStep
    <2>8. CASE HandOver(q)
      BY <2>8, HandOverStep
    <2>9. CASE Filter(q)
      BY <2>9, FilterStep
    <2>10. CASE Copy(q)
      BY <2>10, CopyStep
    <2>11. CASE InputArp(q)
      BY <2>11, InputArpStep
    <2>12. CASE InputOther(q)
      BY <2>12, InputOtherStep
    <2>13. CASE SendCopy(q)
      BY <2>13, SendCopyStep
    <2>14. CASE Loop(q)
      BY <2>14, LoopStep
    <2>15. CASE ff_dpdk_if_send(q)
      BY <2>15, IfSendStep
    <2> QED BY <1>1, <2>1, <2>2, <2>3, <2>4, <2>5, <2>6, <2>7, <2>8, <2>9, <2>10, <2>11,
               <2>12, <2>13, <2>14, <2>15 DEF main_loop
  <1>2. CASE UNCHANGED vars
    <2>1. PICK q \in Queues : TRUE
      BY Sizes
    <2>2. /\ pool' = pool /\ dispatch' = dispatch /\ kni' = kni /\ tx' = tx /\ seen' = seen
          /\ knictl' = knictl /\ gone' = gone /\ proc' = proc /\ flag' = flag
      BY <1>2 DEF vars
    <2>3. Touches(q, q)
      BY <2>2, Types, KeptSame DEF Touches
    <2>4. ASSUME NEW f \in Frames  PROVE FrameOK(f)'
      <3>1. Original(f, q)' <=> Original(f, q)
        BY <2>2, InIs, InIsNext DEF Original
      <3>2. \A j \in Queues : ToCopy(f, q, j)' <=> ToCopy(f, q, j)
        BY <2>2 DEF ToCopy, Pkt
      <3>3. Fewer(f, q)
        BY <3>1, <3>2 DEF Fewer
      <3> QED BY <2>2, <2>3, <3>3, FrameKept
    <2> QED BY <2>3, <2>4, TouchesInv
  <1> QED BY <1>1, <1>2 DEF Next

\* Wherever the processes are in their loops, no ring, burst or table holds a
\* frame twice or more than it can, a frame that is not ARP is in one place, and
\* of an ARP packet there are copies only for the queues its process has passed
\* (process_packets, send_single_packet, ff_kni_enqueue).
THEOREM SpecDispatchInv == Spec => []DispatchInv
  <1>1. DispatchInv /\ Conserved /\ [Next]_vars => (DispatchInv /\ Conserved)'
    BY NextInv
  <1> QED BY InitInv, <1>1, PTL DEF Spec

\* No path through process_packets, send_burst, the KNI or the batches of
\* ff_veth_process_packet, with any ring full and the pool empty or not, loses a
\* buffer or frees it twice: it is free, in one place or held for an interface.
THEOREM SpecConserved == Spec => []Conserved
  <1>1. DispatchInv /\ Conserved /\ [Next]_vars => (DispatchInv /\ Conserved)'
    BY NextInv
  <1> QED BY InitInv, <1>1, PTL DEF Spec

LEMMA InvOneReceiver == DispatchInv => OneReceiver
  <1> SUFFICES ASSUME DispatchInv, NEW f \in Frames
               PROVE  /\ \A s \in Sinks : seen[f][s] <= 1
                      /\ FilterOf[f] # "FILTER_ARP" =>
                           Cardinality({s \in Sinks : seen[f][s] > 0}) <= 1
    BY DEF OneReceiver
  <1>1. IF FilterOf[f] = "FILTER_ARP" THEN Spread(f) ELSE Single(f)
    BY DEF DispatchInv, FrameInv
  <1>2. \A s \in Sinks : seen[f][s] <= 1
    BY <1>1 DEF Spread, Single
  <1>3. ASSUME FilterOf[f] # "FILTER_ARP"
        PROVE  Cardinality({s \in Sinks : seen[f][s] > 0}) <= 1
    <2> DEFINE G == {s \in Sinks : seen[f][s] > 0}
    <2>1. \A s, t \in G : s = t
      BY <1>1, <1>3 DEF Single
    <2>2. G = {} \/ \E s : G = {s}
      BY <2>1
    <2> HIDE DEF G
    <2>3. Cardinality(G) <= 1
      <3>1. CASE G = {}
        BY <3>1, FS_EmptySet
      <3>2. ASSUME NEW s, G = {s}  PROVE Cardinality(G) <= 1
        <4>1. Cardinality({s}) = 1
          BY FS_Singleton
        <4> QED BY <3>2, <4>1
      <3> QED BY <2>2, <3>1, <3>2
    <2> QED BY <2>3 DEF G
  <1> QED BY <1>2, <1>3

\* However many processes hand packets to each other, an interface, the kernel or
\* the wire is given a frame at most once, and a frame that is not ARP has one
\* receiver (pkts_from_ring in process_packets).
THEOREM SpecOneReceiver == Spec => []OneReceiver
  BY SpecDispatchInv, InvOneReceiver, PTL
=============================================================================
