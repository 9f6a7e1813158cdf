---------------------------- MODULE PacketProofs ----------------------------
(***************************************************************************)
(* Proofs about the packet layer, for all sizes of its cache, of packets   *)
(* and of calls, and any number of bytes.                                  *)
(***************************************************************************)
EXTENDS Packet, SequenceTheorems, TLAPS

-----------------------------------------------------------------------------
(* Sequences of bytes *)

\* The sequence s, cut into u and v.
Splits(s, u, v) ==
  /\ u \in Seq(Nat) /\ v \in Seq(Nat)
  /\ Increasing(u) /\ Increasing(v) /\ Before(ToSet(u), ToSet(v))
  /\ ToSet(s) = ToSet(u) \cup ToSet(v)

\* A memcpy of the first n bytes, and what is behind them.
LEMMA SplitFacts ==
  ASSUME NEW s \in Seq(Nat), Increasing(s), NEW n \in 0 .. Len(s)
  PROVE  /\ Splits(s, SubSeq(s, 1, n), SubSeq(s, n + 1, Len(s)))
         /\ Len(SubSeq(s, 1, n)) = n /\ Len(SubSeq(s, n + 1, Len(s))) = Len(s) - n
<1> DEFINE L == Len(s)
           u == SubSeq(s, 1, n)
           v == SubSeq(s, n + 1, L)
<1>0. L \in Nat /\ n \in Nat /\ n <= L /\ DOMAIN s = 1 .. L /\ \A i \in 1 .. L : s[i] \in Nat
  BY LenProperties, ElementOfSeq
<1>1. u \in Seq(Nat) /\ Len(u) = n /\ \A i \in 1 .. n : u[i] = s[i]
  <2>1. 1 \in Int /\ n \in Int /\ \A i \in 1 .. n : s[i] \in Nat
    BY <1>0
  <2>2. u \in Seq(Nat) /\ Len(u) = (IF 1 <= n THEN n - 1 + 1 ELSE 0)
        /\ \A i \in 1 .. n - 1 + 1 : u[i] = s[1 + i - 1]
    BY <2>1, SubSeqProperties
  <2> HIDE DEF u
  <2>3. n - 1 + 1 = n /\ \A i \in 1 .. n : 1 + i - 1 = i
    BY <1>0
  <2> QED BY <1>0, <2>2, <2>3
<1>2. v \in Seq(Nat) /\ Len(v) = L - n /\ \A i \in 1 .. L - n : v[i] = s[n + i]
  <2>1. n + 1 \in Int /\ L \in Int /\ \A i \in n + 1 .. L : s[i] \in Nat
    BY <1>0
  <2>2. v \in Seq(Nat) /\ Len(v) = (IF n + 1 <= L THEN L - (n + 1) + 1 ELSE 0)
        /\ \A i \in 1 .. L - (n + 1) + 1 : v[i] = s[(n + 1) + i - 1]
    BY <2>1, SubSeqProperties
  <2> HIDE DEF v, L
  <2>3. L - (n + 1) + 1 = L - n /\ \A i \in 1 .. L - n : (n + 1) + i - 1 = n + i
    BY <1>0
  <2> QED BY <1>0, <2>2, <2>3
<1>3. DOMAIN u = 1 .. n /\ DOMAIN v = 1 .. L - n
  BY <1>1, <1>2, LenProperties
<1> HIDE DEF u, v, L
<1>4. Increasing(u)
  BY <1>0, <1>1, <1>3 DEF Increasing
<1>5. Increasing(v)
  <2> SUFFICES ASSUME NEW i \in 1 .. L - n, NEW j \in 1 .. L - n, i < j PROVE v[i] < v[j]
    BY <1>3 DEF Increasing
  <2>1. n + i \in 1 .. L /\ n + j \in 1 .. L /\ n + i < n + j
    BY <1>0
  <2> QED BY <1>0, <1>2, <2>1 DEF Increasing
<1>6. Before(ToSet(u), ToSet(v))
  <2> SUFFICES ASSUME NEW i \in 1 .. n, NEW j \in 1 .. L - n PROVE u[i] < v[j]
    BY <1>3 DEF Before, ToSet
  <2>1. i \in 1 .. L /\ n + j \in 1 .. L /\ i < n + j
    BY <1>0
  <2> QED BY <1>0, <1>1, <1>2, <2>1 DEF Increasing
<1>7. ToSet(s) = ToSet(u) \cup ToSet(v)
  <2>1. ASSUME NEW i \in 1 .. L PROVE s[i] \in ToSet(u) \cup ToSet(v)
    <3>1. CASE i <= n
      <4>1. i \in DOMAIN u /\ s[i] = u[i]
        BY <1>0, <1>1, <1>3, <3>1
      <4> QED BY <4>1 DEF ToSet
    <3>2. CASE ~(i <= n)
      <4>0. i - n \in 1 .. L - n /\ n + (i - n) = i
        BY <1>0, <3>2
      <4>1. i - n \in DOMAIN v /\ s[i] = v[i - n]
        BY <1>2, <1>3, <4>0
      <4> QED BY <4>1 DEF ToSet
    <3> QED BY <3>1, <3>2
  <2>2. ASSUME NEW i \in 1 .. n PROVE u[i] \in ToSet(s)
    <3>1. i \in DOMAIN s /\ u[i] = s[i]
      BY <1>0, <1>1
    <3> QED BY <3>1 DEF ToSet
  <2>3. ASSUME NEW i \in 1 .. L - n PROVE v[i] \in ToSet(s)
    <3>1. n + i \in DOMAIN s /\ v[i] = s[n + i]
      BY <1>0, <1>2
    <3> QED BY <3>1 DEF ToSet
  <2> QED BY <1>0, <1>3, <2>1, <2>2, <2>3 DEF ToSet
<1>8. Splits(s, u, v)
  BY <1>1, <1>2, <1>4, <1>5, <1>6, <1>7 DEF Splits
<1> QED BY <1>1, <1>2, <1>8 DEF u, v, L

\* Two sequences, one behind the other.
LEMMA JoinFacts ==
  ASSUME NEW s \in Seq(Nat), NEW t \in Seq(Nat)
  PROVE  /\ s \o t \in Seq(Nat) /\ Len(s \o t) = Len(s) + Len(t)
         /\ ToSet(s \o t) = ToSet(s) \cup ToSet(t)
         /\ Increasing(s) /\ Increasing(t) /\ Before(ToSet(s), ToSet(t)) => Increasing(s \o t)
<1> DEFINE m == Len(s)
           n == Len(t)
           u == s \o t
<1>0. m \in Nat /\ n \in Nat /\ DOMAIN s = 1 .. m /\ DOMAIN t = 1 .. n
  BY LenProperties
<1>1. u \in Seq(Nat) /\ Len(u) = m + n
      /\ \A i \in 1 .. m + n : u[i] = IF i <= m THEN s[i] ELSE t[i - m]
  BY ConcatProperties
<1>2. DOMAIN u = 1 .. m + n
  BY <1>1, LenProperties
<1> HIDE DEF m, n, u
<1>3. ASSUME NEW i \in 1 .. m + n
      PROVE  \/ i \in 1 .. m /\ u[i] = s[i]
             \/ i - m \in 1 .. n /\ i > m /\ u[i] = t[i - m]
  BY <1>0, <1>1
<1>4. ToSet(u) = ToSet(s) \cup ToSet(t)
  <2>1. ASSUME NEW i \in 1 .. m + n PROVE u[i] \in ToSet(s) \cup ToSet(t)
    BY <1>0, <1>3 DEF ToSet
  <2>2. ASSUME NEW i \in 1 .. m PROVE s[i] \in ToSet(u)
    <3>1. i \in 1 .. m + n /\ i <= m
      BY <1>0
    <3>2. i \in DOMAIN u /\ s[i] = u[i]
      BY <1>1, <1>2, <3>1
    <3> QED BY <3>2 DEF ToSet
  <2>3. ASSUME NEW i \in 1 .. n PROVE t[i] \in ToSet(u)
    <3>1. m + i \in 1 .. m + n /\ ~(m + i <= m) /\ (m + i) - m = i
      BY <1>0
    <3>2. m + i \in DOMAIN u /\ t[i] = u[m + i]
      BY <1>1, <1>2, <3>1
    <3> QED BY <3>2 DEF ToSet
  <2> QED BY <1>0, <1>2, <2>1, <2>2, <2>3 DEF ToSet
<1>5. ASSUME Increasing(s), Increasing(t), Before(ToSet(s), ToSet(t)) PROVE Increasing(u)
  <2> SUFFICES ASSUME NEW i \in 1 .. m + n, NEW j \in 1 .. m + n, i < j PROVE u[i] < u[j]
    BY <1>2 DEF Increasing
  <2>1. CASE j \in 1 .. m /\ u[j] = s[j]
    <3>0. i \in 1 .. m /\ i <= m
      BY <1>0, <2>1
    <3>1. i \in 1 .. m /\ u[i] = s[i]
      BY <1>1, <3>0
    <3> QED BY <1>0, <1>5, <2>1, <3>1 DEF Increasing
  <2>2. CASE i \in 1 .. m /\ u[i] = s[i] /\ j - m \in 1 .. n /\ u[j] = t[j - m]
    <3>1. s[i] \in ToSet(s) /\ t[j - m] \in ToSet(t)
      BY <1>0, <2>2 DEF ToSet
    <3> QED BY <1>5, <2>2, <3>1 DEF Before
  <2>3. CASE i - m \in 1 .. n /\ u[i] = t[i - m] /\ j - m \in 1 .. n /\ u[j] = t[j - m]
    <3>1. i - m < j - m
      BY <1>0
    <3> QED BY <1>0, <1>5, <2>3, <3>1 DEF Increasing
  <2> QED BY <1>3, <2>1, <2>2, <2>3
<1> QED BY <1>1, <1>4, <1>5 DEF m, n, u

-----------------------------------------------------------------------------
(* Queues of packets *)

Bytes(q) == UNION {ToSet(q[k]) : k \in DOMAIN q}

Queue(q) ==
  /\ q \in Seq(Seq(Nat))
  /\ \A k \in DOMAIN q : Increasing(q[k])
  /\ \A k, l \in DOMAIN q : k < l => Before(ToSet(q[k]), ToSet(q[l]))

\* The queue q is the packet h with the queue t behind it.
Behind(q, h, t) ==
  /\ q \in Seq(Seq(Nat)) /\ t \in Seq(Seq(Nat)) /\ h \in Seq(Nat)
  /\ Len(q) = Len(t) + 1 /\ q[1] = h
  /\ \A i \in 1 .. Len(t) : q[i + 1] = t[i]

\* What is known of a queue from its first packet and the rest of it.
LEMMA BehindFacts ==
  ASSUME NEW q, NEW h, NEW t, Behind(q, h, t)
  PROVE  /\ Bytes(q) = ToSet(h) \cup Bytes(t)
         /\ Queue(q) <=> Increasing(h) /\ Queue(t) /\ Before(ToSet(h), Bytes(t))
<1> DEFINE n == Len(t)
<1>0. n \in Nat /\ DOMAIN t = 1 .. n /\ DOMAIN q = 1 .. n + 1 /\ q[1] = h
      /\ q \in Seq(Seq(Nat)) /\ t \in Seq(Seq(Nat))
      /\ \A i \in 1 .. n : q[i + 1] = t[i]
  BY LenProperties DEF Behind
<1> HIDE DEF n
<1>1. ASSUME NEW k \in DOMAIN q
      PROVE  k = 1 \/ (k - 1 \in DOMAIN t /\ q[k] = t[k - 1])
  <2>1. k = 1 \/ (k - 1 \in 1 .. n /\ (k - 1) + 1 = k)
    BY <1>0
  <2> QED BY <1>0, <2>1
<1>2. 1 \in DOMAIN q /\ q[1] = h
  BY <1>0
<1>3. ASSUME NEW k \in DOMAIN t PROVE k + 1 \in DOMAIN q /\ q[k + 1] = t[k] /\ 1 < k + 1
  BY <1>0
<1>4. Bytes(q) = ToSet(h) \cup Bytes(t)
  <2>1. ASSUME NEW x \in Bytes(q) PROVE x \in ToSet(h) \cup Bytes(t)
    <3>1. PICK k \in DOMAIN q : x \in ToSet(q[k])
      BY DEF Bytes
    <3> QED BY <1>1, <1>2, <3>1 DEF Bytes
  <2>2. ASSUME NEW x \in ToSet(h) PROVE x \in Bytes(q)
    BY <1>2 DEF Bytes
  <2>3. ASSUME NEW x \in Bytes(t) PROVE x \in Bytes(q)
    <3>1. PICK k \in DOMAIN t : x \in ToSet(t[k])
      BY DEF Bytes
    <3> QED BY <1>3, <3>1 DEF Bytes
  <2> QED BY <2>1, <2>2, <2>3
<1>5. ASSUME Queue(q) PROVE Increasing(h) /\ Queue(t) /\ Before(ToSet(h), Bytes(t))
  <2>1. Increasing(h) /\ \A k \in DOMAIN t : Increasing(t[k])
    BY <1>2, <1>3, <1>5 DEF Queue
  <2>2. ASSUME NEW k \in DOMAIN t, NEW l \in DOMAIN t, k < l
        PROVE  Before(ToSet(t[k]), ToSet(t[l]))
    <3>1. k + 1 < l + 1
      BY <1>0, <2>2
    <3> QED BY <1>3, <1>5, <3>1 DEF Queue
  <2>3. ASSUME NEW k \in DOMAIN t PROVE Before(ToSet(h), ToSet(t[k]))
    BY <1>2, <1>3, <1>5 DEF Queue
  <2>4. Before(ToSet(h), Bytes(t))
    BY <2>3, Zenon DEF Before, Bytes
  <2> QED BY <1>0, <2>1, <2>2, <2>4 DEF Queue
<1>6. ASSUME Increasing(h), Queue(t), Before(ToSet(h), Bytes(t)) PROVE Queue(q)
  <2>1. ASSUME NEW k \in DOMAIN q PROVE Increasing(q[k])
    BY <1>1, <1>2, <1>6 DEF Queue
  <2>2. ASSUME NEW k \in DOMAIN q, NEW l \in DOMAIN q, k < l
        PROVE  Before(ToSet(q[k]), ToSet(q[l]))
    <3>1. l # 1
      BY <1>0, <2>2
    <3>2. l - 1 \in DOMAIN t /\ q[l] = t[l - 1]
      BY <1>1, <3>1
    <3>3. CASE k = 1
      <4>1. ToSet(t[l - 1]) \subseteq Bytes(t)
        BY <3>2 DEF Bytes
      <4> QED BY <1>2, <1>6, <3>2, <3>3, <4>1 DEF Before
    <3>4. CASE k # 1
      <4>1. k - 1 \in DOMAIN t /\ q[k] = t[k - 1]
        BY <1>1, <3>4
      <4>2. k - 1 < l - 1
        BY <1>0, <2>2
      <4> QED BY <1>6, <3>2, <4>1, <4>2 DEF Queue
    <3> QED BY <3>3, <3>4
  <2> QED BY <1>0, <2>1, <2>2 DEF Queue
<1> QED BY <1>4, <1>5, <1>6

\* A packet that arrives behind the ones there are.
LEMMA AppendFacts ==
  ASSUME NEW q, NEW w \in Seq(Nat), Queue(q), Increasing(w), Before(Bytes(q), ToSet(w))
  PROVE  Queue(Append(q, w)) /\ Bytes(Append(q, w)) = Bytes(q) \cup ToSet(w)
<1> DEFINE n == Len(q)
           a == Append(q, w)
<1>0. q \in Seq(Seq(Nat)) /\ n \in Nat /\ DOMAIN q = 1 .. n
  BY LenProperties DEF Queue
<1>1. a \in Seq(Seq(Nat)) /\ Len(a) = n + 1 /\ (\A i \in 1 .. n : a[i] = q[i]) /\ a[n + 1] = w
  BY <1>0, AppendProperties
<1>2. DOMAIN a = 1 .. n + 1
  BY <1>1, LenProperties
<1> HIDE DEF n, a
<1>3. ASSUME NEW k \in DOMAIN a
      PROVE  \/ k = n + 1 /\ a[k] = w
             \/ k \in DOMAIN q /\ a[k] = q[k]
  BY <1>0, <1>1, <1>2
<1>4. n + 1 \in DOMAIN a /\ a[n + 1] = w
  BY <1>0, <1>1, <1>2
<1>5. ASSUME NEW k \in DOMAIN q PROVE k \in DOMAIN a /\ a[k] = q[k]
  BY <1>0, <1>1, <1>2
<1>6. Bytes(a) = Bytes(q) \cup ToSet(w)
  <2>1. ASSUME NEW x \in Bytes(a) PROVE x \in Bytes(q) \cup ToSet(w)
    <3>1. PICK k \in DOMAIN a : x \in ToSet(a[k])
      BY DEF Bytes
    <3> QED BY <1>3, <3>1 DEF Bytes
  <2>2. ASSUME NEW x \in ToSet(w) PROVE x \in Bytes(a)
    BY <1>4 DEF Bytes
  <2>3. ASSUME NEW x \in Bytes(q) PROVE x \in Bytes(a)
    <3>1. PICK k \in DOMAIN q : x \in ToSet(q[k])
      BY DEF Bytes
    <3> QED BY <1>5, <3>1 DEF Bytes
  <2> QED BY <2>1, <2>2, <2>3
<1>7. ASSUME NEW k \in DOMAIN a PROVE Increasing(a[k])
  BY <1>3 DEF Queue
<1>8. ASSUME NEW k \in DOMAIN a, NEW l \in DOMAIN a, k < l
      PROVE  Before(ToSet(a[k]), ToSet(a[l]))
  <2>1. k # n + 1
    BY <1>0, <1>2, <1>8
  <2>2. k \in DOMAIN q /\ a[k] = q[k]
    BY <1>3, <2>1
  <2>3. CASE l = n + 1
    <3>1. ToSet(q[k]) \subseteq Bytes(q)
      BY <2>2 DEF Bytes
    <3> QED BY <1>4, <2>2, <2>3, <3>1 DEF Before
  <2>4. CASE l # n + 1
    <3>1. l \in DOMAIN q /\ a[l] = q[l]
      BY <1>3, <2>4
    <3> QED BY <1>8, <2>2, <3>1 DEF Queue
  <2> QED BY <2>3, <2>4
<1>9. Queue(a)
  BY <1>1, <1>7, <1>8 DEF Queue
<1> QED BY <1>6, <1>9 DEF a

\* A read below takes the first bytes of the queue and leaves the others.
LEMMA TakeFacts ==
  ASSUME Queue(pending), pending # <<>>, NEW n \in Nat
  PROVE  /\ Below(n) \in Seq(Nat) /\ Len(Below(n)) <= n /\ Increasing(Below(n))
         /\ Queue(Beyond(n)) /\ Before(ToSet(Below(n)), Bytes(Beyond(n)))
         /\ Bytes(pending) = ToSet(Below(n)) \cup Bytes(Beyond(n))
<1> DEFINE h == Head(pending)
           t == Tail(pending)
           L == Len(h)
           m == IF n < L THEN n ELSE L
           u == SubSeq(h, 1, m)
           v == SubSeq(h, m + 1, L)
<1>0. pending \in Seq(Seq(Nat)) /\ h = pending[1]
  BY DEF Queue
<1>1. h \in Seq(Nat) /\ t \in Seq(Seq(Nat)) /\ Len(t) = Len(pending) - 1
      /\ \A i \in 1 .. Len(t) : t[i] = pending[i + 1]
  BY <1>0, HeadTailProperties
<1>2. Len(pending) \in Nat /\ L \in Nat
  BY <1>0, <1>1, LenProperties
<1>3. Behind(pending, h, t)
  BY <1>0, <1>1, <1>2 DEF Behind
<1>4. Increasing(h) /\ Queue(t) /\ Before(ToSet(h), Bytes(t))
      /\ Bytes(pending) = ToSet(h) \cup Bytes(t)
  BY <1>3, BehindFacts
<1>5. m \in 0 .. L /\ m <= n
  BY <1>2
<1>6. Splits(h, u, v) /\ Len(u) = m /\ Len(v) = L - m
  BY <1>1, <1>4, <1>5, SplitFacts
<1>7. Below(n) = u
  BY DEF Below
<1> HIDE DEF h, t, L, m, u, v
<1>8. u \in Seq(Nat) /\ Len(u) <= n /\ Increasing(u) /\ v \in Seq(Nat) /\ Increasing(v)
      /\ Before(ToSet(u), ToSet(v)) /\ ToSet(h) = ToSet(u) \cup ToSet(v)
  BY <1>5, <1>6 DEF Splits
<1>9. CASE n < L
  <2>1. Beyond(n) = <<v>> \o t
    BY <1>9 DEF Beyond, h, t, L, m, v
  <2>2. Behind(<<v>> \o t, v, t)
    <3>1. <<v>> \in Seq(Seq(Nat)) /\ Len(<<v>>) = 1 /\ <<v>>[1] = v /\ Len(t) \in Nat
      BY <1>1, <1>8, LenProperties
    <3>2. /\ <<v>> \o t \in Seq(Seq(Nat)) /\ Len(<<v>> \o t) = 1 + Len(t)
          /\ \A i \in 1 .. 1 + Len(t) : (<<v>> \o t)[i] = IF i <= 1 THEN <<v>>[i] ELSE t[i - 1]
      BY <1>1, <3>1, ConcatProperties
    <3>3. (<<v>> \o t)[1] = v
      BY <3>1, <3>2
    <3>4. ASSUME NEW i \in 1 .. Len(t) PROVE (<<v>> \o t)[i + 1] = t[i]
      <4>1. i + 1 \in 1 .. 1 + Len(t) /\ ~(i + 1 <= 1) /\ (i + 1) - 1 = i
        BY <3>1
      <4> QED BY <3>2, <4>1
    <3>5. 1 + Len(t) = Len(t) + 1
      BY <3>1
    <3> QED BY <1>1, <1>8, <3>2, <3>3, <3>4, <3>5 DEF Behind
  <2>3. Before(ToSet(v), Bytes(t)) /\ Before(ToSet(u), Bytes(t))
    BY <1>4, <1>8 DEF Before
  <2>4. Queue(<<v>> \o t) /\ Bytes(<<v>> \o t) = ToSet(v) \cup Bytes(t)
    BY <1>4, <1>8, <2>2, <2>3, BehindFacts
  <2>5. Before(ToSet(u), ToSet(v) \cup Bytes(t))
    BY <1>8, <2>3 DEF Before
  <2> QED BY <1>4, <1>7, <1>8, <2>1, <2>4, <2>5
<1>10. CASE ~(n < L)
  <2>1. Beyond(n) = t
    BY <1>10 DEF Beyond, h, t, L
  <2>2. Len(v) = 0
    BY <1>2, <1>6, <1>10 DEF m
  <2>3. ToSet(v) = {}
    <3>1. DOMAIN v = 1 .. 0
      BY <1>8, <2>2, LenProperties
    <3> QED BY <3>1 DEF ToSet
  <2>4. ToSet(h) = ToSet(u)
    BY <1>8, <2>3
  <2> QED BY <1>4, <1>7, <1>8, <2>1, <2>4
<1> QED BY <1>9, <1>10

-----------------------------------------------------------------------------
(* The inductive invariant *)

\* TypeOK, the values of the rest of the state, and the room for what a
\* call in progress has left to write.
TypeInv ==
  /\ TypeOK
  /\ cache \in Seq(Nat) /\ size \in Nat
  /\ pc = "write" => written + size - nbytes <= MaxWritten

\* The bytes handed out, the ones in the cache and the ones below follow
\* one another.
Ordered ==
  /\ got \in Seq(Nat) /\ cache \in Seq(Nat) /\ Queue(pending)
  /\ Increasing(got) /\ Increasing(cache)
  /\ Before(ToSet(got), ToSet(cache))
  /\ Before(ToSet(got), Bytes(pending)) /\ Before(ToSet(cache), Bytes(pending))

\* They are the ones that have arrived and have not been discarded.
Complete ==
  /\ lost \subseteq 1 .. arrived
  /\ ToSet(got) \cup ToSet(cache) \cup Bytes(pending) = (1 .. arrived) \ lost

WireInv == wire \in Seq(Seq(Nat)) /\ PacketsFit

IInv == TypeInv /\ Ordered /\ Complete /\ WireInv

LEMMA EmptyFacts ==
  /\ <<>> \in Seq(Nat) /\ Increasing(<<>>) /\ ToSet(<<>>) = {} /\ Len(<<>>) = 0
  /\ Queue(<<>>) /\ Bytes(<<>>) = {}
<1>1. <<>> \in Seq(Nat) /\ <<>> \in Seq(Seq(Nat)) /\ Len(<<>>) = 0 /\ DOMAIN <<>> = {}
  BY EmptySeq
<1> QED BY <1>1 DEF Increasing, ToSet, Queue, Bytes

LEMMA InitInv == ASSUME PacketAssumption, Init PROVE IInv
<1>1. TypeInv
  BY EmptyFacts DEF Init, TypeInv, TypeOK, PacketAssumption
<1>2. Ordered
  BY EmptyFacts DEF Init, Ordered, Before
<1>3. Complete
  <2>1. 1 .. 0 = {}
    OBVIOUS
  <2> QED BY EmptyFacts, <2>1 DEF Init, Complete
<1>4. WireInv
  <2>1. wire \in Seq(Seq(Nat)) /\ DOMAIN wire = {} /\ Len(wire) = 0
    BY EmptySeq DEF Init
  <2>2. EndOf(Len(wire)) = written
    BY <2>1 DEF EndOf, Init
  <2> QED BY <2>1, <2>2 DEF WireInv, PacketsFit
<1> QED BY <1>1, <1>2, <1>3, <1>4 DEF IInv

\* The size of the next packet is within osize and within the call.
LEMMA PacketSizeFacts ==
  ASSUME PacketAssumption, TypeInv, NEW n \in 1 .. PacketSize
  PROVE  n \in Nat /\ 1 <= n /\ n <= size - nbytes /\ (osize # 0 => n <= osize)
BY DEF PacketAssumption, TypeInv, TypeOK, PacketSize

LEMMA TypeStep == ASSUME PacketAssumption, IInv, [Next]_vars PROVE TypeInv'
<1> USE DEF IInv, TypeInv, TypeOK, opened, input, output
<1>1. ASSUME NEW n \in PacketLens, Arrive(n) PROVE TypeInv'
  BY <1>1 DEF PacketAssumption, Arrive
<1>2. ASSUME NEW n \in Sizes, Read(n) PROVE TypeInv'
  BY <1>2 DEF PacketAssumption, Read
<1>3. ASSUME NEW n \in Sizes, Write(n) PROVE TypeInv'
  BY <1>3 DEF PacketAssumption, Write
<1>4. CASE Fill
  <2>1. isize \in Nat /\ Queue(pending) /\ pending # <<>>
    BY <1>4 DEF PacketAssumption, Fill, Ordered
  <2>2. Below(isize) \in Seq(Nat) /\ Len(Below(isize)) <= isize
    BY <2>1, TakeFacts
  <2> QED BY <1>4, <2>2 DEF Fill, Looping
<1>5. CASE CopyOut
  <2> DEFINE n == IF size - nbytes < Len(cache) THEN size - nbytes ELSE Len(cache)
             v == SubSeq(cache, n + 1, Len(cache))
  <2>1. Len(cache) \in Nat /\ Increasing(cache)
    BY LenProperties DEF Ordered
  <2>2. n \in 0 .. Len(cache) /\ nbytes + n \in 0 .. size
    BY <1>5, <2>1 DEF CopyOut, Looping
  <2>3. v \in Seq(Nat) /\ Len(v) = Len(cache) - n
    BY <2>1, <2>2, SplitFacts DEF Splits
  <2>4. cache' = v /\ nbytes' = nbytes + n
    BY <1>5 DEF CopyOut
  <2>5. UNCHANGED <<isize, osize, pc, size, status, arrived, written>> /\ pc = "read"
    BY <1>5 DEF CopyOut, Looping
  <2> HIDE DEF n, v
  <2>6. isize \in Nat /\ Len(cache') <= isize
    BY <2>1, <2>2, <2>3, <2>4 DEF PacketAssumption
  <2> QED BY <2>2, <2>3, <2>4, <2>5, <2>6
<1>6. CASE ReadThrough
  <2>1. size - nbytes \in Nat /\ Queue(pending) /\ pending # <<>>
    BY <1>6 DEF ReadThrough, Looping, Ordered
  <2>2. Below(size - nbytes) \in Seq(Nat) /\ Len(Below(size - nbytes)) <= size - nbytes
    BY <2>1, TakeFacts
  <2>3. Len(Below(size - nbytes)) \in Nat
    BY <2>2, LenProperties
  <2> QED BY <1>6, <2>2, <2>3 DEF ReadThrough, Looping
<1>7. CASE ReadFails
  BY <1>7 DEF ReadFails, Looping
<1>8. ASSUME NEW n \in 1 .. PacketSize, WritePacket(n) PROVE TypeInv'
  <2>1. n \in Nat /\ 1 <= n /\ n <= size - nbytes
    BY PacketSizeFacts
  <2> QED BY <1>8, <2>1 DEF PacketAssumption, WritePacket
<1>9. CASE WriteFails
  BY <1>9 DEF WriteFails
<1>10. CASE Return
  BY <1>10 DEF Return
<1>11. CASE Purge
  BY <1>11, EmptyFacts DEF Purge, PacketAssumption
<1>12. CASE UNCHANGED vars
  BY <1>12 DEF vars
<1> QED BY <1>1, <1>2, <1>3, <1>4, <1>5, <1>6, <1>7, <1>8, <1>9, <1>10, <1>11, <1>12 DEF Next

\* A step that touches none of the bytes received keeps their order.
LEMMA InputKept == ASSUME Ordered, Complete, UNCHANGED input PROVE Ordered' /\ Complete'
BY DEF input, Ordered, Complete, Queue, Bytes

\* What a packet that arrives holds.
LEMMA ArriveFacts ==
  ASSUME NEW a \in Nat, NEW n \in Nat
  PROVE  LET w == [i \in 1 .. n |-> a + i]
         IN  /\ w \in Seq(Nat) /\ Len(w) = n /\ DOMAIN w = 1 .. n /\ Increasing(w)
             /\ ToSet(w) = a + 1 .. a + n
<1> DEFINE w == [i \in 1 .. n |-> a + i]
<1>1. w \in Seq(Nat) /\ Len(w) = n /\ DOMAIN w = 1 .. n
  BY \A i \in 1 .. n : a + i \in Nat
<1>2. \A i \in 1 .. n : w[i] = a + i
  OBVIOUS
<1> HIDE DEF w
<1>3. Increasing(w)
  BY <1>1, <1>2 DEF Increasing
<1>4. ASSUME NEW x \in a + 1 .. a + n PROVE x \in ToSet(w)
  <2>1. x - a \in 1 .. n /\ a + (x - a) = x
    OBVIOUS
  <2>2. w[x - a] = x
    BY <1>2, <2>1
  <2> QED BY <1>1, <2>1, <2>2 DEF ToSet
<1>5. ASSUME NEW i \in 1 .. n PROVE w[i] \in a + 1 .. a + n
  BY <1>2
<1>6. ToSet(w) = a + 1 .. a + n
  BY <1>1, <1>4, <1>5 DEF ToSet
<1> QED BY <1>1, <1>3, <1>6 DEF w

LEMMA OrderStep == ASSUME PacketAssumption, IInv, [Next]_vars PROVE Ordered' /\ Complete'
<1> USE DEF IInv
<1>0. got \in Seq(Nat) /\ cache \in Seq(Nat) /\ Len(cache) \in Nat
      /\ isize \in Nat /\ size \in Nat /\ nbytes \in 0 .. size /\ Len(cache) <= isize
  BY LenProperties DEF PacketAssumption, TypeInv, TypeOK, Ordered
<1>1. ASSUME NEW n \in PacketLens, Arrive(n) PROVE Ordered' /\ Complete'
  <2> DEFINE w == [i \in 1 .. n |-> arrived + i]
  <2>1. n \in Nat /\ arrived \in Nat
    BY DEF PacketAssumption, TypeInv, TypeOK
  <2>2. w \in Seq(Nat) /\ Increasing(w) /\ ToSet(w) = arrived + 1 .. arrived + n
    BY <2>1, ArriveFacts
  <2>3. pending' = Append(pending, w) /\ arrived' = arrived + n /\ UNCHANGED <<cache, got, lost>>
    BY <1>1 DEF Arrive
  <2> HIDE DEF w
  <2>4. \A x \in ToSet(got) \cup ToSet(cache) \cup Bytes(pending) : x \in 1 .. arrived
    BY DEF Complete
  <2>5. /\ Before(Bytes(pending), ToSet(w))
        /\ Before(ToSet(got), ToSet(w)) /\ Before(ToSet(cache), ToSet(w))
    <3>1. ASSUME NEW x \in 1 .. arrived, NEW y \in arrived + 1 .. arrived + n PROVE x < y
      BY <2>1
    <3> QED BY <2>2, <2>4, <3>1, Zenon DEF Before
  <2>6. Queue(pending') /\ Bytes(pending') = Bytes(pending) \cup ToSet(w)
    BY <2>2, <2>3, <2>5, AppendFacts DEF Ordered
  <2>7. /\ Before(ToSet(got), Bytes(pending'))
        /\ Before(ToSet(cache), Bytes(pending'))
    BY <2>5, <2>6 DEF Before, Ordered
  <2>8. Ordered'
    BY <2>3, <2>6, <2>7 DEF Ordered, Queue, Bytes
  <2>9. Complete'
    <3>1. 1 .. arrived + n = (1 .. arrived) \cup (arrived + 1 .. arrived + n)
          /\ (1 .. arrived) \cap (arrived + 1 .. arrived + n) = {}
      BY <2>1
    <3>2. lost \subseteq 1 .. arrived
          /\ ToSet(got) \cup ToSet(cache) \cup Bytes(pending) = (1 .. arrived) \ lost
      BY DEF Complete
    <3>3. ToSet(got) \cup ToSet(cache) \cup Bytes(pending') = (1 .. arrived + n) \ lost
      BY <2>2, <2>6, <3>1, <3>2
    <3> QED BY <2>3, <3>1, <3>2, <3>3 DEF Complete
  <2> QED BY <2>8, <2>9
<1>2. ASSUME NEW n \in Sizes, Read(n) \/ Write(n) PROVE Ordered' /\ Complete'
  BY <1>2, InputKept DEF Read, Write
<1>3. CASE Fill
  <2>1. cache' = Below(isize) /\ pending' = Beyond(isize) /\ UNCHANGED <<got, lost, arrived>>
        /\ pending # <<>> /\ cache = <<>>
    BY <1>3 DEF Fill
  <2>2. /\ Below(isize) \in Seq(Nat) /\ Increasing(Below(isize))
        /\ Queue(Beyond(isize)) /\ Before(ToSet(Below(isize)), Bytes(Beyond(isize)))
        /\ Bytes(pending) = ToSet(Below(isize)) \cup Bytes(Beyond(isize))
    BY <1>0, <2>1, TakeFacts DEF Ordered
  <2>3. /\ cache' \in Seq(Nat) /\ Increasing(cache') /\ Queue(pending')
        /\ Before(ToSet(cache'), Bytes(pending'))
        /\ Bytes(pending) = ToSet(cache') \cup Bytes(pending')
    BY <2>1, <2>2
  <2>4. ToSet(cache) = {}
    BY <2>1, EmptyFacts
  <2>5. Before(ToSet(got), ToSet(cache')) /\ Before(ToSet(got), Bytes(pending'))
    BY <2>3 DEF Ordered, Before
  <2>6. Ordered'
    BY <2>1, <2>3, <2>5 DEF Ordered, Queue, Bytes
  <2>7. Complete'
    BY <2>1, <2>3, <2>4 DEF Complete, Bytes
  <2> QED BY <2>6, <2>7
<1>4. CASE CopyOut
  <2> DEFINE n == IF size - nbytes < Len(cache) THEN size - nbytes ELSE Len(cache)
             u == SubSeq(cache, 1, n)
             v == SubSeq(cache, n + 1, Len(cache))
  <2>1. n \in 0 .. Len(cache)
    BY <1>0, <1>4 DEF CopyOut, Looping
  <2>2. Splits(cache, u, v)
    BY <1>0, <2>1, SplitFacts DEF Ordered
  <2>3. got' = got \o u /\ cache' = v /\ UNCHANGED <<pending, lost, arrived>>
    BY <1>4 DEF CopyOut
  <2> HIDE DEF n, u, v
  <2>4. u \in Seq(Nat) /\ v \in Seq(Nat) /\ Increasing(u) /\ Increasing(v)
        /\ Before(ToSet(u), ToSet(v)) /\ ToSet(cache) = ToSet(u) \cup ToSet(v)
    BY <2>2 DEF Splits
  <2>5. Before(ToSet(got), ToSet(u)) /\ Before(ToSet(got), ToSet(v))
        /\ Before(ToSet(u), Bytes(pending)) /\ Before(ToSet(v), Bytes(pending))
    BY <2>4 DEF Ordered, Before
  <2>6. got' \in Seq(Nat) /\ ToSet(got') = ToSet(got) \cup ToSet(u) /\ Increasing(got')
    BY <1>0, <2>3, <2>4, <2>5, JoinFacts DEF Ordered
  <2>7. Before(ToSet(got'), ToSet(v)) /\ Before(ToSet(got'), Bytes(pending))
    BY <2>4, <2>5, <2>6 DEF Ordered, Before
  <2>8. Ordered'
    BY <2>3, <2>4, <2>5, <2>6, <2>7 DEF Ordered, Queue, Bytes
  <2>9. Complete'
    BY <2>3, <2>4, <2>6 DEF Complete, Bytes
  <2> QED BY <2>8, <2>9
<1>5. CASE ReadThrough
  <2> DEFINE n == size - nbytes
  <2>1. n \in Nat /\ pending # <<>> /\ isize = 0
    BY <1>0, <1>5 DEF ReadThrough, Looping
  <2>2. got' = got \o Below(n) /\ pending' = Beyond(n) /\ UNCHANGED <<cache, lost, arrived>>
    BY <1>5 DEF ReadThrough
  <2> HIDE DEF n
  <2>3. /\ Below(n) \in Seq(Nat) /\ Increasing(Below(n))
        /\ Queue(Beyond(n)) /\ Before(ToSet(Below(n)), Bytes(Beyond(n)))
        /\ Bytes(pending) = ToSet(Below(n)) \cup Bytes(Beyond(n))
    BY <2>1, TakeFacts DEF Ordered
  <2>4. cache = <<>> /\ ToSet(cache) = {}
    BY <1>0, <2>1, EmptySeq, EmptyFacts
  <2>5. Before(ToSet(got), ToSet(Below(n))) /\ Before(ToSet(got), Bytes(Beyond(n)))
    BY <2>3 DEF Ordered, Before
  <2>6. got' \in Seq(Nat) /\ ToSet(got') = ToSet(got) \cup ToSet(Below(n)) /\ Increasing(got')
    BY <1>0, <2>2, <2>3, <2>5, JoinFacts DEF Ordered
  <2>7. Before(ToSet(got'), Bytes(pending')) /\ Bytes(pending) = ToSet(Below(n)) \cup Bytes(pending')
        /\ Queue(pending')
    BY <2>2, <2>3, <2>5, <2>6 DEF Before
  <2>8. Ordered'
    BY <1>0, <2>2, <2>4, <2>6, <2>7 DEF Ordered, Queue, Bytes, Before
  <2>9. Complete'
    BY <2>2, <2>6, <2>7 DEF Complete, Bytes
  <2> QED BY <2>8, <2>9
<1>6. CASE ReadFails
  BY <1>6, InputKept DEF ReadFails
<1>7. ASSUME NEW n \in 1 .. PacketSize, WritePacket(n) PROVE Ordered' /\ Complete'
  BY <1>7, InputKept DEF WritePacket
<1>8. CASE WriteFails \/ Return
  BY <1>8, InputKept DEF WriteFails, Return
<1>9. CASE Purge
  <2>1. cache' = <<>> /\ pending' = <<>> /\ UNCHANGED <<got, arrived>>
        /\ lost' = lost \cup (ToSet(cache) \cup Bytes(pending))
    BY <1>9 DEF Purge, Held, Bytes
  <2>2. /\ cache' \in Seq(Nat) /\ Increasing(cache') /\ ToSet(cache') = {}
        /\ Queue(pending') /\ Bytes(pending') = {}
    BY <2>1, EmptyFacts
  <2>3. Ordered'
    BY <2>1, <2>2 DEF Ordered, Before, Queue, Bytes
  <2>4. \A x \in ToSet(got) : x \notin ToSet(cache) /\ x \notin Bytes(pending)
    <3>1. ASSUME NEW x \in ToSet(got) PROVE x \in Nat /\ ~(x < x)
      BY DEF Complete
    <3> QED BY <3>1 DEF Ordered, Before
  <2>5. Complete'
    BY <2>1, <2>2, <2>4 DEF Complete, Bytes
  <2> QED BY <2>3, <2>5
<1>10. CASE UNCHANGED vars
  BY <1>10, InputKept DEF vars
<1> QED BY <1>1, <1>2, <1>3, <1>4, <1>5, <1>6, <1>7, <1>8, <1>9, <1>10 DEF Next

\* A step that writes no packet keeps the packets written.
LEMMA WireKept == ASSUME WireInv, UNCHANGED <<osize, wire, written>> PROVE WireInv'
BY DEF WireInv, PacketsFit, EndOf

LEMMA WireStep == ASSUME PacketAssumption, IInv, [Next]_vars PROVE WireInv'
<1> USE DEF IInv
<1>1. ASSUME NEW n \in 1 .. PacketSize, WritePacket(n) PROVE WireInv'
  <2> DEFINE w == [i \in 1 .. n |-> written + i]
             L == Len(wire)
  <2>1. n \in Nat /\ 1 <= n /\ (osize # 0 => n <= osize) /\ written \in Nat
    BY PacketSizeFacts DEF PacketAssumption, TypeInv, TypeOK
  <2>2. w \in Seq(Nat) /\ Len(w) = n /\ DOMAIN w = 1 .. n /\ \A i \in 1 .. n : w[i] = written + i
    BY <2>1, ArriveFacts
  <2>3. wire \in Seq(Seq(Nat)) /\ L \in Nat /\ DOMAIN wire = 1 .. L
    BY LenProperties DEF WireInv
  <2>4. wire' = Append(wire, w) /\ written' = written + n /\ osize' = osize
    BY <1>1 DEF WritePacket, opened
  <2> HIDE DEF w
  <2>5. wire' \in Seq(Seq(Nat)) /\ Len(wire') = L + 1 /\ wire'[L + 1] = w
        /\ \A k \in 1 .. L : wire'[k] = wire[k]
    BY <2>2, <2>3, <2>4, AppendProperties
  <2>6. DOMAIN wire' = 1 .. L + 1
    BY <2>5, LenProperties
  <2> HIDE DEF L
  <2>7. \A k \in 0 .. L : EndOf(k)' = EndOf(k)
    BY <2>3, <2>5 DEF EndOf
  <2>8. EndOf(L) = written
    BY DEF WireInv, PacketsFit, L
  <2>9. EndOf(Len(wire))' = written'
    <3>1. Len(wire') # 0 /\ wire'[Len(wire')] = w /\ Len(w) = n
      BY <2>2, <2>3, <2>5
    <3>2. w[n] = written + n
      BY <2>1, <2>2
    <3> QED BY <2>4, <3>1, <3>2 DEF EndOf
  <2>10. ASSUME NEW k \in DOMAIN wire'
         PROVE  /\ osize' # 0 => Len(wire'[k]) <= osize'
                /\ wire'[k] # <<>>
                /\ \A i \in DOMAIN wire'[k] : wire'[k][i] = EndOf(k - 1)' + i
    <3>1. CASE k = L + 1
      <4>1. k - 1 = L
        BY <2>3, <3>1
      <4>2. EndOf(k - 1)' = written
        BY <2>3, <2>7, <2>8, <4>1
      <4>3. w # <<>>
        BY <2>1, <2>2, EmptySeq
      <4> QED BY <2>1, <2>2, <2>4, <2>5, <3>1, <4>2, <4>3
    <3>2. CASE k # L + 1
      <4>1. k \in 1 .. L /\ k - 1 \in 0 .. L
        BY <2>3, <2>6, <3>2
      <4>2. wire'[k] = wire[k] /\ EndOf(k - 1)' = EndOf(k - 1) /\ k \in DOMAIN wire
        BY <2>3, <2>5, <2>7, <4>1
      <4>3. /\ osize # 0 => Len(wire[k]) <= osize
            /\ wire[k] # <<>>
            /\ \A i \in DOMAIN wire[k] : wire[k][i] = EndOf(k - 1) + i
        BY <4>2 DEF WireInv, PacketsFit
      <4> QED BY <2>4, <4>2, <4>3
    <3> QED BY <3>1, <3>2
  <2> QED BY <2>5, <2>9, <2>10 DEF WireInv, PacketsFit
<1>2. CASE UNCHANGED <<osize, wire, written>>
  BY <1>2, WireKept
<1>3. ASSUME NEW n \in PacketLens, Arrive(n) PROVE UNCHANGED <<osize, wire, written>>
  BY <1>3 DEF Arrive, opened, output
<1>4. ASSUME NEW n \in Sizes, Read(n) \/ Write(n) PROVE UNCHANGED <<osize, wire, written>>
  BY <1>4 DEF Read, Write, opened, output
<1>5. CASE Fill \/ CopyOut \/ ReadThrough \/ ReadFails
  BY <1>2, <1>5 DEF Fill, CopyOut, ReadThrough, ReadFails, opened, output
<1>6. CASE WriteFails \/ Return \/ Purge \/ UNCHANGED vars
  BY <1>2, <1>6 DEF WriteFails, Return, Purge, vars, opened, output
<1> QED BY <1>1, <1>2, <1>3, <1>4, <1>5, <1>6 DEF Next

LEMMA NextInv == ASSUME PacketAssumption, IInv, [Next]_vars PROVE IInv'
BY TypeStep, OrderStep, WireStep DEF IInv

\* Every state of the packet layer satisfies the inductive invariant.
THEOREM Invariance == ASSUME PacketAssumption PROVE Spec => []IInv
<1>1. Init => IInv
  BY InitInv
<1>2. IInv /\ [Next]_vars => IInv'
  BY NextInv
<1> QED BY <1>1, <1>2, PTL DEF Spec

\* Every variable has a value of its type: in particular a call never
\* counts more bytes than it was asked for, and the cache never holds more
\* than a packet of isize bytes.
THEOREM TypeCorrect == ASSUME PacketAssumption PROVE Spec => []TypeOK
<1>1. IInv => TypeOK
  BY DEF IInv, TypeInv
<1> QED BY <1>1, Invariance, PTL

\* The three parts of the bytes are what BytesInOrder says of them.
LEMMA PartsInOrder == ASSUME IInv PROVE BytesInOrder
<1>1. /\ got \in Seq(Nat) /\ cache \in Seq(Nat) /\ Queue(pending)
      /\ Increasing(got) /\ Increasing(cache) /\ Before(ToSet(got), ToSet(cache))
      /\ Before(ToSet(got), Bytes(pending)) /\ Before(ToSet(cache), Bytes(pending))
  BY DEF IInv, Ordered
<1>2. Increasing(got \o cache) /\ ToSet(got \o cache) = ToSet(got) \cup ToSet(cache)
  BY <1>1, JoinFacts
<1>3. ASSUME NEW k \in DOMAIN pending
      PROVE  Increasing(pending[k]) /\ Before(ToSet(got \o cache), ToSet(pending[k]))
  <2>1. ToSet(pending[k]) \subseteq Bytes(pending)
    BY DEF Bytes
  <2>2. Before(ToSet(got) \cup ToSet(cache), ToSet(pending[k]))
    BY <1>1, <2>1 DEF Before
  <2> QED BY <1>1, <1>2, <2>2 DEF Queue
<1>4. \A k, l \in DOMAIN pending : k < l => Before(ToSet(pending[k]), ToSet(pending[l]))
  BY <1>1 DEF Queue
<1>5. Held = ToSet(cache) \cup Bytes(pending)
  BY DEF Held, Bytes
<1>6. ToSet(got) \cup Held = (1 .. arrived) \ lost
  BY <1>5 DEF IInv, Complete
<1> QED BY <1>2, <1>3, <1>4, <1>6 DEF BytesInOrder

\* dc_packet_read hands out the bytes in the order in which they arrived,
\* none twice and none skipped but the ones a purge discarded.
THEOREM ReadsInOrder == ASSUME PacketAssumption PROVE Spec => []BytesInOrder
<1>1. IInv => BytesInOrder
  BY PartsInOrder
<1> QED BY <1>1, Invariance, PTL

\* dc_packet_write cuts what it is given into packets that are not empty,
\* not longer than osize, and follow one another without a gap.
THEOREM WritesFit == ASSUME PacketAssumption PROVE Spec => []PacketsFit
<1>1. IInv => PacketsFit
  BY DEF IInv, WireInv
<1> QED BY <1>1, Invariance, PTL
=============================================================================
