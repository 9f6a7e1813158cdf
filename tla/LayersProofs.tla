---------------------------- MODULE LayersProofs ----------------------------
(***************************************************************************)
(* Proofs about the layers below a driver.  First the dynamic buffer, for  *)
(* all operations with blocks of any size, and any limit of the memory;    *)
(* then all layers together, for every value of their constants, from the  *)
(* proofs about each.                                                      *)
(***************************************************************************)
EXTENDS MCLayers, TLAPS

-----------------------------------------------------------------------------
(* The helpers *)

\* f is the block d, of c bytes, with the n bytes of src at `from' in the
\* place of those at `to'.
Copied(f, d, c, to, src, from, n) ==
  /\ DOMAIN f = 0 .. c - 1
  /\ \A j \in 0 .. n - 1 : f[to + j] = src[from + j]
  /\ \A i \in 0 .. c - 1 : i < to \/ to + n <= i => f[i] = d[i]

\* memcpy and memmove change the bytes of their target, and only those.
LEMMA CopyFacts ==
  ASSUME NEW d, NEW c \in Nat, DOMAIN d = 0 .. c - 1,
         NEW to \in Int, NEW src, NEW from \in Int, NEW n \in Int,
         0 <= to, to + n <= c
  PROVE  Copied(Copy(d, to, src, from, n), d, c, to, src, from, n)
<1> DEFINE F == Copy(d, to, src, from, n)
<1>1. DOMAIN F = 0 .. c - 1
  BY DEF Copy
<1>2. ASSUME NEW j \in 0 .. n - 1 PROVE F[to + j] = src[from + j]
  <2>1. to + j \in 0 .. c - 1 /\ to + j \in to .. to + n - 1 /\ (to + j) - to = j
    OBVIOUS
  <2> QED BY <2>1 DEF Copy
<1>3. ASSUME NEW i \in 0 .. c - 1, i < to \/ to + n <= i PROVE F[i] = d[i]
  <2>1. i \notin to .. to + n - 1
    BY <1>3
  <2> QED BY <2>1 DEF Copy
<1> HIDE DEF F
<1>4. Copied(F, d, c, to, src, from, n)
  BY <1>1, <1>2, <1>3 DEF Copied
<1> QED BY <1>4 DEF F

\* A block e with room for the used part, which is in its place there.
Holds(e, n) ==
  /\ e.cap \in Nat /\ e.off \in Nat
  /\ e.off + n <= e.cap /\ e.off + size <= e.cap
  /\ DOMAIN e.mem = 0 .. e.cap - 1
  /\ \A i \in 0 .. size - 1 : e.mem[e.off + i] = data[offset + i]

\* dc_buffer_expand_calc finds a capacity that is large enough.
LEMMA CalcFacts ==
  ASSUME BufferInv, NEW n \in Nat, NEW c \in Nat, dc_buffer_expand_calc(n, c)
  PROVE  n <= c
  BY DEF BufferInv, dc_buffer_expand_calc

\* dc_buffer_expand_append keeps the used part, with n bytes of room from its
\* begin.
LEMMA ExpandAppendFacts ==
  ASSUME BufferInv, MaxCapacity \in Nat, NEW n \in Nat, NEW e \in ExpandAppend(n)
  PROVE  Holds(e, n)
<1>0. capacity \in Nat /\ offset \in Nat /\ size \in Nat /\ offset + size <= capacity
      /\ DOMAIN data = 0 .. capacity - 1
  BY DEF BufferInv
<1>1. CASE n <= capacity - offset
  <2>1. e = [cap |-> capacity, off |-> offset, mem |-> data]
    BY <1>1 DEF ExpandAppend
  <2> QED BY <1>0, <1>1, <2>1 DEF Holds
<1>2. CASE ~(n <= capacity - offset) /\ n > capacity
  <2>1. PICK c \in 0 .. MaxCapacity :
          /\ dc_buffer_expand_calc(n, c)
          /\ e = [cap |-> c, off |-> 0, mem |-> Copy(Memory(c), 0, data, offset, size)]
    BY <1>2 DEF ExpandAppend
  <2>2. n <= c /\ c \in Nat
    BY <2>1, CalcFacts
  <2>3. DOMAIN Memory(c) = 0 .. c - 1
    BY DEF Memory
  <2> DEFINE F == Copy(Memory(c), 0, data, offset, size)
  <2>4. DOMAIN F = 0 .. c - 1 /\ \A j \in 0 .. size - 1 : F[0 + j] = data[offset + j]
    <3>1. offset \in Int /\ size \in Int /\ 0 \in Int /\ 0 <= 0 /\ 0 + size <= c
      BY <1>0, <1>2, <2>2
    <3>2. Copied(F, Memory(c), c, 0, data, offset, size)
      BY <2>2, <2>3, <3>1, CopyFacts, Zenon
    <3> HIDE DEF F
    <3> QED BY <3>2 DEF Copied
  <2>5. e.cap = c /\ e.off = 0 /\ e.mem = F
    BY <2>1
  <2> HIDE DEF F
  <2> QED BY <1>0, <1>2, <2>2, <2>4, <2>5 DEF Holds
<1>3. CASE ~(n <= capacity - offset) /\ ~(n > capacity)
  <2>1. e = [cap |-> capacity, off |-> 0, mem |-> Copy(data, 0, data, offset, size)]
    BY <1>3 DEF ExpandAppend
  <2> DEFINE F == Copy(data, 0, data, offset, size)
  <2>2. DOMAIN F = 0 .. capacity - 1 /\ \A j \in 0 .. size - 1 : F[0 + j] = data[offset + j]
    <3>1. offset \in Int /\ size \in Int /\ 0 \in Int /\ 0 <= 0 /\ 0 + size <= capacity
      BY <1>0
    <3>2. Copied(F, data, capacity, 0, data, offset, size)
      BY <1>0, <3>1, CopyFacts, Zenon
    <3> HIDE DEF F
    <3> QED BY <3>2 DEF Copied
  <2>3. e.cap = capacity /\ e.off = 0 /\ e.mem = F
    BY <2>1
  <2> HIDE DEF F
  <2> QED BY <1>0, <1>3, <2>2, <2>3 DEF Holds
<1> QED BY <1>1, <1>2, <1>3

\* dc_buffer_expand_prepend keeps the used part, with n bytes of room up to its
\* end.
LEMMA ExpandPrependFacts ==
  ASSUME BufferInv, MaxCapacity \in Nat, NEW n \in Nat, size <= n, NEW e \in ExpandPrepend(n)
  PROVE  Holds(e, size) /\ n <= e.off + size
<1>0. capacity \in Nat /\ offset \in Nat /\ size \in Nat /\ offset + size <= capacity
      /\ DOMAIN data = 0 .. capacity - 1
  BY DEF BufferInv
<1>1. CASE n <= offset + size
  <2>1. e = [cap |-> capacity, off |-> offset, mem |-> data]
    BY <1>1 DEF ExpandPrepend
  <2> QED BY <1>0, <1>1, <2>1 DEF Holds
<1>2. CASE ~(n <= offset + size) /\ n > capacity
  <2>1. PICK c \in 0 .. MaxCapacity :
          /\ dc_buffer_expand_calc(n, c)
          /\ e = [cap |-> c, off |-> c - size,
                  mem |-> Copy(Memory(c), c - size, data, offset, size)]
    BY <1>2 DEF ExpandPrepend
  <2>2. n <= c /\ c \in Nat
    BY <2>1, CalcFacts
  <2>3. DOMAIN Memory(c) = 0 .. c - 1
    BY DEF Memory
  <2> DEFINE F == Copy(Memory(c), c - size, data, offset, size)
  <2>4. DOMAIN F = 0 .. c - 1 /\ \A j \in 0 .. size - 1 : F[(c - size) + j] = data[offset + j]
    <3>1. offset \in Int /\ size \in Int /\ c - size \in Int /\ 0 <= c - size /\ (c - size) + size <= c
      BY <1>0, <1>2, <2>2
    <3>2. Copied(F, Memory(c), c, c - size, data, offset, size)
      BY <2>2, <2>3, <3>1, CopyFacts, Zenon
    <3> HIDE DEF F
    <3> QED BY <3>2 DEF Copied
  <2>5. e.cap = c /\ e.off = c - size /\ e.mem = F
    BY <2>1
  <2> HIDE DEF F
  <2> QED BY <1>0, <1>2, <2>2, <2>4, <2>5 DEF Holds
<1>3. CASE ~(n <= offset + size) /\ ~(n > capacity)
  <2>1. e = [cap |-> capacity, off |-> capacity - size,
             mem |-> Copy(data, capacity - size, data, offset, size)]
    BY <1>3 DEF ExpandPrepend
  <2> DEFINE F == Copy(data, capacity - size, data, offset, size)
  <2>2. DOMAIN F = 0 .. capacity - 1 /\ \A j \in 0 .. size - 1 : F[(capacity - size) + j] = data[offset + j]
    <3>1. offset \in Int /\ size \in Int /\ capacity - size \in Int /\ 0 <= capacity - size /\ (capacity - size) + size <= capacity
      BY <1>0
    <3>2. Copied(F, data, capacity, capacity - size, data, offset, size)
      BY <1>0, <3>1, CopyFacts, Zenon
    <3> HIDE DEF F
    <3> QED BY <3>2 DEF Copied
  <2>3. e.cap = capacity /\ e.off = capacity - size /\ e.mem = F
    BY <2>1
  <2> HIDE DEF F
  <2> QED BY <1>0, <1>3, <2>2, <2>3 DEF Holds
<1> QED BY <1>1, <1>2, <1>3

\* A block e with a gap of n bytes at `at' in the used part.
Opened(e, at, n) ==
  /\ e.cap \in Nat /\ e.off \in Nat
  /\ e.off + size + n <= e.cap
  /\ DOMAIN e.mem = 0 .. e.cap - 1
  /\ \A i \in 0 .. at - 1 : e.mem[e.off + i] = data[offset + i]
  /\ \A i \in at .. size - 1 : e.mem[e.off + n + i] = data[offset + i]

\* dc_buffer_insert opens the gap, in all of its four ways.  Where it moves both
\* parts in place, the second memmove reads nothing the first has written.
LEMMA GapsFacts ==
  ASSUME BufferInv, MaxCapacity \in Nat,
         NEW o, o.len \in Nat, o.at \in Nat, o.at <= size, NEW e \in Gaps(o)
  PROVE  Opened(e, o.at, o.len)
<1> DEFINE at == o.at
           n == o.len
<1>0. /\ capacity \in Nat /\ offset \in Nat /\ size \in Nat /\ offset + size <= capacity
      /\ DOMAIN data = 0 .. capacity - 1
      /\ at \in Nat /\ n \in Nat /\ at <= size
  BY DEF BufferInv
<1>a. offset \in Int /\ size \in Int /\ at \in Int /\ size - at \in Int /\ offset + at \in Int
  BY <1>0
<1>1. CASE n <= Head
  <2> DEFINE to == offset - n
             F == Copy(data, to, data, offset, at)
  <2>1. e.cap = capacity /\ e.off = to /\ e.mem = F
    BY <1>1 DEF Gaps
  <2>2. to \in Int /\ 0 <= to /\ to + at <= capacity
    BY <1>0, <1>1 DEF Head
  <2>3. Copied(F, data, capacity, to, data, offset, at)
    BY <1>0, <1>a, <2>2, CopyFacts, Zenon
  <2> HIDE DEF F
  <2>4. ASSUME NEW i \in at .. size - 1 PROVE F[to + n + i] = data[offset + i]
    <3>1. to + n + i = offset + i /\ offset + i \in 0 .. capacity - 1 /\ to + at <= offset + i
      BY <1>0
    <3> QED BY <2>3, <3>1 DEF Copied
  <2>5. DOMAIN F = 0 .. capacity - 1 /\ \A i \in 0 .. at - 1 : F[to + i] = data[offset + i]
    BY <2>3 DEF Copied
  <2>6. to \in Nat /\ to + size + n <= capacity
    BY <1>0, <2>2
  <2> HIDE DEF to
  <2> QED BY <1>0, <2>1, <2>4, <2>5, <2>6 DEF Opened
<1>2. CASE ~(n <= Head) /\ n <= Tail
  <2> DEFINE to == offset + at + n
             F == Copy(data, to, data, offset + at, size - at)
  <2>1. e.cap = capacity /\ e.off = offset /\ e.mem = F
    BY <1>2 DEF Gaps
  <2>2. to \in Int /\ 0 <= to /\ to + (size - at) <= capacity
    BY <1>0, <1>2 DEF Tail
  <2>3. Copied(F, data, capacity, to, data, offset + at, size - at)
    BY <1>0, <1>a, <2>2, CopyFacts, Zenon
  <2> HIDE DEF F
  <2>4. ASSUME NEW i \in at .. size - 1 PROVE F[offset + n + i] = data[offset + i]
    <3>1. i - at \in 0 .. (size - at) - 1 /\ to + (i - at) = offset + n + i
          /\ (offset + at) + (i - at) = offset + i
      BY <1>0
    <3>2. F[to + (i - at)] = data[(offset + at) + (i - at)]
      BY <2>3, <3>1 DEF Copied
    <3> QED BY <3>1, <3>2
  <2>5. ASSUME NEW i \in 0 .. at - 1 PROVE F[offset + i] = data[offset + i]
    <3>1. offset + i \in 0 .. capacity - 1 /\ offset + i < to
      BY <1>0
    <3> QED BY <2>3, <3>1 DEF Copied
  <2>6. offset + size + n <= capacity /\ DOMAIN F = 0 .. capacity - 1
    BY <1>0, <1>2, <2>3 DEF Tail, Copied
  <2> HIDE DEF to
  <2> QED BY <1>0, <2>1, <2>4, <2>5, <2>6 DEF Opened
<1>3. ASSUME NEW d, NEW c \in Nat, DOMAIN d = 0 .. c - 1, NEW to \in Int, NEW s,
             s = data \/ (s = Copy(d, to, data, offset, at) /\ d = data /\ to <= offset /\ c = capacity),
             0 <= to, to + size + n <= c,
             e.cap = c, e.off = to,
             e.mem = Copy(Copy(d, to, data, offset, at), to + at + n, s, offset + at, size - at)
      PROVE  Opened(e, o.at, o.len)
  <2> DEFINE D1 == Copy(d, to, data, offset, at)
             D2 == Copy(D1, to + at + n, s, offset + at, size - at)
  <2>0. c \in Nat /\ to \in Int /\ 0 <= to /\ to + size + n <= c /\ e.cap = c /\ e.off = to
    BY <1>3, Zenon
  <2>1. to + at <= c /\ to + at + n \in Int /\ 0 <= to + at + n
        /\ (to + at + n) + (size - at) <= c
    BY <1>0, <2>0
  <2>2. Copied(D1, d, c, to, data, offset, at)
    BY <1>3, <1>a, <2>1, CopyFacts, Zenon
  <2> HIDE DEF D1
  <2>3. DOMAIN D1 = 0 .. c - 1
    BY <2>2 DEF Copied
  <2>4. Copied(D2, D1, c, to + at + n, s, offset + at, size - at)
    BY <1>3, <1>a, <2>1, <2>3, CopyFacts, Zenon
  <2> HIDE DEF D2
  <2>5. ASSUME NEW i \in 0 .. at - 1 PROVE D2[to + i] = data[offset + i]
    <3>1. to + i \in 0 .. c - 1 /\ to + i < to + at + n
      BY <1>0, <2>0
    <3>2. D2[to + i] = D1[to + i]
      BY <2>4, <3>1 DEF Copied
    <3> QED BY <2>2, <3>2 DEF Copied
  <2>6. ASSUME NEW i \in at .. size - 1 PROVE s[offset + i] = data[offset + i]
    <3>1. CASE s = data
      BY <3>1
    <3>2. CASE s = D1 /\ d = data /\ to <= offset /\ c = capacity
      <4>1. offset + i \in 0 .. c - 1 /\ to + at <= offset + i
        BY <1>0, <2>0, <3>2
      <4> QED BY <2>2, <3>2, <4>1 DEF Copied
    <3> QED BY <1>3, <3>1, <3>2 DEF D1
  <2>7. ASSUME NEW i \in at .. size - 1 PROVE D2[to + n + i] = data[offset + i]
    <3>1. i - at \in 0 .. (size - at) - 1
      BY <1>0
    <3>2. (to + at + n) + (i - at) = to + n + i /\ (offset + at) + (i - at) = offset + i
      <4>1. i \in Int /\ to \in Int /\ at \in Int /\ n \in Int /\ offset \in Int
        BY <1>0, <2>0
      <4> HIDE DEF at, n
      <4> QED BY <4>1
    <3>3. D2[(to + at + n) + (i - at)] = s[(offset + at) + (i - at)]
      BY <2>4, <3>1 DEF Copied
    <3> QED BY <2>6, <3>2, <3>3
  <2>8. e.mem = D2 /\ DOMAIN D2 = 0 .. c - 1
    BY <1>3, <2>4 DEF Copied, D1, D2
  <2> QED BY <1>0, <2>0, <2>5, <2>7, <2>8 DEF Opened
<1>4. CASE ~(n <= Head) /\ ~(n <= Tail) /\ n <= Tail + Head
  <2> DEFINE to == IF Head > Tail THEN capacity - (size + n) ELSE 0
  <2>1. e = [cap |-> capacity, off |-> to, mem |-> MovedApart(data, data, to, o)]
    BY <1>4 DEF Gaps
  <2>2. to \in Int /\ 0 <= to /\ to <= offset /\ to + size + n <= capacity
    BY <1>0, <1>4 DEF Head, Tail
  <2> HIDE DEF to
  <2>3. MovedApart(data, data, to, o)
          = Copy(Copy(data, to, data, offset, at), to + at + n,
                 Copy(data, to, data, offset, at), offset + at, size - at)
    BY DEF MovedApart
  <2>4. e.cap = capacity /\ e.off = to /\ e.mem = MovedApart(data, data, to, o)
    BY <2>1
  <2> QED BY <1>0, <1>3, <2>2, <2>3, <2>4, Zenon
<1>5. CASE ~(n <= Head) /\ ~(n <= Tail) /\ ~(n <= Tail + Head)
  <2>1. PICK c \in 0 .. MaxCapacity :
          /\ dc_buffer_expand_calc(size + n, c)
          /\ e = [cap |-> c, off |-> IF Head > Tail THEN c - (size + n) ELSE 0,
                  mem |-> MovedApart(Memory(c), data,
                                     IF Head > Tail THEN c - (size + n) ELSE 0, o)]
    BY <1>5 DEF Gaps
  <2> DEFINE to == IF Head > Tail THEN c - (size + n) ELSE 0
  <2>2. size + n <= c /\ c \in Nat
    BY <1>0, <2>1, CalcFacts
  <2>3. DOMAIN Memory(c) = 0 .. c - 1
    BY DEF Memory
  <2>4. Memory(c) # data
    <3>1. capacity < c
      BY <1>0, <1>5, <2>2 DEF Head, Tail
    <3>2. capacity \in 0 .. c - 1 /\ capacity \notin 0 .. capacity - 1
      BY <1>0, <2>2, <3>1
    <3> QED BY <1>0, <2>3, <3>2
  <2>5. to \in Int /\ 0 <= to /\ to + size + n <= c
    BY <1>0, <2>2
  <2>6. e.cap = c /\ e.off = to /\ e.mem = MovedApart(Memory(c), data, to, o)
    BY <2>1
  <2> HIDE DEF to
  <2>7. MovedApart(Memory(c), data, to, o)
          = Copy(Copy(Memory(c), to, data, offset, at), to + at + n,
                 data, offset + at, size - at)
    BY <2>4 DEF MovedApart
  <2> QED BY <1>3, <2>2, <2>3, <2>5, <2>6, <2>7, Zenon
<1> QED BY <1>1, <1>2, <1>4, <1>5

-----------------------------------------------------------------------------
(* The operations *)

\* The contents of the buffer, byte by byte.
LEMMA ContentsAre ==
  ASSUME NEW n, NEW g, g = [i \in 0 .. n - 1 |-> g[i]],
         size' = n, \A i \in 0 .. n - 1 : data'[offset' + i] = g[i]
  PROVE  Contents' = [len |-> n, byte |-> g]
<1>1. [i \in 0 .. n - 1 |-> data'[offset' + i]] = [i \in 0 .. n - 1 |-> g[i]]
  OBVIOUS
<1> QED BY <1>1 DEF Contents

\* An operation as the callers of buffer.c make it.
IsOp(o) == o.at \in Nat /\ o.len \in Nat /\ o.byte \in [0 .. o.len - 1 -> Bytes]

\* The block of o is put into the gap of e.
Fills(e, at, o) ==
  /\ at \in Nat /\ at <= size /\ Opened(e, at, o.len)
  /\ data' = Copy(e.mem, e.off + at, o.byte, 0, o.len)
  /\ capacity' = e.cap /\ offset' = e.off /\ size' = size + o.len
  /\ alive' = alive

\* An operation that adds bytes puts them into the gap.
LEMMA Inserted ==
  ASSUME BufferInv, alive, NEW o, IsOp(o), NEW at, NEW e, Fills(e, at, o)
  PROVE  BufferInv' /\ Contents' = String!With(Contents, at, o)
<1> DEFINE n == o.len
           G(i) == IF i < at THEN Contents.byte[i]
                   ELSE IF i < at + o.len THEN o.byte[i - at]
                   ELSE Contents.byte[i - o.len]
           g == [i \in 0 .. (size + n) - 1 |-> G(i)]
<1>0. /\ capacity \in Nat /\ offset \in Nat /\ size \in Nat /\ offset + size <= capacity
      /\ n \in Nat /\ at \in Nat /\ at <= size
      /\ \A i \in 0 .. size - 1 : data[offset + i] \in Bytes
  BY DEF BufferInv, IsOp, Fills
<1>b. /\ data' = Copy(e.mem, e.off + at, o.byte, 0, n)
      /\ capacity' = e.cap /\ offset' = e.off /\ size' = size + n /\ alive' = alive
      /\ o.byte \in [0 .. n - 1 -> Bytes]
  BY DEF Fills, IsOp
<1>1. /\ e.cap \in Nat /\ e.off \in Nat /\ e.off + size + n <= e.cap
      /\ DOMAIN e.mem = 0 .. e.cap - 1
      /\ \A i \in 0 .. at - 1 : e.mem[e.off + i] = data[offset + i]
      /\ \A i \in at .. size - 1 : e.mem[e.off + n + i] = data[offset + i]
  BY DEF Fills, Opened
<1>2. Copied(data', e.mem, e.cap, e.off + at, o.byte, 0, n)
  <2>1. e.off + at \in Int /\ 0 \in Int /\ n \in Int /\ 0 <= e.off + at
        /\ (e.off + at) + n <= e.cap
    BY <1>0, <1>1
  <2> QED BY <1>1, <1>b, <2>1, CopyFacts, Zenon
<1>3. DOMAIN data' = 0 .. capacity' - 1
  BY <1>2, <1>b DEF Copied
<1>4. \A i \in 0 .. size - 1 : Contents.byte[i] = data[offset + i]
  BY DEF Contents
<1>a. /\ size \in Nat /\ n \in Nat /\ at \in Nat /\ at <= size
      /\ e.cap \in Nat /\ e.off \in Nat /\ e.off + size + n <= e.cap
  BY <1>0, <1>1, Zenon
<1>5. ASSUME NEW i \in 0 .. (size + n) - 1
      PROVE  data'[offset' + i] = G(i) /\ G(i) \in Bytes
  <2>1. CASE i < at
    <3>0. i \in 0 .. at - 1 /\ i \in 0 .. size - 1
      BY <1>a, <2>1
    <3>1. e.off + i \in 0 .. e.cap - 1 /\ e.off + i < e.off + at
      BY <1>a, <3>0
    <3>2. data'[e.off + i] = e.mem[e.off + i]
      BY <1>2, <3>1 DEF Copied
    <3>3. G(i) = Contents.byte[i]
      BY <2>1
    <3> QED BY <1>0, <1>1, <1>b, <1>4, <3>0, <3>2, <3>3
  <2>2. CASE ~(i < at) /\ i < at + n
    <3>1. i - at \in 0 .. n - 1 /\ (e.off + at) + (i - at) = e.off + i /\ 0 + (i - at) = i - at
      BY <1>a, <2>2
    <3>2. data'[e.off + i] = o.byte[i - at]
      BY <1>2, <3>1 DEF Copied
    <3>3. G(i) = o.byte[i - at]
      BY <2>2
    <3> QED BY <1>b, <3>1, <3>2, <3>3
  <2>3. CASE ~(i < at) /\ ~(i < at + n)
    <3>0. i - n \in at .. size - 1 /\ i - n \in 0 .. size - 1
      BY <1>a, <2>3
    <3>1. e.off + n + (i - n) = e.off + i
          /\ e.off + i \in 0 .. e.cap - 1 /\ (e.off + at) + n <= e.off + i
      BY <1>a, <2>3
    <3>2. data'[e.off + i] = e.mem[e.off + n + (i - n)]
      BY <1>2, <3>1 DEF Copied
    <3>3. G(i) = Contents.byte[i - n]
      BY <2>3
    <3> QED BY <1>0, <1>1, <1>b, <1>4, <3>0, <3>2, <3>3
  <2> QED BY <2>1, <2>2, <2>3
<1> HIDE DEF G
<1>6. BufferInv'
  <2>1. capacity' \in Nat /\ offset' \in Nat /\ size' \in Nat /\ offset' + size' <= capacity'
    BY <1>a, <1>b
  <2>2. \A i \in 0 .. size' - 1 : data'[offset' + i] \in Bytes
    BY <1>5, <1>b
  <2> QED BY <1>3, <1>b, <2>1, <2>2 DEF BufferInv
<1>7. Contents' = [len |-> size + n, byte |-> g]
  <2>1. g = [i \in 0 .. (size + n) - 1 |-> g[i]]
    OBVIOUS
  <2>2. \A i \in 0 .. (size + n) - 1 : data'[offset' + i] = g[i]
    BY <1>5
  <2> HIDE DEF g
  <2> QED BY <1>b, <2>1, <2>2, ContentsAre
<1>8. String!With(Contents, at, o) = [len |-> size + n, byte |-> g]
  BY DEF String!With, String!Text, Contents, G
<1> QED BY <1>6, <1>7, <1>8

\* The step of ByteString that o stands for.
StringStep(o) ==
  /\ alive # (o.name = "new")
  /\ op' = o
  /\ \/ /\ String!Legal(Contents, o)
        /\ returned' = TRUE
        /\ alive' = (o.name # "free")
        /\ Contents' = String!Effect(Contents, o)
     \/ /\ String!MayFail(Contents, o)
        /\ returned' = FALSE
        /\ UNCHANGED <<alive, Contents>>

\* An operation that fails leaves the buffer alone.
LEMMA FailStep ==
  ASSUME BufferInv, NEW o, alive # (o.name = "new"), Fails(o), String!MayFail(Contents, o)
  PROVE  BufferInv' /\ StringStep(o)
<1>1. UNCHANGED <<alive, data, capacity, offset, size>> /\ op' = o /\ returned' = FALSE
  BY DEF Fails
<1>2. BufferInv'
  BY <1>1 DEF BufferInv
<1>3. Contents' = Contents
  BY <1>1 DEF Contents
<1> QED BY <1>1, <1>2, <1>3 DEF StringStep

\* A buffer without bytes.
LEMMA EmptyStep ==
  ASSUME BufferInv, NEW o, alive # (o.name = "new"), o.name \in {"new", "free", "clear"},
         Succeeds(o), alive' = (o.name # "free"),
         capacity' \in Nat, DOMAIN data' = 0 .. capacity' - 1, offset' = 0, size' = 0
  PROVE  BufferInv' /\ StringStep(o)
<1>1. BufferInv'
  BY DEF BufferInv
<1>2. String!Legal(Contents, o)
  BY DEF String!Legal
<1>3. String!Effect(Contents, o) = [len |-> 0, byte |-> [i \in 0 .. 0 - 1 |-> Zero]]
  BY DEF String!Effect, String!EmptyText, String!Text
<1>4. Contents' = [len |-> 0, byte |-> [i \in 0 .. 0 - 1 |-> Zero]]
  BY DEF Contents
<1> QED BY <1>1, <1>2, <1>3, <1>4 DEF StringStep, Succeeds

\* dc_buffer_new.
LEMMA NewStep ==
  ASSUME BufferInv, MaxCapacity \in Nat, NEW o, IsOp(o), o.name = "new", New(o)
  PROVE  BufferInv' /\ StringStep(o)
<1>1. alive # (o.name = "new") /\ o.len \in Nat
  BY DEF New, BufferInv, IsOp
<1>2. CASE o.len > 0 /\ Fails(o)
  <2>1. String!MayFail(Contents, o)
    BY <1>2 DEF String!MayFail
  <2> QED BY <1>1, <1>2, <2>1, FailStep
<1>3. CASE /\ alive' = TRUE
           /\ data' = Memory(o.len) /\ capacity' = o.len /\ offset' = 0 /\ size' = 0
           /\ Succeeds(o)
  <2>1. DOMAIN data' = 0 .. capacity' - 1
    BY <1>3 DEF Memory
  <2> QED BY <1>1, <1>3, <2>1, EmptyStep
<1> QED BY <1>2, <1>3 DEF New

\* dc_buffer_free.
LEMMA FreeStep ==
  ASSUME BufferInv, NEW o, o.name = "free", Free(o)
  PROVE  BufferInv' /\ StringStep(o)
<1>1. alive # (o.name = "new") /\ alive' = (o.name # "free")
  BY DEF Free, BufferInv
<1>2. capacity' \in Nat /\ DOMAIN data' = 0 .. capacity' - 1 /\ offset' = 0 /\ size' = 0
      /\ Succeeds(o)
  BY DEF Free, Memory
<1> QED BY <1>1, <1>2, EmptyStep

\* dc_buffer_clear keeps the block.
LEMMA ClearStep ==
  ASSUME BufferInv, NEW o, o.name = "clear", Clear(o)
  PROVE  BufferInv' /\ StringStep(o)
<1>1. alive # (o.name = "new") /\ alive' = (o.name # "free")
  BY DEF Clear, BufferInv
<1>2. capacity' \in Nat /\ DOMAIN data' = 0 .. capacity' - 1 /\ offset' = 0 /\ size' = 0
      /\ Succeeds(o)
  BY DEF Clear, BufferInv
<1> QED BY <1>1, <1>2, EmptyStep

\* dc_buffer_reserve: realloc keeps the used part.
LEMMA ReserveStep ==
  ASSUME BufferInv, MaxCapacity \in Nat, NEW o, IsOp(o), o.name = "reserve", Reserve(o)
  PROVE  BufferInv' /\ StringStep(o)
<1>0. alive # (o.name = "new") /\ (o.name # "free") = TRUE /\ alive = TRUE
  BY DEF Reserve, BufferInv
<1>1. /\ capacity \in Nat /\ offset \in Nat /\ size \in Nat /\ offset + size <= capacity
      /\ DOMAIN data = 0 .. capacity - 1 /\ o.len \in Nat
      /\ \A i \in 0 .. size - 1 : data[offset + i] \in Bytes
  BY DEF BufferInv, IsOp
<1>2. CASE capacity < o.len /\ Fails(o)
  <2>1. String!MayFail(Contents, o)
    BY DEF String!MayFail
  <2> QED BY <1>0, <1>2, <2>1, FailStep
<1>3. ASSUME Succeeds(o), UNCHANGED <<alive, offset, size>>,
             capacity' \in Nat, DOMAIN data' = 0 .. capacity' - 1, capacity <= capacity',
             \A i \in 0 .. size - 1 : data'[offset + i] = data[offset + i]
      PROVE  BufferInv' /\ StringStep(o)
  <2>a. capacity' \in Nat /\ capacity <= capacity'
    BY <1>3
  <2>b. offset + size <= capacity'
    BY <1>1, <2>a
  <2>c. \A i \in 0 .. size - 1 : data'[offset + i] \in Bytes
    <3>1. \A i \in 0 .. size - 1 : data'[offset + i] = data[offset + i]
      BY <1>3
    <3> QED BY <1>1, <3>1, Zenon
  <2>0. offset + size <= capacity' /\ \A i \in 0 .. size - 1 : data'[offset + i] \in Bytes
    BY <2>b, <2>c
  <2>1. BufferInv'
    BY <1>0, <1>1, <1>3, <2>0 DEF BufferInv
  <2>2. Contents' = Contents
    BY <1>3 DEF Contents
  <2>3. String!Legal(Contents, o) /\ String!Effect(Contents, o) = Contents
    BY DEF String!Legal, String!Effect
  <2> QED BY <1>0, <1>3, <2>1, <2>2, <2>3 DEF StringStep, Succeeds
<1>4. CASE Succeeds(o) /\ UNCHANGED <<alive, data, capacity, offset, size>>
  BY <1>1, <1>3, <1>4
<1>5. CASE /\ capacity < o.len
           /\ data' = Copy(Memory(o.len), 0, data, 0, capacity)
           /\ capacity' = o.len /\ Succeeds(o) /\ UNCHANGED <<alive, offset, size>>
  <2>1. DOMAIN Memory(o.len) = 0 .. o.len - 1
    BY DEF Memory
  <2>2. 0 \in Int /\ capacity \in Int /\ 0 <= 0 /\ 0 + capacity <= o.len
    BY <1>1, <1>5
  <2>3. Copied(data', Memory(o.len), o.len, 0, data, 0, capacity)
    BY <1>1, <1>5, <2>1, <2>2, CopyFacts, Zenon
  <2>4. ASSUME NEW i \in 0 .. size - 1 PROVE data'[offset + i] = data[offset + i]
    <3>1. offset + i \in 0 .. capacity - 1 /\ 0 + (offset + i) = offset + i
      BY <1>1
    <3> QED BY <2>3, <3>1 DEF Copied
  <2>5. DOMAIN data' = 0 .. capacity' - 1
    BY <1>5, <2>3 DEF Copied
  <2> QED BY <1>1, <1>3, <1>5, <2>4, <2>5
<1> QED BY <1>2, <1>4, <1>5 DEF Reserve

\* dc_buffer_resize: what is added is zero, not what the memory held.
LEMMA ResizeStep ==
  ASSUME BufferInv, MaxCapacity \in Nat, Zero \in Bytes,
         NEW o, IsOp(o), o.name = "resize", Resize(o)
  PROVE  BufferInv' /\ StringStep(o)
<1> DEFINE n == o.len
           z == [i \in 0 .. n |-> Zero]
           g == [i \in 0 .. n - 1 |-> IF i < size THEN Contents.byte[i] ELSE Zero]
<1>0. alive # (o.name = "new") /\ (o.name # "free") = TRUE /\ alive = TRUE
  BY DEF Resize, BufferInv
<1>1. /\ capacity \in Nat /\ offset \in Nat /\ size \in Nat /\ offset + size <= capacity
      /\ n \in Nat
  BY DEF BufferInv, IsOp
<1>2. CASE n > capacity /\ Fails(o)
  <2>1. n > Contents.len
    BY <1>1, <1>2 DEF Contents
  <2>2. String!MayFail(Contents, o)
    BY <2>1 DEF String!MayFail
  <2> QED BY <1>0, <1>2, <2>2, FailStep
<1>3. ASSUME NEW e \in ExpandAppend(n),
             data' = Copy(e.mem, e.off + size, z, 0, n - size),
             capacity' = e.cap, offset' = e.off, size' = n, Succeeds(o), alive' = alive
      PROVE  BufferInv' /\ StringStep(o)
  <2> HIDE DEF z
  <2>1. Holds(e, n)
    BY <1>1, <1>3, ExpandAppendFacts
  <2>2. /\ e.cap \in Nat /\ e.off \in Nat /\ e.off + n <= e.cap /\ e.off + size <= e.cap
        /\ DOMAIN e.mem = 0 .. e.cap - 1
    BY <2>1 DEF Holds
  <2>3. Copied(data', e.mem, e.cap, e.off + size, z, 0, n - size)
    <3>1. e.off + size \in Int /\ 0 \in Int /\ n - size \in Int /\ 0 <= e.off + size
          /\ (e.off + size) + (n - size) <= e.cap
      BY <1>1, <2>2
    <3> QED BY <1>3, <2>2, <3>1, CopyFacts, Zenon
  <2>4. \A i \in 0 .. size - 1 : Contents.byte[i] = data[offset + i] /\ data[offset + i] \in Bytes
    BY DEF Contents, BufferInv
  <2>5. ASSUME NEW i \in 0 .. n - 1
        PROVE  data'[e.off + i] = g[i] /\ g[i] \in Bytes
    <3>1. CASE i < size
      <4>1. i \in 0 .. size - 1 /\ e.off + i \in 0 .. e.cap - 1 /\ e.off + i < e.off + size
        BY <1>1, <2>2, <3>1
      <4>2. data'[e.off + i] = e.mem[e.off + i]
        BY <2>3, <4>1 DEF Copied
      <4>3. e.mem[e.off + i] = data[offset + i]
        BY <2>1, <4>1 DEF Holds
      <4>4. g[i] = Contents.byte[i]
        BY <3>1
      <4> QED BY <2>4, <4>1, <4>2, <4>3, <4>4
    <3>2. CASE ~(i < size)
      <4>1. i - size \in 0 .. (n - size) - 1 /\ (e.off + size) + (i - size) = e.off + i
            /\ 0 + (i - size) = i - size /\ i - size \in 0 .. n
        BY <1>1, <2>2, <3>2
      <4>2. data'[e.off + i] = z[i - size]
        BY <2>3, <4>1 DEF Copied
      <4>3. z[i - size] = Zero
        BY <4>1 DEF z
      <4>4. g[i] = Zero
        BY <3>2
      <4> QED BY <4>2, <4>3, <4>4
    <3> QED BY <3>1, <3>2
  <2>6. BufferInv'
    <3>1. capacity' \in Nat /\ offset' \in Nat /\ size' \in Nat /\ offset' + size' <= capacity'
      BY <1>1, <1>3, <2>2
    <3>2. DOMAIN data' = 0 .. capacity' - 1
      BY <1>3, <2>3 DEF Copied
    <3>3. \A i \in 0 .. size' - 1 : data'[offset' + i] \in Bytes
      BY <1>3, <2>5
    <3> QED BY <1>0, <1>3, <3>1, <3>2, <3>3 DEF BufferInv
  <2>7. Contents' = [len |-> n, byte |-> g]
    <3>1. g = [i \in 0 .. n - 1 |-> g[i]]
      OBVIOUS
    <3> HIDE DEF g
    <3> QED BY <1>3, <2>5, <3>1, ContentsAre
  <2>8. String!Effect(Contents, o) = [len |-> n, byte |-> g] /\ String!Legal(Contents, o)
    BY DEF String!Effect, String!Text, String!Legal, Contents
  <2> QED BY <1>0, <1>3, <2>6, <2>7, <2>8 DEF StringStep, Succeeds
<1> QED BY <1>2, <1>3 DEF Resize

\* The operations that add bytes, once the gap is open.
LEMMA InsertedStep ==
  ASSUME BufferInv, NEW o, IsOp(o), alive = TRUE, NEW at, NEW e, Fills(e, at, o), Succeeds(o),
         \/ o.name = "append" /\ at = size
         \/ o.name = "prepend" /\ at = 0
         \/ o.name = "insert" /\ at = o.at
  PROVE  BufferInv' /\ StringStep(o)
<1>1. BufferInv' /\ Contents' = String!With(Contents, at, o)
  BY Inserted
<1>2. alive' = TRUE /\ (o.name # "free") = TRUE /\ (o.name = "new") = FALSE
  BY DEF Fills
<1>3. String!Effect(Contents, o) = String!With(Contents, at, o)
  BY DEF String!Effect, Contents
<1>4. String!Legal(Contents, o)
  BY DEF String!Legal, Contents, Fills
<1> QED BY <1>1, <1>2, <1>3, <1>4 DEF StringStep, Succeeds

\* dc_buffer_append.
LEMMA AppendStep ==
  ASSUME BufferInv, MaxCapacity \in Nat, NEW o, IsOp(o), o.name = "append", Append(o)
  PROVE  BufferInv' /\ StringStep(o)
<1>0. alive = TRUE /\ alive # (o.name = "new")
  BY DEF Append, BufferInv
<1>1. size \in Nat /\ capacity \in Nat /\ offset \in Nat /\ offset + size <= capacity /\ o.len \in Nat
  BY DEF BufferInv, IsOp
<1>2. CASE size + o.len > capacity /\ Fails(o)
  <2>1. o.len > 0
    BY <1>1, <1>2
  <2>2. String!MayFail(Contents, o)
    BY <2>1 DEF String!MayFail
  <2> QED BY <1>0, <1>2, <2>2, FailStep
<1>3. ASSUME NEW e \in ExpandAppend(size + o.len),
             data' = Copy(e.mem, e.off + size, o.byte, 0, o.len),
             capacity' = e.cap, offset' = e.off, size' = size + o.len, Succeeds(o), alive' = alive
      PROVE  BufferInv' /\ StringStep(o)
  <2>1. Holds(e, size + o.len)
    BY <1>1, <1>3, ExpandAppendFacts
  <2>2. Opened(e, size, o.len)
    BY <1>1, <2>1 DEF Holds, Opened
  <2>3. Fills(e, size, o)
    BY <1>1, <1>3, <2>2 DEF Fills
  <2> QED BY <1>0, <1>3, <2>3, InsertedStep
<1> QED BY <1>2, <1>3 DEF Append

\* dc_buffer_prepend.
LEMMA PrependStep ==
  ASSUME BufferInv, MaxCapacity \in Nat, NEW o, IsOp(o), o.name = "prepend", Prepend(o)
  PROVE  BufferInv' /\ StringStep(o)
<1>0. alive = TRUE /\ alive # (o.name = "new")
  BY DEF Prepend, BufferInv
<1>1. size \in Nat /\ capacity \in Nat /\ offset \in Nat /\ offset + size <= capacity /\ o.len \in Nat
  BY DEF BufferInv, IsOp
<1>2. CASE size + o.len > capacity /\ Fails(o)
  <2>1. o.len > 0
    BY <1>1, <1>2
  <2>2. String!MayFail(Contents, o)
    BY <2>1 DEF String!MayFail
  <2> QED BY <1>0, <1>2, <2>2, FailStep
<1>3. ASSUME NEW e \in ExpandPrepend(size + o.len),
             data' = Copy(e.mem, e.off - o.len, o.byte, 0, o.len),
             capacity' = e.cap, offset' = e.off - o.len, size' = size + o.len, Succeeds(o),
             alive' = alive
      PROVE  BufferInv' /\ StringStep(o)
  <2> DEFINE f == [cap |-> e.cap, off |-> e.off - o.len, mem |-> e.mem]
  <2>1. Holds(e, size) /\ size + o.len <= e.off + size
    BY <1>1, <1>3, ExpandPrependFacts
  <2>2. /\ e.cap \in Nat /\ e.off \in Nat /\ e.off + size <= e.cap
        /\ DOMAIN e.mem = 0 .. e.cap - 1
        /\ \A i \in 0 .. size - 1 : e.mem[e.off + i] = data[offset + i]
    BY <2>1 DEF Holds
  <2>3. e.off - o.len \in Nat /\ (e.off - o.len) + size + o.len <= e.cap
        /\ (e.off - o.len) + o.len = e.off /\ (e.off - o.len) + 0 = e.off - o.len
    BY <1>1, <2>1, <2>2
  <2>4. f.cap = e.cap /\ f.off = e.off - o.len /\ f.mem = e.mem
    OBVIOUS
  <2> HIDE DEF f
  <2>5. Opened(f, 0, o.len)
    BY <2>2, <2>3, <2>4 DEF Opened
  <2>6. Fills(f, 0, o)
    BY <1>1, <1>3, <2>3, <2>4, <2>5 DEF Fills
  <2> QED BY <1>0, <1>3, <2>6, InsertedStep
<1> QED BY <1>2, <1>3 DEF Prepend

\* dc_buffer_insert.
LEMMA InsertStep ==
  ASSUME BufferInv, MaxCapacity \in Nat, NEW o, IsOp(o), o.name = "insert", Insert(o)
  PROVE  BufferInv' /\ StringStep(o)
<1>0. alive = TRUE /\ alive # (o.name = "new")
  BY DEF Insert, BufferInv
<1>1. /\ size \in Nat /\ capacity \in Nat /\ offset \in Nat /\ offset + size <= capacity
      /\ o.len \in Nat /\ o.at \in Nat
  BY DEF BufferInv, IsOp
<1>2. CASE o.at > size /\ Fails(o)
  <2>1. ~(o.at <= Contents.len)
    BY <1>1, <1>2 DEF Contents
  <2>2. String!MayFail(Contents, o)
    BY <2>1 DEF String!MayFail, String!Legal
  <2> QED BY <1>0, <1>2, <2>2, FailStep
<1>3. CASE o.len > Tail + Head /\ Fails(o)
  <2>1. o.len > 0
    BY <1>1, <1>3 DEF Tail, Head
  <2>2. String!MayFail(Contents, o)
    BY <2>1 DEF String!MayFail
  <2> QED BY <1>0, <1>3, <2>2, FailStep
<1>4. ASSUME o.at <= size, NEW e \in Gaps(o),
             data' = Copy(e.mem, e.off + o.at, o.byte, 0, o.len),
             capacity' = e.cap, offset' = e.off, size' = size + o.len, Succeeds(o), alive' = alive
      PROVE  BufferInv' /\ StringStep(o)
  <2>1. Opened(e, o.at, o.len)
    BY <1>1, <1>4, GapsFacts
  <2>2. Fills(e, o.at, o)
    BY <1>1, <1>4, <2>1 DEF Fills
  <2> QED BY <1>0, <1>4, <2>2, InsertedStep
<1> QED BY <1>2, <1>3, <1>4 DEF Insert

\* dc_buffer_slice.
LEMMA SliceStep ==
  ASSUME BufferInv, NEW o, IsOp(o), o.name = "slice", Slice(o)
  PROVE  BufferInv' /\ StringStep(o)
<1> DEFINE g == [i \in 0 .. o.len - 1 |-> Contents.byte[o.at + i]]
<1>0. alive = TRUE /\ alive # (o.name = "new") /\ (o.name # "free") = TRUE
  BY DEF Slice, BufferInv
<1>1. /\ size \in Nat /\ capacity \in Nat /\ offset \in Nat /\ offset + size <= capacity
      /\ o.len \in Nat /\ o.at \in Nat
  BY DEF BufferInv, IsOp
<1>2. CASE o.at + o.len > size /\ Fails(o)
  <2>1. ~(o.at + o.len <= Contents.len)
    BY <1>1, <1>2 DEF Contents
  <2>2. String!MayFail(Contents, o)
    BY <2>1 DEF String!MayFail, String!Legal
  <2> QED BY <1>0, <1>2, <2>2, FailStep
<1>3. CASE /\ o.at + o.len <= size /\ offset' = offset + o.at /\ size' = o.len
           /\ Succeeds(o) /\ UNCHANGED <<alive, data, capacity>>
  <2>1. ASSUME NEW i \in 0 .. o.len - 1
        PROVE  data'[offset' + i] = g[i] /\ g[i] \in Bytes
    <3>1. o.at + i \in 0 .. size - 1 /\ (offset + o.at) + i = offset + (o.at + i)
      BY <1>1, <1>3
    <3>2. Contents.byte[o.at + i] = data[offset + (o.at + i)] /\ data[offset + (o.at + i)] \in Bytes
      BY <3>1 DEF Contents, BufferInv
    <3> QED BY <1>3, <3>1, <3>2
  <2>2. BufferInv'
    <3>1. capacity' \in Nat /\ offset' \in Nat /\ size' \in Nat /\ offset' + size' <= capacity'
      BY <1>1, <1>3
    <3>2. DOMAIN data' = 0 .. capacity' - 1
      BY <1>3 DEF BufferInv
    <3> QED BY <1>0, <1>3, <2>1, <3>1, <3>2 DEF BufferInv
  <2>3. Contents' = [len |-> o.len, byte |-> g]
    <3>1. g = [i \in 0 .. o.len - 1 |-> g[i]]
      OBVIOUS
    <3> HIDE DEF g
    <3> QED BY <1>3, <2>1, <3>1, ContentsAre
  <2>4. String!Effect(Contents, o) = [len |-> o.len, byte |-> g]
    BY DEF String!Effect, String!Text, Contents
  <2>5. String!Legal(Contents, o)
    BY <1>3 DEF String!Legal, Contents
  <2> QED BY <1>0, <1>3, <2>2, <2>3, <2>4, <2>5 DEF StringStep, Succeeds
<1> QED BY <1>2, <1>3 DEF Slice

-----------------------------------------------------------------------------
(* The theorems *)

\* Every step keeps the invariant, and is a step of ByteString or none.
LEMMA Step ==
  ASSUME BufferAssumption, BufferInv, [Next]_vars
  PROVE  BufferInv' /\ [String!Next]_(String!strvars)
<1>1. CASE UNCHANGED vars
  <2>1. UNCHANGED <<alive, data, capacity, offset, size, op, returned>>
    BY <1>1 DEF vars
  <2>2. BufferInv'
    BY <2>1 DEF BufferInv
  <2>3. Contents' = Contents
    BY <2>1 DEF Contents
  <2> QED BY <2>1, <2>2, <2>3 DEF String!strvars
<1>2. ASSUME NEW o \in Ops, BufferInv', StringStep(o)
      PROVE  BufferInv' /\ [String!Next]_(String!strvars)
  BY <1>2 DEF StringStep, String!Next
<1>3. ASSUME NEW o \in Ops,
             \/ o.name = "new" /\ New(o)
             \/ o.name = "free" /\ Free(o)
             \/ o.name = "clear" /\ Clear(o)
             \/ o.name = "reserve" /\ Reserve(o)
             \/ o.name = "resize" /\ Resize(o)
             \/ o.name = "append" /\ Append(o)
             \/ o.name = "prepend" /\ Prepend(o)
             \/ o.name = "insert" /\ Insert(o)
             \/ o.name = "slice" /\ Slice(o)
      PROVE  BufferInv' /\ [String!Next]_(String!strvars)
  <2>1. IsOp(o) /\ MaxCapacity \in Nat /\ Zero \in Bytes
    BY DEF BufferAssumption, IsOp
  <2>2. BufferInv' /\ StringStep(o)
    BY <1>3, <2>1, NewStep, FreeStep, ClearStep, ReserveStep, ResizeStep, AppendStep,
       PrependStep, InsertStep, SliceStep
  <2> QED BY <1>2, <2>2
<1> QED BY <1>1, <1>3 DEF Next

\* The used part lies inside its block and holds no byte nobody has put there,
\* after every sequence of operations of buffer.c.
THEOREM BufferCorrect ==
  ASSUME BufferAssumption PROVE Spec => []BufferInv
<1>1. Init => BufferInv
  <2> SUFFICES ASSUME Init PROVE BufferInv
    OBVIOUS
  <2>1. DOMAIN data = 0 .. 0 - 1 /\ alive = FALSE /\ capacity = 0 /\ offset = 0 /\ size = 0
    BY DEF Init, Memory
  <2>2. /\ capacity \in Nat /\ offset \in Nat /\ size \in Nat /\ offset + size <= capacity
        /\ DOMAIN data = 0 .. capacity - 1
    BY <2>1
  <2>3. \A i \in 0 .. size - 1 : data[offset + i] \in Bytes
    BY <2>1
  <2>4. alive \in BOOLEAN /\ (~alive => size = 0)
    BY <2>1, Zenon
  <2> QED BY <2>2, <2>3, <2>4, Zenon DEF BufferInv
<1>2. BufferInv /\ [Next]_vars => BufferInv'
  BY Step
<1> QED BY <1>1, <1>2, PTL DEF Spec

\* A dc_buffer_t is a string of bytes: every operation does to the used part
\* what the operation of that name does to a string, whatever room there is
\* around it and whichever allocation fails.
THEOREM BufferImplementsString ==
  ASSUME BufferAssumption PROVE Spec => StringSpec
<1>1. Init => String!Init
  <2> SUFFICES ASSUME Init PROVE String!Init
    OBVIOUS
  <2>1. Contents = [len |-> 0, byte |-> [i \in 0 .. 0 - 1 |-> Zero]]
    BY DEF Init, Contents
  <2> QED BY <2>1 DEF Init, String!Init, String!EmptyText, String!Text
<1>2. BufferInv /\ [Next]_vars => [String!Next]_(String!strvars)
  BY Step
<1> QED BY <1>1, <1>2, BufferCorrect, PTL DEF Spec, StringSpec, String!Spec

-----------------------------------------------------------------------------
(* The other layers, as they are composed with the buffer *)

PacketP == INSTANCE PacketProofs WITH
  Sizes <- PacketSizes,
  isize <- v1, osize <- v2, cache <- v3, pending <- v4, arrived <- v5, empties <- v6,
  lost <- v7, got <- v8, pc <- v9, size <- v10, nbytes <- v11, status <- v12, wire <- v13,
  written <- v14

HdlcP == INSTANCE HdlcProofs WITH
  OSizes <- WriteSizes, Sizes <- FrameSizes,
  osize <- v1, wpc <- v2, todo <- v3, wbuf <- v4, wire <- v5, rbuf <- v6, rpc <- v7,
  initialized <- v8, escaped <- v9, data <- v10, size <- v11, rstatus <- v12, sent <- v13,
  received <- v14, intact <- v15

TransportP == INSTANCE TransportProofs WITH
  Sizes <- CallSizes, MaxArrived <- MaxLine,
  kind <- v1, timeout <- v2, line <- v3, arrived <- v4, op <- v5, pc <- v6, size <- v7,
  nbytes <- v8, data <- v9, remaining <- v10, left <- v11, spent <- v12, signals <- v13,
  closed <- v14, status <- v15

\* The instance the proofs are about is the one that MCLayers composes.
LEMMA SamePacket ==
  /\ Packet!PacketAssumption <=> PacketP!PacketAssumption
  /\ Packet!Init <=> PacketP!Init
  /\ Packet!TypeOK <=> PacketP!TypeOK
  /\ Packet!BytesInOrder <=> PacketP!BytesInOrder
  /\ Packet!PacketsFit <=> PacketP!PacketsFit
<1>1. Packet!PacketAssumption <=> PacketP!PacketAssumption
  BY DEF Packet!PacketAssumption, PacketP!PacketAssumption
<1>2. Packet!Init <=> PacketP!Init
  BY DEF Packet!Init, PacketP!Init
<1>3. Packet!TypeOK <=> PacketP!TypeOK
  BY DEF Packet!TypeOK, PacketP!TypeOK
<1>4. Packet!BytesInOrder <=> PacketP!BytesInOrder
  BY DEF Packet!BytesInOrder, PacketP!BytesInOrder, Packet!Held, PacketP!Held, Packet!Increasing,
         PacketP!Increasing, Packet!Before, PacketP!Before, Packet!ToSet, PacketP!ToSet
<1>5. Packet!PacketsFit <=> PacketP!PacketsFit
  BY DEF Packet!PacketsFit, PacketP!PacketsFit, Packet!EndOf, PacketP!EndOf
<1> QED BY <1>1, <1>2, <1>3, <1>4, <1>5

LEMMA SamePacketNext == Packet!Next => PacketP!Next
<1> USE DEF Packet!opened, PacketP!opened, Packet!input, PacketP!input, Packet!output, PacketP!output,
            Packet!Looping, PacketP!Looping, Packet!PacketSize, PacketP!PacketSize
<1>1. \A n : Packet!Arrive(n) => PacketP!Arrive(n)
  BY DEF Packet!Arrive, PacketP!Arrive
<1>2. \A n : Packet!Read(n) => PacketP!Read(n)
  BY DEF Packet!Read, PacketP!Read
<1>3. \A n : Packet!Write(n) => PacketP!Write(n)
  BY DEF Packet!Write, PacketP!Write
<1>4. Packet!Fill => PacketP!Fill
  BY DEF Packet!Fill, PacketP!Fill, Packet!Beyond, PacketP!Beyond,
         Packet!Below, PacketP!Below
<1>5. Packet!CopyOut => PacketP!CopyOut
  BY DEF Packet!CopyOut, PacketP!CopyOut
<1>6. Packet!ReadThrough => PacketP!ReadThrough
  BY DEF Packet!ReadThrough, PacketP!ReadThrough, Packet!Beyond, PacketP!Beyond,
         Packet!Below, PacketP!Below
<1>7. Packet!ReadFails => PacketP!ReadFails
  BY DEF Packet!ReadFails, PacketP!ReadFails
<1>8. \A n : Packet!WritePacket(n) => PacketP!WritePacket(n)
  BY DEF Packet!WritePacket, PacketP!WritePacket
<1>9. Packet!WriteFails => PacketP!WriteFails
  BY DEF Packet!WriteFails, PacketP!WriteFails
<1>10. Packet!Return => PacketP!Return
  BY DEF Packet!Return, PacketP!Return
<1>11. Packet!Purge => PacketP!Purge
  BY DEF Packet!Purge, PacketP!Purge, Packet!Held, PacketP!Held, Packet!ToSet, PacketP!ToSet
<1> QED BY <1>1, <1>2, <1>3, <1>4, <1>5, <1>6, <1>7, <1>8, <1>9, <1>10, <1>11
        DEF Packet!Next, PacketP!Next

LEMMA SameHdlc ==
  /\ Hdlc!HdlcAssumption <=> HdlcP!HdlcAssumption
  /\ Hdlc!Init <=> HdlcP!Init
  /\ Hdlc!TypeOK <=> HdlcP!TypeOK
  /\ Hdlc!FramesArrive <=> HdlcP!FramesArrive
<1>1. Hdlc!HdlcAssumption <=> HdlcP!HdlcAssumption
  BY DEF Hdlc!HdlcAssumption, HdlcP!HdlcAssumption
<1>2. Hdlc!Init <=> HdlcP!Init
  BY DEF Hdlc!Init, HdlcP!Init
<1>3. Hdlc!TypeOK <=> HdlcP!TypeOK
  BY DEF Hdlc!TypeOK, HdlcP!TypeOK
<1>4. Hdlc!FramesArrive <=> HdlcP!FramesArrive
  BY DEF Hdlc!FramesArrive, HdlcP!FramesArrive, Hdlc!Delivers, HdlcP!Delivers
<1> QED BY <1>1, <1>2, <1>3, <1>4

LEMMA SameHdlcNext == Hdlc!Next => HdlcP!Next
<1> USE DEF Hdlc!writer, HdlcP!writer, Hdlc!reader, HdlcP!reader, Hdlc!Special, HdlcP!Special,
            Hdlc!Flip, HdlcP!Flip
<1>1. \A n : Hdlc!Write(n) => HdlcP!Write(n)
  BY DEF Hdlc!Write, HdlcP!Write
<1>2. Hdlc!WriteStart => HdlcP!WriteStart
  BY DEF Hdlc!WriteStart, HdlcP!WriteStart, Hdlc!Put, HdlcP!Put
<1>3. Hdlc!WriteEscape => HdlcP!WriteEscape
  BY DEF Hdlc!WriteEscape, HdlcP!WriteEscape, Hdlc!Put, HdlcP!Put
<1>4. Hdlc!WriteByte => HdlcP!WriteByte
  BY DEF Hdlc!WriteByte, HdlcP!WriteByte, Hdlc!Put, HdlcP!Put
<1>5. Hdlc!WriteEnd => HdlcP!WriteEnd
  BY DEF Hdlc!WriteEnd, HdlcP!WriteEnd
<1>6. Hdlc!WriteFails => HdlcP!WriteFails
  BY DEF Hdlc!WriteFails, HdlcP!WriteFails
<1>7. \A n : Hdlc!Read(n) => HdlcP!Read(n)
  BY DEF Hdlc!Read, HdlcP!Read
<1>8. Hdlc!ReadChunk => HdlcP!ReadChunk
  BY DEF Hdlc!ReadChunk, HdlcP!ReadChunk
<1>9. Hdlc!ReadNoise => HdlcP!ReadNoise
  BY DEF Hdlc!ReadNoise, HdlcP!ReadNoise
<1>10. Hdlc!ReadFails => HdlcP!ReadFails
  BY DEF Hdlc!ReadFails, HdlcP!ReadFails, Hdlc!Out, HdlcP!Out
<1>11. Hdlc!ReadEnd => HdlcP!ReadEnd
  BY DEF Hdlc!ReadEnd, HdlcP!ReadEnd, Hdlc!Out, HdlcP!Out
<1>12. Hdlc!ReadEscape => HdlcP!ReadEscape
  BY DEF Hdlc!ReadEscape, HdlcP!ReadEscape, Hdlc!Out, HdlcP!Out
<1>13. Hdlc!ReadByte => HdlcP!ReadByte
  BY DEF Hdlc!ReadByte, HdlcP!ReadByte
<1>14. Hdlc!Purge => HdlcP!Purge
  BY DEF Hdlc!Purge, HdlcP!Purge
<1> QED BY <1>1, <1>2, <1>3, <1>4, <1>5, <1>6, <1>7, <1>8, <1>9, <1>10, <1>11, <1>12, <1>13,
           <1>14
        DEF Hdlc!Next, HdlcP!Next

LEMMA SameTransport ==
  /\ Transport!TransportAssumption <=> TransportP!TransportAssumption
  /\ Transport!Init <=> TransportP!Init
  /\ Transport!TypeOK <=> TransportP!TypeOK
  /\ Transport!BytesInOrder <=> TransportP!BytesInOrder
  /\ Transport!InTime <=> TransportP!InTime
<1>1. Transport!TransportAssumption <=> TransportP!TransportAssumption
  BY DEF Transport!TransportAssumption, TransportP!TransportAssumption
<1>2. Transport!Init <=> TransportP!Init
  BY DEF Transport!Init, TransportP!Init
<1>3. Transport!TypeOK <=> TransportP!TypeOK
  BY DEF Transport!TypeOK, TransportP!TypeOK
<1>4. Transport!BytesInOrder <=> TransportP!BytesInOrder
  BY DEF Transport!BytesInOrder, TransportP!BytesInOrder
<1>5. Transport!InTime <=> TransportP!InTime
  BY DEF Transport!InTime, TransportP!InTime
<1> QED BY <1>1, <1>2, <1>3, <1>4, <1>5

LEMMA SameTransportNext == Transport!Next => TransportP!Next
<1> USE DEF Transport!input, TransportP!input, Transport!clock, TransportP!clock,
            Transport!buffer, TransportP!buffer, Transport!Ready, TransportP!Ready,
            Transport!AfterLoop, TransportP!AfterLoop
<1>1. Transport!Arrive => TransportP!Arrive
  BY DEF Transport!Arrive, TransportP!Arrive
<1>2. Transport!dc_iostream_read => TransportP!dc_iostream_read
  BY DEF Transport!dc_iostream_read, TransportP!dc_iostream_read, Transport!Call,
         TransportP!Call
<1>3. Transport!dc_iostream_write => TransportP!dc_iostream_write
  BY DEF Transport!dc_iostream_write, TransportP!dc_iostream_write, Transport!Call,
         TransportP!Call
<1>4. Transport!dc_iostream_poll => TransportP!dc_iostream_poll
  BY DEF Transport!dc_iostream_poll, TransportP!dc_iostream_poll, Transport!Call,
         TransportP!Call
<1>5. Transport!Prepare => TransportP!Prepare
  BY DEF Transport!Prepare, TransportP!Prepare, Transport!Target, TransportP!Target
<1>6. Transport!Tick => TransportP!Tick
  BY DEF Transport!Tick, TransportP!Tick
<1>7. Transport!Selected => TransportP!Selected
  BY DEF Transport!Selected, TransportP!Selected
<1>8. Transport!Expired => TransportP!Expired
  BY DEF Transport!Expired, TransportP!Expired
<1>9. Transport!Interrupted => TransportP!Interrupted
  BY DEF Transport!Interrupted, TransportP!Interrupted
<1>10. Transport!Fails => TransportP!Fails
  BY DEF Transport!Fails, TransportP!Fails
<1>11. Transport!Receive => TransportP!Receive
  BY DEF Transport!Receive, TransportP!Receive, Transport!Placed, TransportP!Placed
<1>12. Transport!Send => TransportP!Send
  BY DEF Transport!Send, TransportP!Send, Transport!Placed, TransportP!Placed
<1>13. Transport!EndOfFile => TransportP!EndOfFile
  BY DEF Transport!EndOfFile, TransportP!EndOfFile, Transport!CutShort, TransportP!CutShort
<1>14. Transport!LoopEnds => TransportP!LoopEnds
  BY DEF Transport!LoopEnds, TransportP!LoopEnds
<1>15. Transport!Drain => TransportP!Drain
  BY DEF Transport!Drain, TransportP!Drain
<1>16. Transport!Return => TransportP!Return
  BY DEF Transport!Return, TransportP!Return
<1>17. Transport!dc_iostream_purge => TransportP!dc_iostream_purge
  BY DEF Transport!dc_iostream_purge, TransportP!dc_iostream_purge
<1> QED BY <1>1, <1>2, <1>3, <1>4, <1>5, <1>6, <1>7, <1>8, <1>9, <1>10, <1>11, <1>12, <1>13,
           <1>14, <1>15, <1>16, <1>17
        DEF Transport!Next, TransportP!Next

-----------------------------------------------------------------------------
(* The layers together *)

LayersInv ==
  /\ layer = "packet" => PacketP!IInv
  /\ layer = "hdlc" => HdlcP!IInv
  /\ layer = "transport" => TransportP!IInv

\* The constants are what the proofs about the layers assume.
LEMMA Assumptions ==
  PacketP!PacketAssumption /\ HdlcP!HdlcAssumption /\ TransportP!TransportAssumption
BY LayersAssumption, SamePacket, SameHdlc, SameTransport

\* Every state of a layer satisfies the inductive invariant of that layer.
THEOREM LayersCorrect == LayersSpec => []LayersInv
<1>1. LayersInit => LayersInv
  <2> SUFFICES ASSUME LayersInit PROVE LayersInv
    OBVIOUS
  <2>1. layer = "packet" => PacketP!IInv
    BY Assumptions, SamePacket, PacketP!InitInv DEF LayersInit
  <2>2. layer = "hdlc" => HdlcP!IInv
    BY Assumptions, SameHdlc, HdlcP!InitInv DEF LayersInit
  <2>3. layer = "transport" => TransportP!IInv
    BY Assumptions, SameTransport, TransportP!InitInv DEF LayersInit
  <2> QED BY <2>1, <2>2, <2>3 DEF LayersInv
<1>2. LayersInv /\ [LayersNext]_layervars => LayersInv'
  <2> SUFFICES ASSUME LayersInv, [LayersNext]_layervars PROVE LayersInv'
    OBVIOUS
  <2>0. layer' = layer
    BY DEF LayersNext, layervars
  <2>1. ASSUME layer = "packet" PROVE PacketP!IInv'
    <3>1. Packet!Next \/ UNCHANGED others
      BY <2>1 DEF LayersNext, layervars
    <3>2. [PacketP!Next]_(PacketP!vars)
      BY <3>1, SamePacketNext DEF others, PacketP!vars, PacketP!opened, PacketP!input, PacketP!output
    <3> QED BY <2>1, <3>2, Assumptions, PacketP!NextInv DEF LayersInv
  <2>2. ASSUME layer = "hdlc" PROVE HdlcP!IInv'
    <3>1. Hdlc!Next \/ UNCHANGED others
      BY <2>2 DEF LayersNext, layervars
    <3>2. [HdlcP!Next]_(HdlcP!vars)
      BY <3>1, SameHdlcNext DEF others, HdlcP!vars, HdlcP!writer, HdlcP!reader
    <3> QED BY <2>2, <3>2, Assumptions, HdlcP!NextInv DEF LayersInv
  <2>3. ASSUME layer = "transport" PROVE TransportP!IInv'
    <3>1. Transport!Next \/ UNCHANGED others
      BY <2>3 DEF LayersNext, layervars
    <3>2. [TransportP!Next]_(TransportP!vars)
      BY <3>1, SameTransportNext
         DEF others, TransportP!vars, TransportP!input, TransportP!clock, TransportP!buffer
    <3> QED BY <2>3, <3>2, Assumptions, TransportP!NextInv DEF LayersInv
  <2> QED BY <2>0, <2>1, <2>2, <2>3 DEF LayersInv
<1> QED BY <1>1, <1>2, PTL DEF LayersSpec

\* Types and the bounds of the buffers: the cache of packet.c, the write
\* buffer of hdlc.c and the counters of the transports.
THEOREM LayersTypes == LayersSpec => []TypeOK
<1>1. LayersInv => TypeOK
  <2> SUFFICES ASSUME LayersInv PROVE TypeOK
    OBVIOUS
  <2>1. layer = "packet" => Packet!TypeOK
    BY SamePacket DEF LayersInv, PacketP!IInv, PacketP!TypeInv
  <2>2. layer = "hdlc" => Hdlc!TypeOK
    BY SameHdlc DEF LayersInv, HdlcP!IInv, HdlcP!TypeInv
  <2>3. layer = "transport" => Transport!TypeOK
    <3>1. TransportP!IInv => TransportP!TypeOK
      BY DEF TransportP!IInv, TransportP!TypeInv, TransportP!OrderInv, TransportP!TypeOK
    <3> QED BY <3>1, SameTransport DEF LayersInv
  <2> QED BY <2>1, <2>2, <2>3 DEF TypeOK
<1> QED BY <1>1, LayersCorrect, PTL

\* dc_packet_read and the reads and writes of the transports keep the order
\* of the bytes, lose none and repeat none.
THEOREM LayersInOrder == LayersSpec => []BytesInOrder
<1>1. LayersInv => BytesInOrder
  BY SamePacket, SameTransport, PacketP!PartsInOrder, TransportP!CountsInOrder
     DEF LayersInv, BytesInOrder
<1> QED BY <1>1, LayersCorrect, PTL

\* dc_packet_write sends packets of at most osize bytes, without a gap.
THEOREM LayersFit == LayersSpec => []PacketsFit
<1>1. LayersInv => PacketsFit
  BY SamePacket DEF LayersInv, PacketsFit, PacketP!IInv, PacketP!WireInv
<1> QED BY <1>1, LayersCorrect, PTL

\* The n-th dc_hdlc_read returns the n-th frame written, whatever bytes it
\* holds and wherever it is cut, unless something has failed since the last
\* purge.
THEOREM LayersDeliver == LayersSpec => []FramesArrive
<1>1. LayersInv => FramesArrive
  BY SameHdlc DEF LayersInv, FramesArrive, HdlcP!IInv
<1> QED BY <1>1, LayersCorrect, PTL

\* The part of CallsReturn that is safety: a serial read takes no longer than
\* its timeout, and no call of a transport gives up before its time.
THEOREM LayersInTime == LayersSpec => [](layer = "transport" => Transport!InTime)
<1>1. LayersInv => (layer = "transport" => Transport!InTime)
  <2>1. TransportP!IInv => TransportP!InTime
    BY DEF TransportP!IInv, TransportP!RoundsInv, TransportP!ExpiryInv, TransportP!SerialRead,
           TransportP!InTime
  <2> QED BY <2>1, SameTransport DEF LayersInv
<1> QED BY <1>1, LayersCorrect, PTL
=============================================================================
