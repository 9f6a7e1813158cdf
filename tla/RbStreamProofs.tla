--------------------------- MODULE RbStreamProofs ---------------------------
(***************************************************************************)
(* Proofs about the ring of a device and the downloads that walk along it. *)
(* First the functions of ringbuffer.c, which are arithmetic modulo the    *)
(* size of the ring, for every ring and every address.  Then the ring      *)
(* buffer stream, for every page size, packet size, ring, start address,   *)
(* direction and sequence of calls: the inductive invariant IInv, the      *)
(* bounds that follow from it, and that the stream implements the walk of  *)
(* module RingWalk.  Last three families of downloads that rest on both,   *)
(* for every ring: the Suunto drivers, which follow the links from dive to *)
(* dive, the drivers that compute a list of addresses in one pass and read *)
(* along it in a second, both whatever pointers the device holds, and the  *)
(* Oceanic driver, which goes through its logbook twice.                   *)
(***************************************************************************)
EXTENDS RbStream, Ringbuffer, Sequences, TLAPS

-----------------------------------------------------------------------------
(* Division and remainder by a positive number *)

\* Division with remainder, as the page rounding of ifloor and iceil uses it.
LEMMA DivMod ==
  \A x \in Int, p \in Nat \ {0} :
    /\ x \div p \in Int
    /\ x % p \in 0 .. (p - 1)
    /\ x = p * (x \div p) + (x % p)
  BY SMT

\* The remainder is the only number of 0 .. p-1 that differs from the
\* dividend by a multiple of p.
LEMMA ModUnique ==
  \A k, r \in Int, p \in Nat \ {0} : r \in 0 .. (p - 1) => (k * p + r) % p = r
  BY SMT

\* Distributivity, in the form the lemmas below use it.
LEMMA Distribute ==
  \A k, m, p \in Int : (k + m) * p = k * p + m * p /\ (k - m) * p = k * p - m * p
  BY SMT

\* Equal remainders stay equal under addition of the same number, as when
\* the stream and the walk both advance by the length of a copy.
LEMMA CongruentShift ==
  \A a, b, k \in Int, n \in Nat \ {0} :
    a % n = b % n => (a + k) % n = (b + k) % n
<1> SUFFICES ASSUME NEW a \in Int, NEW b \in Int, NEW k \in Int,
                    NEW n \in Nat \ {0}, a % n = b % n
             PROVE  (a + k) % n = (b + k) % n
  OBVIOUS
<1> DEFINE qa == a \div n
           qb == b \div n
           q  == (b + k) \div n
           r  == (b + k) % n
<1>1. qa \in Int /\ qb \in Int /\ a = n * qa + (a % n) /\ b = n * qb + (b % n)
  BY DivMod
<1>2. q \in Int /\ r \in 0 .. (n - 1) /\ b + k = n * q + r
  BY DivMod
<1>3. a % n \in Int
  BY DivMod
<1>4. a + k = n * qa - n * qb + n * q + r
  BY <1>1, <1>2, <1>3
<1>5. n * qa - n * qb + n * q = (qa - qb + q) * n
  <2> HIDE DEF qa, qb, q
  <2>1. (qa - qb + q) * n = (qa - qb) * n + q * n
    BY <1>1, <1>2, Distribute
  <2>2. (qa - qb) * n = qa * n - qb * n
    BY <1>1, Distribute
  <2> QED BY <2>1, <2>2, <1>1, <1>2
<1> HIDE DEF qa, qb, q, r
<1>6. (qa - qb + q) \in Int
  BY <1>1, <1>2
<1>7. ((qa - qb + q) * n + r) % n = r
  BY <1>2, <1>6, ModUnique
<1>8. (a + k) % n = r
  BY <1>4, <1>5, <1>7
<1> QED BY <1>8 DEF r

\* Equal positions on the ring stay equal when both move by k bytes.
LEMMA Shift ==
  ASSUME NEW a \in Int, NEW b \in Int, NEW k \in Int, NEW n \in Nat \ {0},
         a % n = b % n
  PROVE  (a + k) % n = (b + k) % n
  BY CongruentShift, Zenon

\* A number below the modulus is its own remainder.
LEMMA ModSmall ==
  \A x \in Int, n \in Nat \ {0} : x \in 0 .. (n - 1) => x % n = x
  BY SMT

\* A whole lap does not change the remainder: the wrap point.
LEMMA ModLap ==
  \A n \in Nat \ {0} : n % n = 0 /\ 0 % n = 0
  BY SMT

\* Page aligned addresses are closed under sum and difference.
LEMMA AlignedSum ==
  \A x, y \in Int, p \in Nat \ {0} :
    x % p = 0 /\ y % p = 0 => (x + y) % p = 0 /\ (x - y) % p = 0
<1> SUFFICES ASSUME NEW x \in Int, NEW y \in Int, NEW p \in Nat \ {0},
                    x % p = 0, y % p = 0
             PROVE  (x + y) % p = 0 /\ (x - y) % p = 0
  OBVIOUS
<1>1. 0 % p = 0
  BY ModLap
<1>2. ASSUME NEW a \in Int, NEW k \in Int, a % p = 0
      PROVE  (a + k) % p = k % p
  <2>1. 0 \in Int /\ a % p = 0 % p
    BY <1>1, <1>2
  <2>2. (a + k) % p = (0 + k) % p
    BY <2>1, CongruentShift, ZenonT(30)
  <2>3. 0 + k = k
    OBVIOUS
  <2> QED BY <2>2, <2>3
<1>3. (x + y) % p = y % p
  BY <1>2
<1>4. (0 - y) % p = 0
  <2> DEFINE m == 0 - y
  <2>1. m \in Int /\ y + m = 0
    OBVIOUS
  <2>2. (y + m) % p = m % p
    BY <2>1, <1>2
  <2> QED BY <2>1, <2>2, <1>1
<1>5. (x - y) % p = 0
  <2> DEFINE m == 0 - y
  <2>1. m \in Int /\ x + m = x - y
    OBVIOUS
  <2>2. (x + m) % p = m % p
    BY <2>1, <1>2
  <2> QED BY <2>1, <2>2, <1>4
<1> QED BY <1>3, <1>5

\* Distinct page aligned addresses are at least a page apart.
LEMMA AlignedGap ==
  \A x, y \in Int, p \in Nat \ {0} :
    x % p = 0 /\ y % p = 0 /\ x < y => x + p <= y
<1> SUFFICES ASSUME NEW x \in Int, NEW y \in Int, NEW p \in Nat \ {0},
                    x % p = 0, y % p = 0, x < y
             PROVE  x + p <= y
  OBVIOUS
<1> DEFINE d == y - x
<1>1. d % p = 0 /\ d \in Nat \ {0}
  <2>1. (y - x) % p = 0
    BY AlignedSum
  <2>2. y - x \in Nat \ {0}
    OBVIOUS
  <2> QED BY <2>1, <2>2
<1> HIDE DEF d
<1>2. d >= p
  <2> SUFFICES ASSUME d < p PROVE FALSE
    BY <1>1
  <2>1. d % p = d
    BY <1>1, ModSmall
  <2> QED BY <2>1, <1>1
<1> QED BY <1>2 DEF d

-----------------------------------------------------------------------------
(* The functions of ringbuffer.c *)

\* Whole laps do not change a remainder.
LEMMA ModLaps ==
  \A x, k \in Int, n \in Nat \ {0} : (x + k * n) % n = x % n
<1> SUFFICES ASSUME NEW x \in Int, NEW k \in Int, NEW n \in Nat \ {0}
             PROVE  (x + k * n) % n = x % n
  OBVIOUS
<1> DEFINE q == x \div n
           r == x % n
<1>1. q \in Int /\ r \in 0 .. (n - 1) /\ x = n * q + r
  BY DivMod
<1> HIDE DEF q, r
<1>2. x + k * n = (q + k) * n + r
  BY <1>1, Distribute
<1>3. q + k \in Int /\ r \in Int
  BY <1>1
<1>4. ((q + k) * n + r) % n = r
  BY <1>1, <1>3, ModUnique, Zenon
<1> QED BY <1>2, <1>4 DEF r

\* m ? n - m : m is the remainder of the negated number: the branch the code
\* takes because its operands are unsigned computes the same remainder.
LEMMA LapRestNegates ==
  \A x \in Int, n \in Nat \ {0} : LapRest(x % n, n) = (0 - x) % n
<1> SUFFICES ASSUME NEW x \in Int, NEW n \in Nat \ {0}
             PROVE  LapRest(x % n, n) = (0 - x) % n
  OBVIOUS
<1> DEFINE q == x \div n
           r == x % n
<1>1. q \in Int /\ r \in 0 .. (n - 1) /\ x = n * q + r
  BY DivMod
<1> SUFFICES LapRest(r, n) = (0 - x) % n
  OBVIOUS
<1> HIDE DEF q, r
<1>2. CASE r = 0
  <2>1. 0 - x = (0 - q) * n + 0
    BY <1>1, <1>2, Distribute
  <2>2. (0 - q) \in Int /\ 0 \in Int /\ 0 \in 0 .. (n - 1)
    BY <1>1
  <2>3. ((0 - q) * n + 0) % n = 0
    BY <2>2, ModUnique, Zenon
  <2> QED BY <2>1, <2>3, <1>2 DEF LapRest
<1>3. CASE r # 0
  <2>1. 0 - x = (0 - q - 1) * n + (n - r)
    <3>1. (0 - q - 1) * n = (0 - q) * n - 1 * n /\ (0 - q) * n = 0 * n - q * n
      BY <1>1, Distribute
    <3> QED BY <3>1, <1>1
  <2>2. (0 - q - 1) \in Int /\ (n - r) \in Int /\ (n - r) \in 0 .. (n - 1)
    BY <1>1, <1>3
  <2>3. ((0 - q - 1) * n + (n - r)) % n = n - r
    BY <2>2, ModUnique, Zenon
  <2> QED BY <2>1, <2>3, <1>3 DEF LapRest
<1> QED BY <1>2, <1>3

\* modulo is the remainder relative to the start of the ring.
LEMMA ModuloIs ==
  \A x, d \in Int, n \in Nat \ {0} : modulo(x, n, d) = ((x - d) % n) + d
<1> SUFFICES ASSUME NEW x \in Int, NEW d \in Int, NEW n \in Nat \ {0}
             PROVE  modulo(x, n, d) = ((x - d) % n) + d
  OBVIOUS
<1>1. CASE d > x
  <2>1. (d - x) \in Int /\ 0 - (d - x) = x - d
    OBVIOUS
  <2>2. LapRest((d - x) % n, n) = (0 - (d - x)) % n
    BY <2>1, LapRestNegates, Zenon
  <2>3. modulo(x, n, d) = LapRest((d - x) % n, n) + d
    BY <1>1 DEF modulo
  <2> QED BY <2>1, <2>2, <2>3
<1>2. CASE ~(d > x)
  BY <1>2 DEF modulo
<1> QED BY <1>1, <1>2

\* distance is the number of steps from a to b, taken forwards around the
\* ring; mode decides whether no step at all counts as none or as a lap.
THEOREM DistanceIsModular ==
  \A a, b \in Int, n \in Nat \ {0} :
    /\ distance(a, b, n, DC_RINGBUFFER_EMPTY) = (b - a) % n
    /\ distance(a, b, n, DC_RINGBUFFER_FULL) \in 1 .. n
    /\ distance(a, b, n, DC_RINGBUFFER_FULL) % n = (b - a) % n
<1> SUFFICES ASSUME NEW a \in Int, NEW b \in Int, NEW n \in Nat \ {0}
             PROVE  /\ distance(a, b, n, DC_RINGBUFFER_EMPTY) = (b - a) % n
                    /\ distance(a, b, n, DC_RINGBUFFER_FULL) \in 1 .. n
                    /\ distance(a, b, n, DC_RINGBUFFER_FULL) % n = (b - a) % n
  OBVIOUS
<1> DEFINE r == (b - a) % n
<1>1. r = IF a > b THEN LapRest((a - b) % n, n) ELSE (b - a) % n
  <2>1. (a - b) \in Int /\ 0 - (a - b) = b - a
    OBVIOUS
  <2>2. LapRest((a - b) % n, n) = (0 - (a - b)) % n
    BY <2>1, LapRestNegates, Zenon
  <2> QED BY <2>1, <2>2
<1>2. r \in 0 .. (n - 1)
  BY DivMod
<1>3. r % n = r /\ n % n = 0
  BY <1>2, ModSmall, ModLap
<1> SUFFICES /\ distance(a, b, n, DC_RINGBUFFER_EMPTY) = r
             /\ distance(a, b, n, DC_RINGBUFFER_FULL) \in 1 .. n
             /\ distance(a, b, n, DC_RINGBUFFER_FULL) % n = r
  OBVIOUS
<1>4. \A mode \in {0, 1} :
        distance(a, b, n, mode)
          = IF r = 0 THEN (IF mode = 0 THEN 0 ELSE n) ELSE r
  BY <1>1 DEF distance
<1> HIDE DEF r
<1>5. distance(a, b, n, 0) = r
  BY <1>4
<1>6. distance(a, b, n, 1) = IF r = 0 THEN n ELSE r
  BY <1>4
<1> QED BY <1>2, <1>3, <1>5, <1>6 DEF DC_RINGBUFFER_EMPTY, DC_RINGBUFFER_FULL

\* An address of the ring, counted from the start of the ring, is a remainder.
LEMMA InRingRemainder ==
  \A a, lo, hi \in Int :
    a \in lo .. (hi - 1) =>
      hi - lo \in Nat \ {0} /\ (a - lo) % (hi - lo) = a - lo
<1> SUFFICES ASSUME NEW a \in Int, NEW lo \in Int, NEW hi \in Int,
                    a \in lo .. (hi - 1)
             PROVE  /\ hi - lo \in Nat \ {0}
                    /\ (a - lo) % (hi - lo) = a - lo
  OBVIOUS
<1>1. (hi - lo) \in Nat \ {0} /\ (a - lo) \in Int
      /\ (a - lo) \in 0 .. ((hi - lo) - 1)
  OBVIOUS
<1>2. (a - lo) % (hi - lo) = a - lo
  BY <1>1, ModSmall, Zenon
<1> QED BY <1>1, <1>2

\* ringbuffer_normalize brings any address into the ring, to the place it is
\* a whole number of laps away from, and leaves an address of the ring alone.
THEOREM NormalizeInRing ==
  \A a, lo, hi \in Int : lo < hi =>
    /\ ringbuffer_normalize(a, lo, hi) \in lo .. (hi - 1)
    /\ (ringbuffer_normalize(a, lo, hi) - lo) % (hi - lo)
         = (a - lo) % (hi - lo)
    /\ a \in lo .. (hi - 1) => ringbuffer_normalize(a, lo, hi) = a
<1> SUFFICES ASSUME NEW a \in Int, NEW lo \in Int, NEW hi \in Int,
                    lo < hi
             PROVE  /\ ringbuffer_normalize(a, lo, hi) \in lo .. (hi - 1)
                    /\ (ringbuffer_normalize(a, lo, hi) - lo) % (hi - lo)
                         = (a - lo) % (hi - lo)
                    /\ a \in lo .. (hi - 1)
                         => ringbuffer_normalize(a, lo, hi) = a
  OBVIOUS
<1> DEFINE n == hi - lo
           r == (a - lo) % n
<1>1. n \in Nat \ {0} /\ a - lo \in Int
  OBVIOUS
<1>2. r \in 0 .. (n - 1)
  <2> HIDE DEF n
  <2> QED BY <1>1, DivMod
<1>3. r % n = r
  <2> HIDE DEF n, r
  <2> QED BY <1>1, <1>2, ModSmall
<1>4. ringbuffer_normalize(a, lo, hi) = r + lo
  <2>1. modulo(a, n, lo) = ((a - lo) % n) + lo
    <3> HIDE DEF n
    <3> QED BY <1>1, ModuloIs, Zenon
  <2> QED BY <2>1 DEF ringbuffer_normalize
<1>5. a \in lo .. (hi - 1) => r = a - lo
  BY InRingRemainder
<1>6. r + lo \in lo .. (hi - 1) /\ (r + lo) - lo = r
  <2> HIDE DEF r
  <2> QED BY <1>2
<1>7. a \in lo .. (hi - 1) => r + lo = a
  <2> HIDE DEF r
  <2> QED BY <1>5, <1>2
<1> QED BY <1>3, <1>4, <1>6, <1>7

\* What ringbuffer_increment and ringbuffer_decrement compute: the address
\* moved by delta, which the code first reduces so that its unsigned sums
\* neither overflow nor fall below zero.
LEMMA StepIs ==
  ASSUME NEW a \in Int, NEW delta \in Int, NEW lo \in Int, NEW hi \in Int,
         lo < hi
  PROVE  /\ ringbuffer_increment(a, delta, lo, hi)
              = (((a - lo) + delta) % (hi - lo)) + lo
         /\ ringbuffer_decrement(a, delta, lo, hi)
              = (((a - lo) - delta) % (hi - lo)) + lo
<1>1. PICK n \in Nat \ {0} : n = hi - lo
  OBVIOUS
<1>2. PICK q \in Int, r \in Int :
        r \in 0 .. (n - 1) /\ delta = n * q + r /\ r = delta % n
  <2>1. /\ delta \div n \in Int /\ delta % n \in 0 .. (n - 1)
        /\ delta = n * (delta \div n) + (delta % n)
    BY DivMod
  <2>2. delta % n \in Int
    BY <2>1
  <2> QED BY <2>1, <2>2, Zenon
<1>3. /\ modulo(a + r, n, lo) = ((a + r - lo) % n) + lo
      /\ modulo(a + n - r, n, lo) = ((a + n - r - lo) % n) + lo
  BY ModuloIs
<1>4. /\ ((a - lo) + delta) + (0 - q) * n = a + r - lo
      /\ ((a - lo) - delta) + (q + 1) * n = a + n - r - lo
  <2>1. /\ (0 - q) * n = 0 * n - q * n
        /\ (q + 1) * n = q * n + 1 * n
    BY Distribute
  <2>2. PICK m \in Int : m = q * n /\ delta = m + r
    BY <1>2
  <2> QED BY <2>1, <2>2
<1>5. /\ (((a - lo) + delta) + (0 - q) * n) % n = ((a - lo) + delta) % n
      /\ (((a - lo) - delta) + (q + 1) * n) % n = ((a - lo) - delta) % n
  <2>1. PICK u, v, k, l \in Int :
          /\ u = (a - lo) + delta /\ v = (a - lo) - delta
          /\ k = 0 - q /\ l = q + 1
    OBVIOUS
  <2>2. (u + k * n) % n = u % n /\ (v + l * n) % n = v % n
    BY ModLaps, Zenon
  <2> QED BY <2>1, <2>2
<1>6. /\ ringbuffer_increment(a, delta, lo, hi) = modulo(a + r, n, lo)
      /\ ringbuffer_decrement(a, delta, lo, hi) = modulo(a + n - r, n, lo)
  BY <1>1, <1>2 DEF ringbuffer_increment, ringbuffer_decrement
<1> QED BY <1>1, <1>3, <1>4, <1>5, <1>6

\* Numbers a whole number of laps apart have the same remainder.
LEMMA LapsApart ==
  ASSUME NEW n \in Nat \ {0}, NEW x \in Int, NEW y \in Int, NEW k \in Int,
         x = y + k * n
  PROVE  x % n = y % n
  BY ModLaps

\* Every number is a whole number of laps away from its remainder.
LEMMA LapsToRemainder ==
  ASSUME NEW n \in Nat \ {0}, NEW x \in Int
  PROVE  \E r \in Int, k \in Int : r \in 0 .. (n - 1) /\ r = x % n /\ x = r + k * n
<1>1. x \div n \in Int /\ x % n \in 0 .. (n - 1) /\ x = n * (x \div n) + (x % n)
  BY DivMod
<1>2. PICK k \in Int : k = x \div n
  BY <1>1, Zenon
<1>3. x % n \in Int
  BY <1>1
<1>4. PICK r \in Int : r = x % n
  BY <1>3, Zenon
<1>5. r \in 0 .. (n - 1) /\ x = n * k + r
  BY <1>1, <1>2, <1>4, Zenon
<1>6. x = r + k * n
  BY <1>5
<1> QED BY <1>4, <1>5, <1>6, Zenon

\* Stepping forwards and then back, by any number of bytes and across the
\* wrap point, returns to the address the step started from.
THEOREM DecrementUndoesIncrement ==
  ASSUME NEW a \in Int, NEW delta \in Int, NEW lo \in Int, NEW hi \in Int,
         a \in lo .. (hi - 1)
  PROVE  ringbuffer_decrement(ringbuffer_increment(a, delta, lo, hi),
                              delta, lo, hi) = a
<1>1. PICK n \in Nat \ {0} : n = hi - lo
  OBVIOUS
<1>2. PICK c \in Int : c = a - lo
  OBVIOUS
<1>3. PICK u \in Int : u = c + delta
  OBVIOUS
<1>4. PICK s \in Int, k \in Int : s = u % n /\ u = s + k * n
  BY LapsToRemainder, Zenon
<1>5. (s - delta) % n = c % n
  <2>1. PICK l \in Int : l = 0 - k
    OBVIOUS
  <2>2. l * n = 0 - k * n
    BY <2>1, Distribute
  <2>3. s - delta \in Int /\ s - delta = c + l * n
    <3>1. PICK p \in Int : p = k * n
      OBVIOUS
    <3>2. l * n = 0 - p /\ u = s + p
      BY <1>4, <2>2, <3>1
    <3> QED BY <1>3, <3>2
  <2> QED BY <2>3, LapsApart
<1>6. c % n = c
  BY <1>1, <1>2, InRingRemainder
<1>7. PICK b \in Int : b = s + lo
  OBVIOUS
<1>8. ringbuffer_increment(a, delta, lo, hi) = b
  BY <1>1, <1>2, <1>3, <1>4, <1>7, StepIs
<1>9. ringbuffer_decrement(b, delta, lo, hi)
        = (((b - lo) - delta) % n) + lo
  BY <1>1, StepIs
<1>10. b - lo = s /\ c + lo = a
  BY <1>2, <1>7
<1> QED BY <1>5, <1>6, <1>8, <1>9, <1>10

\* Going the distance from a to b, whichever way equal addresses are read,
\* arrives at b: how a driver finds the next dive from its size.
THEOREM DistanceArrives ==
  ASSUME NEW a \in Int, NEW b \in Int, NEW lo \in Int, NEW hi \in Int,
         NEW mode \in {DC_RINGBUFFER_EMPTY, DC_RINGBUFFER_FULL},
         b \in lo .. (hi - 1)
  PROVE  ringbuffer_increment(a, ringbuffer_distance(a, b, mode, lo, hi),
                              lo, hi) = b
<1>1. PICK n \in Nat \ {0} : n = hi - lo
  OBVIOUS
<1>2. PICK c \in Int, e \in Int : c = a - lo /\ e = b - a
  OBVIOUS
<1>3. PICK d \in Int : d = distance(a, b, n, mode) /\ d % n = e % n
  <2>1. e % n \in 0 .. (n - 1)
    BY DivMod
  <2>2. e % n \in Int
    BY <2>1
  <2>3. PICK r \in Int : r \in 0 .. (n - 1) /\ r = e % n
    BY <2>1, <2>2, Zenon
  <2>4. r % n = e % n
    BY <2>3, ModSmall
  <2>5. CASE mode = DC_RINGBUFFER_EMPTY
    <3>1. distance(a, b, n, mode) = r
      BY <1>2, <2>3, <2>5, DistanceIsModular
    <3> QED BY <2>4, <3>1
  <2>6. CASE mode = DC_RINGBUFFER_FULL
    <3>1. /\ distance(a, b, n, mode) \in 1 .. n
          /\ distance(a, b, n, mode) % n = e % n
      BY <1>2, <2>6, DistanceIsModular
    <3> QED BY <3>1
  <2> QED BY <2>5, <2>6
<1>4. (c + d) % n = (c + e) % n
  <2>1. PICK r \in Int, k \in Int : r = d % n /\ d = r + k * n
    BY LapsToRemainder, Zenon
  <2>2. PICK t \in Int, l \in Int : t = e % n /\ e = t + l * n
    BY LapsToRemainder, Zenon
  <2>3. PICK m \in Int : m = k - l
    OBVIOUS
  <2>4. r = t
    BY <1>3, <2>1, <2>2
  <2>5. m * n = k * n - l * n
    BY <2>3, Distribute
  <2>6. c + d \in Int /\ c + e \in Int /\ c + d = (c + e) + m * n
    <3>1. PICK p \in Int, q \in Int : p = k * n /\ q = l * n
      OBVIOUS
    <3>2. m * n = p - q /\ d = r + p /\ e = r + q
      BY <2>1, <2>2, <2>4, <2>5, <3>1
    <3> QED BY <3>2
  <2> QED BY <2>6, LapsApart
<1>5. PICK f \in Int : f = b - lo
  OBVIOUS
<1>6. f % n = f /\ c + e = f
  <2>1. f % n = f
    BY <1>1, <1>5, InRingRemainder
  <2> QED BY <2>1, <1>2, <1>5
<1>7. ringbuffer_increment(a, d, lo, hi) = ((c + d) % n) + lo
  BY <1>1, <1>2, StepIs
<1>8. ringbuffer_distance(a, b, mode, lo, hi) = d
  BY <1>1, <1>3 DEF ringbuffer_distance
<1> QED BY <1>4, <1>5, <1>6, <1>7, <1>8

-----------------------------------------------------------------------------
(* The stream *)

USE ConstantsAssumption

\* The facts about alignment, with the remainder hidden: the page size divides
\* 0, sums and differences, and aligned addresses that differ are a page apart.
LEMMA AlignedFacts ==
  /\ \A p \in Nat \ {0} : Aligned(0, p)
  /\ \A x, y \in Int, p \in Nat \ {0} :
       Aligned(x, p) /\ Aligned(y, p) => Aligned(x + y, p) /\ Aligned(x - y, p)
  /\ \A x, y \in Int, p \in Nat \ {0} :
       Aligned(x, p) /\ Aligned(y, p) /\ x < y => x + p <= y
<1>1. \A p \in Nat \ {0} : Aligned(0, p)
  BY ModLap DEF Aligned
<1>2. \A x, y \in Int, p \in Nat \ {0} :
       Aligned(x, p) /\ Aligned(y, p) => Aligned(x + y, p) /\ Aligned(x - y, p)
  BY AlignedSum, Zenon DEF Aligned
<1>3. \A x, y \in Int, p \in Nat \ {0} :
       Aligned(x, p) /\ Aligned(y, p) /\ x < y => x + p <= y
  BY AlignedGap, Zenon DEF Aligned
<1> QED BY <1>1, <1>2, <1>3

\* Multiples of the page size are aligned.
LEMMA AlignedMultiple ==
  \A k \in Int, p \in Nat \ {0} : Aligned(k * p, p)
<1> SUFFICES ASSUME NEW k \in Int, NEW p \in Nat \ {0} PROVE (k * p) % p = 0
  BY DEF Aligned
<1> QED BY SMT

\* Rounding an address down or up to a page (rbstream.c ifloor, iceil) gives
\* an aligned address less than a page away, on the same side of every
\* aligned bound as the address itself.
LEMMA Rounding ==
  ASSUME NEW a \in Nat, NEW b \in Nat, NEW e \in Nat, NEW p \in Nat \ {0},
         Aligned(b, p), Aligned(e, p), b <= a, a <= e
  PROVE  /\ ifloor(a, p) \in Nat /\ iceil(a, p) \in Nat
         /\ Aligned(ifloor(a, p), p) /\ Aligned(iceil(a, p), p)
         /\ b <= ifloor(a, p) /\ ifloor(a, p) <= a /\ a - ifloor(a, p) < p
         /\ a <= iceil(a, p) /\ iceil(a, p) <= e /\ iceil(a, p) - a < p
<1> DEFINE f == ifloor(a, p)
           x == a + p - 1
           c == iceil(a, p)
<1>a. a \in Int /\ x \in Int
  OBVIOUS
<1>1. /\ a \div p \in Int /\ a % p \in 0 .. (p - 1)
      /\ a = p * (a \div p) + (a % p)
  BY <1>a, DivMod, Zenon
<1>2. x \in Int /\ x \div p \in Int /\ x % p \in 0 .. (p - 1)
      /\ x = p * (x \div p) + (x % p)
  <2> HIDE DEF x
  <2> QED BY <1>a, DivMod, Zenon
<1>3. f \in Int /\ f = a - (a % p) /\ Aligned(f, p)
  <2>1. f = (a \div p) * p /\ f \in Int /\ f = a - (a % p)
    BY <1>1 DEF ifloor
  <2>2. Aligned((a \div p) * p, p)
    BY <1>1, AlignedMultiple
  <2> QED BY <2>1, <2>2, <1>1
<1>4. c \in Int /\ c = x - (x % p) /\ Aligned(c, p)
  <2>1. c = (x \div p) * p /\ c \in Int /\ c = x - (x % p)
    BY <1>2 DEF iceil
  <2>2. Aligned((x \div p) * p, p)
    BY <1>2, AlignedMultiple
  <2> QED BY <2>1, <2>2, <1>2
<1>5. f <= a /\ a - f < p /\ a <= c /\ c - a < p
  BY <1>1, <1>2, <1>3, <1>4
<1> HIDE DEF f, c, x
<1>6. b <= f
  <2> SUFFICES ASSUME f < b PROVE FALSE
    BY <1>3
  <2>1. f + p <= b
    BY <1>3, AlignedFacts
  <2> QED BY <2>1, <1>3, <1>5
<1>7. c <= e
  <2> SUFFICES ASSUME e < c PROVE FALSE
    BY <1>4
  <2>1. e + p <= c
    BY <1>4, AlignedFacts
  <2> QED BY <2>1, <1>4, <1>5
<1> QED BY <1>3, <1>4, <1>5, <1>6, <1>7 DEF f, c

\* What the next packet looks like in a state of the invariant: its usable
\* part is a positive, page aligned length that reaches past skip, and the
\* whole packet the device is asked for lies in the ring.
LEMMA Packet ==
  ASSUME TypeOK, GeometryInv, PositionInv
  PROVE  /\ Wrapped \in begin .. end /\ Aligned(Wrapped, pagesize)
         /\ PacketLen \in 1 .. packetsize /\ Aligned(PacketLen, pagesize)
         /\ skip < PacketLen
         /\ begin <= ReadAddress /\ ReadAddress + packetsize <= end
         /\ direction = Forward  => Wrapped + PacketLen <= end
         /\ direction # Forward => begin <= Wrapped - PacketLen
<1> USE DEF TypeOK, GeometryInv, PositionInv
<1>1. begin < end
  OBVIOUS
<1>2. Wrapped \in begin .. end /\ Aligned(Wrapped, pagesize)
  BY <1>1 DEF Wrapped
<1>3. CASE direction = Forward
  <2>1. Wrapped < end
    BY <1>1, <1>2, <1>3 DEF Wrapped
  <2>2. Aligned(end - Wrapped, pagesize)
    BY <1>2, AlignedFacts
  <2>3. Wrapped + pagesize <= end
    BY <1>2, <2>1, AlignedFacts
  <2>4. pagesize <= packetsize
    BY AlignedFacts
  <2>5. PacketLen \in 1 .. packetsize /\ Aligned(PacketLen, pagesize)
        /\ pagesize <= PacketLen /\ Wrapped + PacketLen <= end
    BY <1>2, <1>3, <2>1, <2>2, <2>3, <2>4 DEF PacketLen
  <2>6. begin <= ReadAddress /\ ReadAddress + packetsize <= end
    BY <1>2, <1>3, <2>1, <2>5 DEF ReadAddress, PacketLen
  <2> QED BY <1>2, <1>3, <2>5, <2>6
<1>4. CASE direction # Forward
  <2>1. begin < Wrapped
    BY <1>1, <1>2, <1>4 DEF Wrapped
  <2>2. Aligned(Wrapped - begin, pagesize)
    BY <1>2, AlignedFacts
  <2>3. begin + pagesize <= Wrapped
    BY <1>2, <2>1, AlignedFacts
  <2>4. pagesize <= packetsize
    BY AlignedFacts
  <2>5. PacketLen \in 1 .. packetsize /\ Aligned(PacketLen, pagesize)
        /\ pagesize <= PacketLen /\ begin <= Wrapped - PacketLen
    BY <1>2, <1>4, <2>1, <2>2, <2>3, <2>4 DEF PacketLen
  <2>6. begin <= ReadAddress /\ ReadAddress + packetsize <= end
    BY <1>2, <1>4, <2>1, <2>5 DEF ReadAddress, PacketLen
  <2> QED BY <1>2, <1>4, <2>5, <2>6
<1> QED BY <1>3, <1>4

\* A whole lap forward or backward leads to the same position on the ring.
LEMMA Lap ==
  ASSUME NEW x \in Int, NEW n \in Nat \ {0}
  PROVE  (x + n) % n = x % n /\ (x - n) % n = x % n
<1> DEFINE z == 0
           y == x - n
<1>1. n \in Int /\ z \in Int /\ y \in Int /\ n % n = z % n
  BY ModLap
<1>2. n + x = x + n /\ z + x = x /\ n + y = x /\ z + y = x - n
  OBVIOUS
<1> HIDE DEF z, y
<1>3. (n + x) % n = (z + x) % n
  BY <1>1, Shift, ZenonT(30)
<1>4. (n + y) % n = (z + y) % n
  BY <1>1, Shift, ZenonT(30)
<1> QED BY <1>2, <1>3, <1>4

\* The initial state satisfies the invariant.
LEMMA IInvInit == Init => IInv
<1> SUFFICES ASSUME Init PROVE IInv
  OBVIOUS
<1> USE DEF Init
<1>1. TypeOK
  BY DEF TypeOK, EmptyBuffer, Forward
<1>2. GeometryInv /\ PositionInv
  BY AlignedFacts, AlignedMultiple DEF GeometryInv, PositionInv, Aligned
<1>3. CacheInv /\ CursorInv
  BY DEF CacheInv, CursorInv, Cursor, ringsize, Forward
<1>4. DataInv
  BY DEF DataInv, EmptyBuffer, Forward
<1> QED BY <1>1, <1>2, <1>3, <1>4 DEF IInv

\* Opening a stream establishes the invariant: the checks of dc_rbstream_new
\* give the geometry, rounding gives the position.
LEMMA IInvNew ==
  ASSUME IInv, NEW ps \in PageSizes, NEW ks \in PacketSizes,
         NEW b \in Addresses, NEW e \in Addresses, NEW a \in Addresses,
         NEW d \in {Forward, Backward}, New(ps, ks, b, e, a, d)
  PROVE  IInv'
<1> USE DEF New, ValidArgs, IInv
<1>1. /\ ps \in Nat \ {0} /\ ks \in Nat \ {0}
      /\ b \in Nat /\ e \in Nat /\ a \in Nat
      /\ Aligned(ks, ps) /\ Aligned(b, ps) /\ Aligned(e, ps)
      /\ ks <= e - b /\ b <= a /\ a <= e /\ b < e
  BY DEF Aligned
<1>2. /\ ifloor(a, ps) \in Nat /\ iceil(a, ps) \in Nat
      /\ Aligned(ifloor(a, ps), ps) /\ Aligned(iceil(a, ps), ps)
      /\ b <= ifloor(a, ps) /\ ifloor(a, ps) <= a /\ a - ifloor(a, ps) < ps
      /\ a <= iceil(a, ps) /\ iceil(a, ps) <= e /\ iceil(a, ps) - a < ps
  BY <1>1, Rounding
<1>3. TypeOK'
  BY <1>1, <1>2 DEF TypeOK, EmptyBuffer, call
<1>4. GeometryInv' /\ PositionInv'
  BY <1>1, <1>2 DEF GeometryInv, PositionInv
<1>5. CacheInv'
  BY DEF CacheInv
<1>6. CursorInv'
  BY <1>1, <1>2 DEF CursorInv, Cursor, ringsize
<1>7. DataInv'
  BY DEF DataInv, call
<1> QED BY <1>3, <1>4, <1>5, <1>6, <1>7

\* The walk's byte k in plain arithmetic, for both directions.
LEMMA RingByteDef ==
  \A k : RingByte(k) =
    begin + ((IF direction = Forward THEN (start - begin) + k
              ELSE ((start - begin) - 1) - k) % ringsize)
  BY DEF RingByte, Walk!WalkByte, Geometry, ringsize

\* The unread bytes of the cache are the next bytes of the walk.
LEMMA CacheBytes ==
  ASSUME IInv, available > 0, NEW j \in 0 .. available - 1
  PROVE  /\ direction = Forward =>
              offset + j \in DOMAIN cache /\ cache[offset + j] = RingByte(consumed + j)
         /\ direction # Forward =>
              (available - 1) - j \in DOMAIN cache
              /\ cache[(available - 1) - j] = RingByte(consumed + j)
<1> USE DEF IInv, TypeOK, GeometryInv, PositionInv
<1>1. ringsize \in Nat \ {0} /\ skip = 0
  BY DEF ringsize
<1>2. CASE direction = Forward
  <2> DEFINE x == (address - available) - begin
             y == (start - begin) + consumed
  <2>1. x \in Int /\ y \in Int /\ x % ringsize = y % ringsize
    BY <1>1, <1>2 DEF CursorInv, Cursor
  <2>2. x + j \in Int /\ x + j \in 0 .. ringsize - 1
    BY <1>2 DEF CacheInv, ringsize
  <2>a. j \in Int
    OBVIOUS
  <2> HIDE DEF x, y
  <2>3. (x + j) % ringsize = (y + j) % ringsize
    BY <1>1, <2>1, <2>a, Shift, Zenon
  <2>4. (x + j) % ringsize = x + j
    BY <1>1, <2>2, ModSmall, Zenon
  <2>5. y + j = (start - begin) + (consumed + j)
    BY DEF y
  <2>6. RingByte(consumed + j) = begin + (x + j)
    BY <1>2, <2>3, <2>4, <2>5, RingByteDef
  <2>7. offset + j \in DOMAIN cache /\ cache[offset + j] = begin + (x + j)
    BY <1>2 DEF CacheInv, x
  <2> QED BY <1>2, <2>6, <2>7
<1>3. CASE direction # Forward
  <2> DEFINE x == (address + available) - begin
             y == (start - begin) - consumed
             k == 0 - (1 + j)
  <2>1. x \in Int /\ y \in Int /\ x % ringsize = y % ringsize /\ k \in Int
    BY <1>1, <1>3 DEF CursorInv, Cursor
  <2>2. x + k \in Int /\ x + k \in 0 .. ringsize - 1
    BY <1>3 DEF CacheInv, ringsize
  <2> HIDE DEF x, y, k
  <2>3. (x + k) % ringsize = (y + k) % ringsize
    BY <1>1, <2>1, Shift, Zenon
  <2>4. (x + k) % ringsize = x + k
    BY <1>1, <2>2, ModSmall, Zenon
  <2>5. y + k = ((start - begin) - 1) - (consumed + j)
    BY DEF y, k
  <2>6. RingByte(consumed + j) = begin + (x + k)
    BY <1>3, <2>3, <2>4, <2>5, RingByteDef
  <2>7. (available - 1) - j \in DOMAIN cache
        /\ cache[(available - 1) - j] = begin + (x + k)
    BY <1>3 DEF CacheInv, x, k
  <2> QED BY <1>3, <2>6, <2>7
<1> QED BY <1>2, <1>3

\* A new call starts with an empty buffer and moves nothing.
LEMMA IInvRead == ASSUME IInv, NEW n \in Sizes, Read(n) PROVE IInv'
<1> USE DEF Read, IInv, config, stream
<1>1. TypeOK'
  BY DEF TypeOK
<1>2. GeometryInv' /\ PositionInv' /\ CacheInv' /\ CursorInv'
  BY DEF GeometryInv, PositionInv, CacheInv, CursorInv, Cursor, ringsize
<1>3. DataInv'
  BY DEF DataInv, TypeOK, EmptyBuffer
<1> QED BY <1>1, <1>2, <1>3

\* A call that returns leaves the stream and the buffer as they are.
LEMMA IInvReturn == ASSUME IInv, Return PROVE IInv'
<1> USE DEF Return, IInv, config, stream, call
<1>1. TypeOK' /\ GeometryInv' /\ PositionInv' /\ CacheInv' /\ CursorInv'
  BY DEF TypeOK, GeometryInv, PositionInv, CacheInv, CursorInv, Cursor, ringsize
<1>2. DataInv'
  BY DEF DataInv, RingByte, Walk!WalkByte, Geometry
<1> QED BY <1>1, <1>2

\* Freeing the stream leads back to the initial values.
LEMMA IInvFree == ASSUME IInv, Free PROVE IInv'
<1>1. TypeOK'
  BY DEF Free, TypeOK, EmptyBuffer, Forward
<1>2. GeometryInv' /\ PositionInv'
  BY DEF Free, GeometryInv, PositionInv, Aligned
<1>3. CacheInv' /\ CursorInv'
  BY DEF Free, CacheInv, CursorInv, Cursor, ringsize, Forward
<1>4. DataInv'
  BY DEF Free, DataInv, EmptyBuffer, Forward
<1> QED BY <1>1, <1>2, <1>3, <1>4 DEF IInv

\* Moving over the wrap point does not move the cursor on the ring.
LEMMA WrapKeepsCursor ==
  ASSUME TypeOK, GeometryInv, PositionInv, available = 0
  PROVE  ((IF direction = Forward THEN Wrapped + skip ELSE Wrapped - skip) - begin)
            % ringsize = (Cursor - begin) % ringsize
<1> DEFINE c == Cursor - begin
           w == (IF direction = Forward THEN Wrapped + skip ELSE Wrapped - skip) - begin
<1>1. c \in Int /\ ringsize \in Nat \ {0} /\ w \in {c, c - ringsize, c + ringsize}
  BY DEF TypeOK, GeometryInv, PositionInv, Cursor, Wrapped, ringsize
<1> HIDE DEF c, w
<1>2. (c - ringsize) % ringsize = c % ringsize /\ (c + ringsize) % ringsize = c % ringsize
  BY <1>1, Lap, Zenon
<1>3. w % ringsize = c % ringsize
  BY <1>1, <1>2
<1> QED BY <1>3 DEF c, w

\* A failed device read leaves the call unfinished but the stream where it
\* was, on one side of the wrap point or on the other.
LEMMA IInvFillFails == ASSUME IInv, FillFails PROVE IInv'
<1> USE DEF FillFails, IInv, config, call
<1>1. TypeOK' /\ GeometryInv' /\ PositionInv' /\ CacheInv'
  BY Packet DEF TypeOK, GeometryInv, PositionInv, CacheInv
<1>2. CursorInv'
  <2>1. Cursor' = IF direction = Forward THEN Wrapped + skip ELSE Wrapped - skip
    BY Packet DEF TypeOK, Cursor
  <2>2. (Cursor' - begin) % ringsize = (Cursor - begin) % ringsize
    BY <2>1, WrapKeepsCursor
  <2> QED BY <2>2 DEF CursorInv, ringsize
<1>3. DataInv'
  BY DEF DataInv, RingByte, Walk!WalkByte, Geometry
<1> QED BY <1>1, <1>2, <1>3

\* A packet in the cache moves the packet boundary and the unread part
\* together: the cursor stays at the walk's position.
LEMMA IInvFill == ASSUME IInv, Fill PROVE IInv'
<1> USE DEF Fill, IInv, config, call
<1>1. /\ Wrapped \in begin .. end /\ Aligned(Wrapped, pagesize)
      /\ PacketLen \in 1 .. packetsize /\ Aligned(PacketLen, pagesize)
      /\ skip < PacketLen
      /\ direction = Forward  => Wrapped + PacketLen <= end
      /\ direction # Forward => begin <= Wrapped - PacketLen
  BY Packet
<1>2. Wrapped \in Int /\ PacketLen \in Int /\ pagesize \in Nat \ {0}
  BY <1>1 DEF TypeOK
<1>3. Aligned(Wrapped + PacketLen, pagesize) /\ Aligned(Wrapped - PacketLen, pagesize)
  BY <1>1, <1>2, AlignedFacts, Zenon
<1>4. TypeOK'
  BY <1>1 DEF TypeOK
<1>5. GeometryInv' /\ PositionInv'
  BY <1>1, <1>3 DEF TypeOK, GeometryInv, PositionInv
<1>6. CacheInv'
  <2>1. CASE direction = Forward
    BY <1>1, <2>1 DEF TypeOK, CacheInv, ReadAddress
  <2>2. CASE direction # Forward
    BY <1>1, <2>2 DEF TypeOK, CacheInv, ReadAddress
  <2> QED BY <2>1, <2>2
<1>7. CursorInv'
  <2>1. Cursor' = IF direction = Forward THEN Wrapped + skip ELSE Wrapped - skip
    BY <1>1 DEF TypeOK, Cursor
  <2>2. (Cursor' - begin) % ringsize = (Cursor - begin) % ringsize
    BY <2>1, WrapKeepsCursor DEF Cursor, TypeOK
  <2> QED BY <2>2 DEF CursorInv, ringsize
<1>8. DataInv'
  BY DEF DataInv, RingByte, Walk!WalkByte, Geometry
<1> QED BY <1>4, <1>5, <1>6, <1>7, <1>8

\* Each copy hands out the next bytes of the walk and moves the cursor along.
LEMMA IInvCopy == ASSUME IInv, Copy PROVE IInv'
<1> USE DEF Copy, IInv, config
<1>1. /\ CopyLen \in 1 .. available /\ nbytes + CopyLen <= size
      /\ CopyLen \in Int
  BY DEF TypeOK, CopyLen, Minimum
<1>2. TypeOK'
  BY <1>1, SMTT(30) DEF TypeOK
<1>3. GeometryInv' /\ PositionInv'
  BY <1>1 DEF TypeOK, GeometryInv, PositionInv
<1>4. CacheInv'
  BY <1>1 DEF TypeOK, CacheInv
<1>5. CursorInv'
  <2> DEFINE c == Cursor - begin
             w == IF direction = Forward THEN (start - begin) + consumed
                                         ELSE (start - begin) - consumed
             m == IF direction = Forward THEN CopyLen ELSE 0 - CopyLen
  <2>1. /\ c \in Int /\ w \in Int /\ m \in Int /\ ringsize \in Nat \ {0}
        /\ c % ringsize = w % ringsize
    BY <1>1 DEF TypeOK, GeometryInv, CursorInv, Cursor, ringsize
  <2>2. Cursor' - begin = c + m
    <3>1. CASE direction = Forward
      BY <1>1, <3>1 DEF TypeOK, Cursor
    <3>2. CASE direction # Forward
      BY <1>1, <3>2 DEF TypeOK, Cursor
    <3> QED BY <3>1, <3>2
  <2>3. w + m = IF direction = Forward THEN (start - begin) + consumed'
                                       ELSE (start - begin) - consumed'
    BY <1>1 DEF TypeOK
  <2> HIDE DEF c, w, m
  <2>4. (c + m) % ringsize = (w + m) % ringsize
    BY <2>1, Shift, Zenon
  <2> QED BY <2>2, <2>3, <2>4 DEF CursorInv, ringsize
<1>6. DataInv'
  <2>1. nbytes' <= size' /\ nbytes' <= consumed' /\ pc' # "none"
    BY <1>1 DEF DataInv, TypeOK
  <2>2. CASE direction = Forward
    <3>1. \A i \in nbytes .. nbytes + CopyLen - 1 :
            cache[offset + (i - nbytes)] = RingByte((consumed - nbytes) + i)
      <4> SUFFICES ASSUME NEW i \in nbytes .. nbytes + CopyLen - 1
                   PROVE  cache[offset + (i - nbytes)] = RingByte((consumed - nbytes) + i)
        OBVIOUS
      <4>1. i - nbytes \in 0 .. available - 1 /\ available > 0
            /\ consumed + (i - nbytes) = (consumed - nbytes) + i
        BY <1>1 DEF TypeOK
      <4>2. cache[offset + (i - nbytes)] = RingByte(consumed + (i - nbytes))
        BY <2>2, <4>1, CacheBytes, Zenon
      <4> QED BY <4>1, <4>2
    <3>2. /\ DOMAIN data = 0 .. nbytes - 1
          /\ (0 .. nbytes - 1) \cup (nbytes .. nbytes + CopyLen - 1)
               = 0 .. (nbytes + CopyLen) - 1
      BY <2>2, <1>1 DEF DataInv, TypeOK
    <3>3. data' = [i \in 0 .. (nbytes + CopyLen) - 1 |->
                     RingByte((consumed - nbytes) + i)]
      BY <2>2, <3>1, <3>2, <1>1 DEF DataInv, TypeOK, CopyFrom, CopyTo
    <3>4. nbytes' = nbytes + CopyLen /\ consumed' - nbytes' = consumed - nbytes
      BY <1>1 DEF TypeOK
    <3> QED BY <2>1, <2>2, <3>3, <3>4 DEF DataInv, RingByte, Walk!WalkByte, Geometry
  <2>3. CASE direction # Forward
    <3> DEFINE to == size - nbytes - CopyLen
    <3>1. \A i \in to .. to + CopyLen - 1 :
            cache[(available - CopyLen) + (i - to)]
              = RingByte((consumed - nbytes) + (size - 1 - i))
      <4> SUFFICES ASSUME NEW i \in to .. to + CopyLen - 1
                   PROVE  cache[(available - CopyLen) + (i - to)]
                            = RingByte((consumed - nbytes) + (size - 1 - i))
        OBVIOUS
      <4> DEFINE j == (size - 1 - i) - nbytes
      <4>1. j \in 0 .. available - 1 /\ available > 0
            /\ consumed + j = (consumed - nbytes) + (size - 1 - i)
            /\ (available - 1) - j = (available - CopyLen) + (i - to)
        BY <1>1 DEF TypeOK
      <4> HIDE DEF j
      <4>2. cache[(available - 1) - j] = RingByte(consumed + j)
        BY <2>3, <4>1, CacheBytes, Zenon
      <4> QED BY <4>1, <4>2
    <3>2. /\ DOMAIN data = size - nbytes .. size - 1
          /\ (size - nbytes .. size - 1) \cup (to .. to + CopyLen - 1)
               = size - (nbytes + CopyLen) .. size - 1
      BY <2>3, <1>1 DEF DataInv, TypeOK
    <3>3. data' = [i \in size - (nbytes + CopyLen) .. size - 1 |->
                     RingByte((consumed - nbytes) + (size - 1 - i))]
      BY <2>3, <3>1, <3>2, <1>1 DEF DataInv, TypeOK, CopyFrom, CopyTo
    <3>4. nbytes' = nbytes + CopyLen /\ consumed' - nbytes' = consumed - nbytes
      BY <1>1 DEF TypeOK
    <3> QED BY <2>1, <2>3, <3>3, <3>4 DEF DataInv, RingByte, Walk!WalkByte, Geometry
  <2> QED BY <2>2, <2>3
<1> QED BY <1>2, <1>3, <1>4, <1>5, <1>6

\* Every step preserves the invariant.
LEMMA IInvStep == IInv /\ [Next]_vars => IInv'
<1> SUFFICES ASSUME IInv, [Next]_vars PROVE IInv'
  OBVIOUS
<1>1. CASE \E ps \in PageSizes, ks \in PacketSizes, b, e, a \in Addresses,
             d \in {Forward, Backward} : New(ps, ks, b, e, a, d)
  BY <1>1, IInvNew
<1>2. CASE \E n \in Sizes : Read(n)
  BY <1>2, IInvRead
<1>3. CASE Fill
  BY <1>3, IInvFill
<1>4. CASE FillFails
  BY <1>4, IInvFillFails
<1>5. CASE Copy
  BY <1>5, IInvCopy
<1>6. CASE Return
  BY <1>6, IInvReturn
<1>7. CASE Free
  BY <1>7, IInvFree
<1>8. CASE UNCHANGED vars
  <2> USE <1>8 DEF vars, config, stream, call, IInv
  <2>1. TypeOK' /\ GeometryInv' /\ PositionInv' /\ CacheInv' /\ CursorInv'
    BY DEF TypeOK, GeometryInv, PositionInv, CacheInv, CursorInv, Cursor, ringsize
  <2>2. DataInv'
    BY DEF DataInv, RingByte, Walk!WalkByte, Geometry
  <2> QED BY <2>1, <2>2
<1> QED BY <1>1, <1>2, <1>3, <1>4, <1>5, <1>6, <1>7, <1>8 DEF Next

\* The invariant of dc_rbstream_new, dc_rbstream_read and dc_rbstream_free,
\* the type invariant included, for every geometry and sequence of calls.
THEOREM InvariantTheorem == Spec => []IInv
  BY IInvInit, IInvStep, PTL DEF Spec

\* The stream's fields keep their types: in particular none of the unsigned
\* subtractions of rbstream.c wraps around.
THEOREM TypeCorrect == Spec => []TypeOK
<1>1. IInv => TypeOK
  BY DEF IInv
<1> QED BY <1>1, InvariantTheorem, PTL

\* Every packet the device is asked for lies in the ring buffer.
THEOREM ReadsStayInRingTheorem == Spec => []ReadsStayInRing
<1>1. IInv => ReadsStayInRing
  BY Packet DEF IInv, ReadsStayInRing
<1> QED BY <1>1, InvariantTheorem, PTL

\* Every packet yields at least one byte, so the loop of dc_rbstream_read
\* advances with each device read.
THEOREM EveryPacketYieldsTheorem == Spec => []EveryPacketYields
<1>1. IInv => EveryPacketYields
  BY Packet DEF IInv, EveryPacketYields
<1> QED BY <1>1, InvariantTheorem, PTL

\* Every memcpy of dc_rbstream_read stays inside the cache and the caller's
\* buffer.
THEOREM CopyInBoundsTheorem == Spec => []CopyInBounds
<1>1. IInv => CopyInBounds
  <2> SUFFICES ASSUME IInv, pc = "reading", nbytes < size, available # 0
               PROVE  /\ CopyFrom \in DOMAIN cache
                      /\ CopyFrom + CopyLen - 1 \in DOMAIN cache
                      /\ 0 <= CopyTo /\ CopyTo + CopyLen <= size
    BY DEF CopyInBounds
  <2>1. CopyLen \in 1 .. available /\ nbytes + CopyLen <= size
    BY DEF IInv, TypeOK, CopyLen, Minimum
  <2>2. DOMAIN cache = 0 .. packetsize - 1
    BY DEF IInv, TypeOK, CacheInv
  <2> QED BY <2>1, <2>2 DEF IInv, TypeOK, CacheInv, CopyFrom, CopyTo
<1> QED BY <1>1, InvariantTheorem, PTL

\* The buffer a successful call leaves behind is the walk's next slice.
LEMMA ReturnsSlice ==
  ASSUME IInv, nbytes = size
  PROVE  data = Walk!Slice(Geometry(direction, begin, end, start), consumed - nbytes, size)
<1>1. CASE direction = Forward
  BY <1>1 DEF IInv, DataInv, TypeOK, Walk!Slice, RingByte, Geometry
<1>2. CASE direction # Forward
  <2> DEFINE G == Geometry(direction, begin, end, start)
  <2>1. size - nbytes = 0
    BY DEF IInv, TypeOK
  <2>a. ~G.forward
    BY <1>2, Zenon DEF Geometry
  <2>2. data = [i \in 0 .. size - 1 |-> Walk!WalkByte(G, (consumed - nbytes) + (size - 1 - i))]
    BY <1>2, <2>1 DEF IInv, DataInv, RingByte
  <2> HIDE DEF G
  <2>3. Walk!Slice(G, consumed - nbytes, size)
          = [i \in 0 .. size - 1 |-> Walk!WalkByte(G, (consumed - nbytes) + (size - 1 - i))]
    BY <2>a DEF Walk!Slice
  <2> QED BY <2>2, <2>3 DEF G
<1> QED BY <1>1, <1>2

\* The stream implements the walk: every step of a call but its end is
\* invisible, a call that succeeds hands out the next bytes of the ring in
\* order, and a call that fails has moved on by less than it was asked for.
THEOREM StreamImplementsWalk == Spec => WalkSpec
<1>1. Init => Walk!Init
  BY DEF Init, Walk!Init, Walk!Nothing, EmptyBuffer, Geometry, Forward
<1>2. IInv /\ IInv' /\ [Next]_vars => [Walk!Next]_Walk!absvars
  <2> SUFFICES ASSUME IInv, IInv', [Next]_vars PROVE [Walk!Next]_Walk!absvars
    OBVIOUS
  <2> USE DEF Walk!absvars, Walk!Nothing
  <2>1. ASSUME NEW ps \in PageSizes, NEW ks \in PacketSizes,
               NEW b \in Addresses, NEW e \in Addresses, NEW a \in Addresses,
               NEW d \in {Forward, Backward}, New(ps, ks, b, e, a, d)
        PROVE  Walk!Open
    BY <2>1 DEF IInv, DataInv, New, Walk!Open, Geometry, call, EmptyBuffer, Forward, Backward
  <2>2. ASSUME NEW n \in Sizes, Read(n) PROVE Walk!Call(n)
    BY <2>2 DEF IInv, TypeOK, Read, Walk!Call, Geometry, config, stream, EmptyBuffer
  <2>3. CASE Fill
    BY <2>3 DEF Fill, config, call, Geometry
  <2>4. CASE FillFails
    <3>1. nbytes \in 0 .. size - 1
      BY <2>4 DEF FillFails, IInv, TypeOK
    <3>2. consumed = (consumed - nbytes) + nbytes
      BY DEF IInv, TypeOK
    <3>3. Walk!Fail
      BY <2>4, <3>1, <3>2 DEF FillFails, Walk!Fail, config, call, Geometry, EmptyBuffer
    <3> QED BY <3>3 DEF Walk!Next
  <2>5. CASE Copy
    <3>1. consumed' - nbytes' = consumed - nbytes
      BY <2>5 DEF Copy, IInv, TypeOK, CopyLen, Minimum
    <3> QED BY <2>5, <3>1 DEF Copy, config, Geometry
  <2>6. CASE Return
    <3>1. nbytes = size
      BY <2>6 DEF Return, IInv, DataInv, TypeOK
    <3>2. (consumed - nbytes) + size = consumed
      BY <3>1 DEF IInv, TypeOK
    <3>3. data = Walk!Slice(Geometry(direction, begin, end, start), consumed - nbytes, size)
      BY <3>1, ReturnsSlice
    <3>4. Walk!Succeed
      BY <2>6, <3>1, <3>2, <3>3 DEF Return, Walk!Succeed, config, stream, call, Geometry
    <3> QED BY <3>4 DEF Walk!Next
  <2>7. CASE Free
    BY <2>7 DEF Free, Walk!Next, Walk!Close, Geometry, EmptyBuffer, Forward
  <2>8. CASE UNCHANGED vars
    BY <2>8 DEF vars, config, stream, call, Geometry
  <2> QED BY <2>1, <2>2, <2>3, <2>4, <2>5, <2>6, <2>7, <2>8 DEF Next, Walk!Next
<1> QED BY <1>1, <1>2, InvariantTheorem, PTL DEF Spec, WalkSpec, Walk!Spec

-----------------------------------------------------------------------------
(* Walking backward along the pointers of a device *)

CONSTANTS PB, R, MaxDives, Corrupt

VARIABLES
  dives, last, count, fingerprint, failed, at, previous, pos, prev, next,
  info, current, maximum, delivered, stopped, status

\* The variables of a download; the names it shares with the stream are its own.
Suunto == INSTANCE SuuntoDownload

\* Going back from b by the distance from a to b arrives at a, wherever b is:
\* the stream that has read a dive is at the start of it.
LEMMA BackArrives ==
  ASSUME NEW a \in Int, NEW b \in Int, NEW lo \in Int, NEW hi \in Int, a \in lo .. (hi - 1)
  PROVE  LET d == ringbuffer_distance(a, b, DC_RINGBUFFER_FULL, lo, hi)
         IN  d \in 1 .. (hi - lo) /\ ringbuffer_decrement(b, d, lo, hi) = a
<1>1. PICK n \in Nat \ {0} : n = hi - lo
  OBVIOUS
<1>2. PICK d \in Int :
        /\ d = ringbuffer_distance(a, b, DC_RINGBUFFER_FULL, lo, hi)
        /\ d \in 1 .. n /\ d % n = (b - a) % n
  <2>1. /\ distance(a, b, n, DC_RINGBUFFER_FULL) \in 1 .. n
        /\ distance(a, b, n, DC_RINGBUFFER_FULL) % n = (b - a) % n
    BY DistanceIsModular, Zenon
  <2>2. distance(a, b, n, DC_RINGBUFFER_FULL) \in Int
    BY <2>1
  <2>3. ringbuffer_distance(a, b, DC_RINGBUFFER_FULL, lo, hi) = distance(a, b, n, DC_RINGBUFFER_FULL)
    BY <1>1 DEF ringbuffer_distance
  <2> QED BY <2>1, <2>2, <2>3, Zenon
<1>3. PICK c \in Int, e \in Int, f \in Int : c = b - lo /\ e = b - a /\ f = a - lo
  OBVIOUS
<1>4. (c - d) % n = (c - e) % n
  <2>1. PICK r \in Int, k \in Int : r = d % n /\ d = r + k * n
    BY LapsToRemainder, Zenon
  <2>2. PICK t \in Int, l \in Int : t = e % n /\ e = t + l * n
    BY LapsToRemainder, ZenonT(30)
  <2>3. PICK m \in Int : m = l - k
    OBVIOUS
  <2>4. r = t
    BY <1>2, <1>3, <2>1, <2>2
  <2>5. m * n = l * n - k * n
    BY <2>3, Distribute
  <2>6. c - d \in Int /\ c - e \in Int /\ c - d = (c - e) + m * n
    <3>1. PICK p \in Int, q \in Int : p = k * n /\ q = l * n
      OBVIOUS
    <3>2. m * n = q - p /\ d = r + p /\ e = r + q
      BY <2>1, <2>2, <2>4, <2>5, <3>1
    <3> QED BY <3>2
  <2> QED BY <2>6, LapsApart
<1>5. f % n = f /\ c - e = f
  <2>1. f % n = f
    BY <1>1, <1>3, InRingRemainder
  <2> QED BY <2>1, <1>3
<1>6. ringbuffer_decrement(b, d, lo, hi) = ((c - d) % n) + lo
  BY <1>1, <1>3, StepIs
<1> QED BY <1>1, <1>2, <1>3, <1>4, <1>5, <1>6

LEMMA SuuntoRing ==
  ASSUME Suunto!SuuntoAssumption, NEW a \in Suunto!Addresses, NEW b \in Int
  PROVE  LET d == Suunto!ringbuffer_distance(a, b, Suunto!DC_RINGBUFFER_FULL, PB, Suunto!PE)
         IN  d \in 1 .. R /\ Suunto!ringbuffer_decrement(b, d, PB, Suunto!PE) = a
<1>1. PICK hi \in Int : hi = Suunto!PE /\ hi - PB = R /\ PB \in Int /\ a \in Int /\ a \in PB .. (hi - 1)
  BY DEF Suunto!SuuntoAssumption, Suunto!PE, Suunto!Addresses
<1>2. /\ Suunto!ringbuffer_distance(a, b, Suunto!DC_RINGBUFFER_FULL, PB, hi)
           = ringbuffer_distance(a, b, DC_RINGBUFFER_FULL, PB, hi)
      /\ \A d \in Int : Suunto!ringbuffer_decrement(b, d, PB, hi) = ringbuffer_decrement(b, d, PB, hi)
  BY DEF Suunto!ringbuffer_distance, ringbuffer_distance, Suunto!distance, distance,
         Suunto!ringbuffer_decrement, ringbuffer_decrement, Suunto!modulo, modulo,
         Suunto!LapRest, LapRest, Suunto!DC_RINGBUFFER_FULL, DC_RINGBUFFER_FULL
<1>3. LET d == ringbuffer_distance(a, b, DC_RINGBUFFER_FULL, PB, hi)
      IN  d \in 1 .. (hi - PB) /\ ringbuffer_decrement(b, d, PB, hi) = a
  BY <1>1, BackArrives
<1> QED BY <1>1, <1>2, <1>3

LEMMA SuuntoRemaining ==
  ASSUME Suunto!SuuntoAssumption, NEW b, NEW e \in Suunto!Addresses, NEW k
  PROVE  Suunto!Remaining(b, e, k) \in 0 .. R
<1>1. CASE ~Suunto!InRing(b)
  BY <1>1 DEF Suunto!Remaining, Suunto!SuuntoAssumption
<1>2. CASE Suunto!InRing(b)
  <2>1. PB \in Int /\ R \in Nat \ {0} /\ Suunto!PE - PB = R /\ b \in Int /\ e \in Int
    BY <1>2 DEF Suunto!SuuntoAssumption, Suunto!PE, Suunto!Addresses, Suunto!InRing
  <2>2. \A mode \in {0, 1} : Suunto!distance(b, e, R, mode) = distance(b, e, R, mode)
    BY DEF Suunto!distance, distance, Suunto!LapRest, LapRest
  <2>3. distance(b, e, R, 0) \in 0 .. R /\ distance(b, e, R, 1) \in 0 .. R
    <3>1. e - b \in Int
      BY <2>1
    <3>2. (e - b) % R \in 0 .. (R - 1)
      BY <2>1, <3>1, DivMod, Zenon
    <3>3. distance(b, e, R, 0) = (e - b) % R /\ distance(b, e, R, 1) \in 1 .. R
      BY <2>1, DistanceIsModular, Zenon DEF DC_RINGBUFFER_EMPTY, DC_RINGBUFFER_FULL
    <3> QED BY <2>1, <3>2, <3>3
  <2> QED BY <1>2, <2>1, <2>2, <2>3 DEF Suunto!Remaining, Suunto!ringbuffer_distance,
          Suunto!DC_RINGBUFFER_EMPTY, Suunto!DC_RINGBUFFER_FULL
<1> QED BY <1>1, <1>2

\* What was read and what is left to read are what was announced, and the
\* stream is where the next dive ends.
SuuntoInv ==
  /\ Suunto!TypeOK
  /\ current \in Int /\ maximum \in Int
  /\ pc \in {"idle", "serial"} => current = 0
  /\ pc = "serial" => maximum = R + 8
  /\ pc = "header" => current = 4 /\ maximum = R + 8
  /\ pc \in {"read", "dive", "stop"} => current + offset = maximum
  /\ pc = "read" => pos = previous
  /\ pc = "dive" => pos = at /\ prev \in Suunto!Addresses
  /\ pc = "done" => current <= maximum

LEMMA SuuntoInvInit == ASSUME Suunto!SuuntoAssumption, Suunto!Init PROVE SuuntoInv
<1>1. /\ pc = "idle" /\ offset = 0 /\ current = 0 /\ maximum = 0 /\ status = "none"
  BY DEF Suunto!Init
<1> QED BY <1>1 DEF SuuntoInv, Suunto!TypeOK, Suunto!SuuntoAssumption

LEMMA SuuntoInvStep ==
  ASSUME Suunto!SuuntoAssumption, SuuntoInv, [Suunto!Next]_Suunto!vars PROVE SuuntoInv'
<1> USE DEF SuuntoInv, Suunto!TypeOK, Suunto!SuuntoAssumption, Suunto!Finish, Suunto!InRing,
            Suunto!SZ_SERIAL, Suunto!SZ_MEMORY_HEADER
<1>1. CASE Suunto!Foreach
  BY <1>1 DEF Suunto!Foreach, Suunto!report
<1>2. CASE Suunto!ReadSerial
  BY <1>2 DEF Suunto!ReadSerial
<1>3. CASE Suunto!ReadHeader
  <2>1. PICK h \in Suunto!HeaderPointers :
          IF Suunto!InRing(h.last) /\ Suunto!InRing(h.end)
            THEN LET m == Suunto!Remaining(h.begin, h.end, h.count)
                 IN  /\ offset' = m /\ maximum' = maximum - (R - m)
                     /\ current' = current + Suunto!SZ_MEMORY_HEADER
                     /\ at' = h.last /\ previous' = h.end /\ pos' = h.end
                     /\ pc' = "read" /\ UNCHANGED status
            ELSE /\ Suunto!Finish("DATAFORMAT")
                 /\ UNCHANGED <<offset, current, maximum, at, previous, pos>>
    BY <1>3, Zenon DEF Suunto!ReadHeader, Suunto!progress
  <2>2. CASE Suunto!InRing(h.last) /\ Suunto!InRing(h.end)
    <3>1. PICK m \in 0 .. R : m = Suunto!Remaining(h.begin, h.end, h.count)
      BY <2>2, SuuntoRemaining
    <3> QED BY <1>3, <2>1, <2>2, <3>1 DEF Suunto!ReadHeader
  <2>3. CASE ~(Suunto!InRing(h.last) /\ Suunto!InRing(h.end))
    BY <1>3, <2>1, <2>3 DEF Suunto!ReadHeader
  <2> QED BY <2>2, <2>3
<1>4. CASE Suunto!BadSize
  BY <1>4 DEF Suunto!BadSize, Suunto!progress
<1>5. CASE Suunto!ReadDive
  <2>1. previous \in Int
    BY <1>5 DEF Suunto!ReadDive, Suunto!Addresses, Suunto!PE
  <2>2. PICK d \in 1 .. R : d = Suunto!DiveSize /\ Suunto!ringbuffer_decrement(pos, d, PB, Suunto!PE) = at
    BY <1>5, <2>1, SuuntoRing DEF Suunto!ReadDive, Suunto!DiveSize
  <2>3. d <= offset /\ offset' = offset - d /\ current' = current + d /\ pos' = at
    BY <1>5, <2>2 DEF Suunto!ReadDive, Suunto!SizeFits
  <2>4. /\ at' = at /\ previous' = previous /\ maximum' = maximum
        /\ \/ pc' = "dive" /\ prev' \in Suunto!Addresses /\ status' = status
           \/ pc' = "done" /\ status' = "DATAFORMAT"
    BY <1>5 DEF Suunto!ReadDive
  <2>5. pc = "read" /\ at \in Suunto!Addresses /\ previous \in Suunto!Addresses
    BY <1>5 DEF Suunto!ReadDive
  <2> QED BY <2>2, <2>3, <2>4, <2>5
<1>6. CASE Suunto!HandOut
  BY <1>6 DEF Suunto!HandOut, Suunto!Advance, Suunto!progress
<1>7. CASE Suunto!SkipDive
  BY <1>7 DEF Suunto!SkipDive, Suunto!Advance, Suunto!progress, Suunto!report
<1>8. CASE Suunto!Return
  BY <1>8 DEF Suunto!Return, Suunto!progress
<1>9. CASE Suunto!ReadFails
  BY <1>9 DEF Suunto!ReadFails, Suunto!progress
<1>10. CASE Suunto!Finished \/ UNCHANGED Suunto!vars
  BY <1>10 DEF Suunto!Finished, Suunto!vars, Suunto!progress, Suunto!report
<1> QED BY <1>1, <1>2, <1>3, <1>4, <1>5, <1>6, <1>7, <1>8, <1>9, <1>10 DEF Suunto!Next

\* Whatever the pointers in the memory of a Suunto D9 or Vyper 2 are, and for
\* every ring: the stream is always where the pointers say that the next dive
\* ends, so that no dive is put together from the bytes of two, and
\* suunto_common2_device_foreach reads no more than it has announced.
THEOREM SuuntoInStep ==
  ASSUME Suunto!SuuntoAssumption PROVE Suunto!Spec => [](Suunto!TypeOK /\ Suunto!InStep)
<1>1. SuuntoInv => Suunto!TypeOK /\ Suunto!InStep
  BY DEF SuuntoInv, Suunto!TypeOK, Suunto!InStep, Suunto!SuuntoAssumption
<1>2. Suunto!Init => SuuntoInv
  BY SuuntoInvInit
<1>3. SuuntoInv /\ [Suunto!Next]_Suunto!vars => SuuntoInv'
  BY SuuntoInvStep
<1> QED BY <1>1, <1>2, <1>3, PTL DEF Suunto!Spec

-----------------------------------------------------------------------------
(* Two passes over a list of addresses *)

CONSTANTS L, PerPage, DiveSizes

VARIABLES driver, used, eop, valid, list, idx, taken, total, remaining, top, len

Pointer == INSTANCE PointerDownload

\* Where the newest dive may end.
Ends == Pointer!Addresses \cup {Pointer!PE}

\* The end e of the newest dive and the addresses behind the first b of the
\* list l; the length of the i-th dive; and the sums t of the first w lengths.
Mark(l, b, e, i) == IF i = 0 THEN e ELSE l[b + i]

Gap(l, b, e, i) ==
  Pointer!ringbuffer_distance(Mark(l, b, e, i), Mark(l, b, e, i - 1),
                              Pointer!DC_RINGBUFFER_FULL, PB, Pointer!PE)

Adds(l, b, e, w, t) ==
  /\ t \in [0 .. w -> 0 .. R] /\ t[0] = 0
  /\ \A i \in 1 .. w : t[i] = t[i - 1] + Gap(l, b, e, i)
  /\ \A i \in 0 .. w : t[i] <= t[w]

LEMMA PointerRing ==
  ASSUME Pointer!PointerAssumption, NEW a \in Pointer!Addresses, NEW b \in Int
  PROVE  LET d == Pointer!ringbuffer_distance(a, b, Pointer!DC_RINGBUFFER_FULL, PB, Pointer!PE)
         IN  /\ d \in 1 .. R /\ Pointer!ringbuffer_decrement(b, d, PB, Pointer!PE) = a
             /\ Pointer!ringbuffer_normalize(a, PB, Pointer!PE) = a
<1>1. PICK hi \in Int :
        hi = Pointer!PE /\ hi - PB = R /\ PB \in Int /\ a \in Int /\ a \in PB .. (hi - 1) /\ PB < hi
  BY DEF Pointer!PointerAssumption, Pointer!PE, Pointer!Addresses
<1>2. /\ Pointer!ringbuffer_distance(a, b, Pointer!DC_RINGBUFFER_FULL, PB, hi)
           = ringbuffer_distance(a, b, DC_RINGBUFFER_FULL, PB, hi)
      /\ \A d \in Int : Pointer!ringbuffer_decrement(b, d, PB, hi) = ringbuffer_decrement(b, d, PB, hi)
      /\ Pointer!ringbuffer_normalize(a, PB, hi) = ringbuffer_normalize(a, PB, hi)
  BY DEF Pointer!ringbuffer_distance, ringbuffer_distance, Pointer!distance, distance,
         Pointer!ringbuffer_decrement, ringbuffer_decrement, Pointer!modulo, modulo,
         Pointer!ringbuffer_normalize, ringbuffer_normalize,
         Pointer!LapRest, LapRest, Pointer!DC_RINGBUFFER_FULL, DC_RINGBUFFER_FULL
<1>3. LET d == ringbuffer_distance(a, b, DC_RINGBUFFER_FULL, PB, hi)
      IN  d \in 1 .. (hi - PB) /\ ringbuffer_decrement(b, d, PB, hi) = a
  BY <1>1, BackArrives
<1>4. ringbuffer_normalize(a, PB, hi) = a
  BY <1>1, NormalizeInRing
<1> QED BY <1>1, <1>2, <1>3, <1>4

\* The first address of the ring behind a dive that starts at a.
LEMMA PointerEnd ==
  ASSUME Pointer!PointerAssumption, NEW a \in Pointer!Addresses, NEW m \in Int
  PROVE  Pointer!ringbuffer_increment(a, m, PB, Pointer!PE) \in Pointer!Addresses
<1>1. PICK hi \in Int : hi = Pointer!PE /\ hi - PB = R /\ PB \in Int /\ a \in Int /\ PB < hi
  BY DEF Pointer!PointerAssumption, Pointer!PE, Pointer!Addresses
<1>2. Pointer!ringbuffer_increment(a, m, PB, hi) = ringbuffer_increment(a, m, PB, hi)
  BY DEF Pointer!ringbuffer_increment, ringbuffer_increment, Pointer!modulo, modulo,
         Pointer!LapRest, LapRest
<1>3. PICK c \in Int, k \in Nat \ {0} : c = (a - PB) + m /\ k = hi - PB
  BY <1>1
<1>4. ringbuffer_increment(a, m, PB, hi) = (c % k) + PB
  BY <1>1, <1>3, StepIs
<1>5. c % k \in 0 .. (k - 1)
  BY DivMod, Zenon
<1> QED BY <1>1, <1>2, <1>3, <1>4, <1>5 DEF Pointer!Addresses

\* The entries of a logbook are at least one, and no more than it has slots.
LEMMA PointerEntries ==
  ASSUME Pointer!PointerAssumption, last \in 0 .. L - 1, NEW k \in Int
  PROVE  Pointer!Entries((last - k) % L) \in 1 .. L
<1>1. L \in Nat \ {0} /\ last \in Int /\ last - k \in Int
  BY DEF Pointer!PointerAssumption
<1>2. (last - k) % L \in 0 .. (L - 1)
  BY <1>1, DivMod, Zenon
<1>3. PICK f \in Int : f = (last - k) % L
  BY <1>2
<1>4. last - f \in Int
  BY <1>1
<1>5. (last - f) % L \in 0 .. (L - 1)
  BY <1>1, <1>4, DivMod, Zenon
<1>6. distance(f, last, L, 0) = (last - f) % L
  BY <1>1, DistanceIsModular, Zenon DEF DC_RINGBUFFER_EMPTY
<1>7. Pointer!distance(f, last, L, 0) = distance(f, last, L, 0)
  BY DEF Pointer!distance, distance, Pointer!LapRest, LapRest
<1>8. L - 0 = L
  BY <1>1
<1>9. Pointer!Entries(f) = Pointer!distance(f, last, L, 0) + 1
  BY <1>8 DEF Pointer!Entries, Pointer!ringbuffer_distance, Pointer!DC_RINGBUFFER_EMPTY
<1> QED BY <1>1, <1>3, <1>5, <1>6, <1>7, <1>9

LEMMA AddsNone ==
  ASSUME Pointer!PointerAssumption, NEW l, NEW b, NEW e
  PROVE  Adds(l, b, e, 0, [i \in 0 .. 0 |-> 0])
BY DEF Adds, Pointer!PointerAssumption

LEMMA AddsMore ==
  ASSUME Pointer!PointerAssumption, NEW l, NEW b, NEW e, NEW w \in Nat, NEW t,
         Adds(l, b, e, w, t), Gap(l, b, e, w + 1) \in 1 .. R, t[w] + Gap(l, b, e, w + 1) <= R
  PROVE  LET u == [i \in 0 .. w + 1 |-> IF i <= w THEN t[i] ELSE t[w] + Gap(l, b, e, w + 1)]
         IN  Adds(l, b, e, w + 1, u)
<1> DEFINE g == Gap(l, b, e, w + 1)
           u == [i \in 0 .. w + 1 |-> IF i <= w THEN t[i] ELSE t[w] + g]
<1>1. g \in 1 .. R /\ R \in Nat /\ \A i \in 0 .. w : t[i] \in 0 .. R
  BY DEF Adds, Pointer!PointerAssumption
<1> HIDE DEF g
<1>2. u \in [0 .. w + 1 -> 0 .. R] /\ u[0] = 0 /\ u[w + 1] = t[w] + g /\ \A i \in 0 .. w : u[i] = t[i]
  <2>1. t[0] = 0 /\ t[w] + g \in 0 .. R
    BY <1>1 DEF Adds, g
  <2> QED BY <1>1, <2>1
<1> HIDE DEF u
<1>3. \A i \in 1 .. w + 1 : u[i] = u[i - 1] + Gap(l, b, e, i)
  <2> SUFFICES ASSUME NEW i \in 1 .. w + 1 PROVE u[i] = u[i - 1] + Gap(l, b, e, i)
    OBVIOUS
  <2>1. CASE i \in 1 .. w
    <3>1. i \in 0 .. w /\ i - 1 \in 0 .. w
      BY <2>1
    <3> QED BY <1>2, <2>1, <3>1 DEF Adds
  <2>2. CASE i = w + 1
    <3>1. i - 1 = w /\ w \in 0 .. w
      BY <2>2
    <3> QED BY <1>2, <2>2, <3>1 DEF g
  <2> QED BY <2>1, <2>2
<1>4. \A i \in 0 .. w + 1 : u[i] <= u[w + 1]
  <2>1. PICK a \in 0 .. R : a = t[w] /\ \A i \in 0 .. w : t[i] \in 0 .. R /\ t[i] <= a
    BY <1>1 DEF Adds
  <2>2. \A i \in 0 .. w : u[i] <= u[w + 1]
    BY <1>1, <1>2, <2>1
  <2>3. u[w + 1] <= u[w + 1]
    BY <1>1, <1>2, <2>1
  <2>4. \A i \in 0 .. w + 1 : i \in 0 .. w \/ i = w + 1
    OBVIOUS
  <2> QED BY <2>2, <2>3, <2>4, Zenon
<1> QED BY <1>2, <1>3, <1>4 DEF Adds, g, u

\* Only the addresses that were added up matter.
LEMMA AddsSame ==
  ASSUME NEW l, NEW k, NEW b, NEW e, NEW w \in Nat, NEW t, Adds(l, b, e, w, t),
         \A i \in 1 .. w : k[b + i] = l[b + i]
  PROVE  Adds(k, b, e, w, t)
<1>1. \A i \in 0 .. w : Mark(k, b, e, i) = Mark(l, b, e, i)
  BY DEF Mark
<1>2. \A i \in 1 .. w : Gap(k, b, e, i) = Gap(l, b, e, i)
  BY <1>1 DEF Gap
<1> QED BY <1>2 DEF Adds

(* Division, for the pages of a logbook *)

LEMMA DivUnique == \A k, r \in Int, d \in Nat \ {0} : r \in 0 .. (d - 1) => (k * d + r) \div d = k
  BY SMT

LEMMA DivStep ==
  ASSUME NEW x \in Nat, NEW d \in Nat \ {0}
  PROVE  /\ x \div d \in Nat /\ (x + 1) \div d \in Nat
         /\ (x + 1) \div d = (x \div d) + (IF (x + 1) % d = 0 THEN 1 ELSE 0)
<1>1. PICK q \in Int, r \in Int : q = x \div d /\ r \in 0 .. (d - 1) /\ x = d * q + r
  BY DivMod
<1>2. q >= 0
  BY <1>1, SMT
<1>3. CASE r + 1 < d
  <2>1. x + 1 = q * d + (r + 1) /\ r + 1 \in Int /\ r + 1 \in 0 .. (d - 1)
    BY <1>1, <1>3
  <2>2. (q * d + (r + 1)) \div d = q /\ (q * d + (r + 1)) % d = r + 1
    BY <2>1, DivUnique, ModUnique, Zenon
  <2> QED BY <1>1, <1>2, <2>1, <2>2
<1>4. CASE r + 1 = d
  <2>1. x + 1 = (q + 1) * d + 0 /\ q + 1 \in Int /\ 0 \in Int /\ 0 \in 0 .. (d - 1)
    BY <1>1, <1>4
  <2>2. ((q + 1) * d + 0) \div d = q + 1 /\ ((q + 1) * d + 0) % d = 0
    BY <2>1, DivUnique, ModUnique, Zenon
  <2> QED BY <1>1, <1>2, <2>1, <2>2
<1> QED BY <1>1, <1>3, <1>4

LEMMA DivMono ==
  ASSUME NEW x \in Nat, NEW y \in Nat, x <= y, NEW d \in Nat \ {0}
  PROVE  x \div d \in Nat /\ y \div d \in Nat /\ x \div d <= y \div d
<1>1. PICK q \in Int, r \in Int : q = x \div d /\ r \in 0 .. (d - 1) /\ x = d * q + r
  BY DivMod
<1>2. PICK p \in Int, s \in Int : p = y \div d /\ s \in 0 .. (d - 1) /\ y = d * p + s
  BY DivMod
<1>3. q >= 0 /\ p >= 0
  BY <1>1, <1>2, SMT
<1>4. q <= p
  <2> SUFFICES ASSUME q >= p + 1 PROVE FALSE
    BY <1>1, <1>2
  <2>1. d * q >= d * (p + 1)
    BY <1>3, SMT
  <2>2. d * (p + 1) = d * p + d
    BY SMT
  <2> QED BY <1>1, <1>2, <2>1, <2>2
<1> QED BY <1>1, <1>2, <1>3, <1>4

(* The invariant *)

IsSequence(l) == \E S : l \in Seq(S)

PointerTypes ==
  /\ driver \in Pointer!Drivers
  /\ pc \in {"idle", "list", "book", "booked", "plan", "planned", "read", "dive", "stop", "done"}
  /\ status \in {"none", "SUCCESS", "DATAFORMAT", "TIMEOUT", "CANCELLED"}
  /\ Pointer!n \in 0 .. L /\ used \in [1 .. Pointer!n -> DiveSizes]
  /\ fingerprint \in 0 .. Pointer!n /\ last \in 0 .. L - 1
  /\ eop \in Ends /\ (eop = Pointer!PE => driver.list = "entries") /\ valid \in BOOLEAN
  /\ IsSequence(list) /\ Len(list) \in 0 .. L
  /\ idx \in Nat /\ nbytes \in Nat
  /\ begin \in Nat /\ count \in Nat /\ skip \in Nat /\ taken \in Nat
  /\ total \in 0 .. R /\ remaining \in 0 .. R /\ top \in Int
  /\ current \in Int /\ maximum \in Int

StartInv ==
  /\ pc \in {"idle", "list", "book", "booked"} =>
       begin = 0 /\ count = 0 /\ skip = 0 /\ taken = 0 /\ total = 0
  /\ pc \in {"idle", "list"} => list = <<>> /\ nbytes = 0 /\ current = 0
  /\ pc = "list" /\ driver.list = "whole" => maximum = 1 + R
  /\ pc = "list" /\ driver.list = "entries" => maximum = 1 + Pointer!SZ_BOOK + R
  /\ pc = "list" /\ driver.list = "numbers" => maximum = R

\* The slot of the next entry after k of them, and what they and the padding
\* of the pages that were touched take.
SlotAfter(k) == IF k <= last THEN last - k ELSE last - k + L

BookSize(k) ==
  2 * k + ((last + 1) \div PerPage) - ((SlotAfter(k) + 1) \div PerPage)
    + (IF k <= last THEN 0 ELSE L \div PerPage)

BookInv ==
  /\ pc \in {"book", "booked"} =>
       /\ driver.list = "entries" /\ top \in Ends
       /\ current = 1 + nbytes /\ maximum = 1 + Pointer!SZ_BOOK + R /\ nbytes <= Pointer!SZ_BOOK
  /\ pc = "book" => idx = SlotAfter(Len(list)) /\ nbytes = BookSize(Len(list))

\* The addresses that were asked for one by one: one more than were looked at,
\* or as many; and what was read for them.
NumbersInv ==
  /\ Pointer!NewDives >= 1 /\ Len(list) <= Pointer!NewDives
  /\ skip = begin + (IF pc = "planned" THEN 1 ELSE 0)
  /\ Pointer!Done <= Len(list) /\ Len(list) <= Pointer!Done + 1
  /\ pc = "planned" => Len(list) = Pointer!Done
  /\ Len(list) = 0 =>
       top = 0 /\ current = 1 /\ maximum = R + 1 + Pointer!NewDives
  /\ Len(list) > 0 =>
       top \in Pointer!Addresses /\ current = 3 + Len(list) /\ maximum = R + 3 + Pointer!NewDives

\* The dives of the plan are in the ring.
Listed == begin + count <= Len(list) /\ \A i \in 1 .. count : list[begin + i] \in Pointer!Addresses

\* The sums of the first pass, up to the first dive that is lost.
Summed(w, t) ==
  /\ w \in 0 .. count /\ Adds(list, begin, top, w, t) /\ t[w] = total
  /\ w < count => driver.overflow = "empty"

PlanInv ==
  /\ pc \in {"plan", "planned"} =>
       /\ taken = 0 /\ Listed /\ previous = Mark(list, begin, top, count)
       /\ \E w, t : Summed(w, t) /\ remaining = IF w = count THEN R - total ELSE 0
       /\ driver.list # "numbers" => top \in Ends /\ begin = 0 /\ skip = 0
       /\ driver.list = "whole" => current = 0 /\ maximum = 1 + R
       /\ driver.list = "entries" => current = 1 + nbytes /\ maximum = 1 + nbytes + R
       /\ driver.list = "numbers" => NumbersInv
  /\ pc = "planned" => driver.overflow = "cut"

\* The dives of the second pass so far.
Passed == IF pc = "dive" THEN taken + 1 ELSE taken

\* The second pass has as much left as the first has still added up, and the
\* stream is at the dive that was read, until the first one that is lost.
ReadInv ==
  /\ pc \in {"read", "dive"} =>
       /\ Passed <= count /\ Listed /\ top \in Ends
       /\ previous = Mark(list, begin, top, Passed)
       /\ \E w, t :
            /\ Summed(w, t)
            /\ IF Passed <= w THEN remaining = total - t[Passed] /\ pos = previous
                              ELSE remaining = 0 /\ (pc = "dive" => len = 0)
  /\ pc = "dive" => at = previous

ProgressInv ==
  /\ pc \in {"read", "dive", "stop"} => current + remaining = maximum
  /\ pc = "done" /\ status # "DATAFORMAT" => current <= maximum

PointerInv ==
  PointerTypes /\ StartInv /\ BookInv /\ PlanInv /\ ReadInv /\ ProgressInv

LEMMA DriverFacts ==
  ASSUME NEW d \in Pointer!Drivers
  PROVE  /\ d.list \in {"whole", "entries", "numbers"} /\ d.overflow \in {"cut", "empty"}
         /\ d.overflow = "empty" <=> d.list = "entries"
BY DEF Pointer!Drivers, Pointer!cressi_edy, Pointer!zeagle_n2ition3, Pointer!liquivision_lynx,
       Pointer!seac_screen

LEMMA PointerConstants ==
  ASSUME Pointer!PointerAssumption
  PROVE  /\ PB \in Nat \ {0} /\ R \in Nat \ {0} /\ L \in Nat \ {0} /\ PerPage \in Nat \ {0}
         /\ DiveSizes \subseteq 1 .. R /\ Pointer!PE \in Int /\ Pointer!PE = PB + R
         /\ Pointer!Addresses \subseteq Nat \ {0} /\ Ends \subseteq Nat \ {0}
         /\ L \div PerPage \in Nat /\ Pointer!SZ_BOOK = 2 * L + (L \div PerPage)
         /\ Pointer!SZ_BOOK \in Nat
<1>1. L \div PerPage \in Nat
  BY DivMono DEF Pointer!PointerAssumption
<1> QED BY <1>1 DEF Pointer!PointerAssumption, Pointer!PE, Pointer!Addresses, Ends, Pointer!SZ_BOOK,
               Pointer!SZ_ENTRY, Pointer!SZ_PADDING

LEMMA PointerInit == ASSUME Pointer!PointerAssumption, Pointer!Init PROVE PointerInv
<1>1. /\ driver \in Pointer!Drivers /\ eop \in Ends /\ (eop = Pointer!PE => driver.list = "entries")
      /\ last \in 0 .. L - 1 /\ valid \in BOOLEAN /\ fingerprint \in 0 .. Pointer!n
      /\ used \in [1 .. Pointer!n -> DiveSizes]
      /\ pc = "idle" /\ list = <<>> /\ idx = 0 /\ nbytes = 0
      /\ begin = 0 /\ count = 0 /\ skip = 0 /\ taken = 0
      /\ total = 0 /\ remaining = 0 /\ top = 0
      /\ current = 0 /\ maximum = 0 /\ status = "none"
  BY DEF Pointer!Init, Ends
<1>2. Pointer!n \in 0 .. L
  <2>1. PICK k \in 0 .. L : size \in [1 .. k -> DiveSizes]
    BY DEF Pointer!Init
  <2>2. size \in Seq(DiveSizes) /\ Len(size) = k
    BY <2>1
  <2> QED BY <2>2 DEF Pointer!n
<1>3. IsSequence(list) /\ Len(list) = 0
  <2>1. <<>> \in Seq({}) /\ Len(<<>>) = 0
    OBVIOUS
  <2> QED BY <1>1, <2>1 DEF IsSequence
<1>4. PointerTypes
  BY <1>1, <1>2, <1>3, PointerConstants DEF PointerTypes
<1> QED BY <1>1, <1>4 DEF PointerInv, StartInv, BookInv, PlanInv, ReadInv, ProgressInv

(* The steps *)

LEMMA PointerForeach ==
  ASSUME Pointer!PointerAssumption, PointerInv, Pointer!Foreach PROVE PointerInv'
<1>1. /\ pc = "idle" /\ pc' = "list"
      /\ UNCHANGED <<driver, size, used, eop, last, valid, fingerprint, list, idx, nbytes, begin, count, skip,
                     taken, total, remaining, top, current, status>>
  BY DEF Pointer!Foreach, Pointer!device, Pointer!book, Pointer!plan, Pointer!walk
<1>2. /\ driver.list = "whole" => maximum' = 1 + R
      /\ driver.list = "entries" => maximum' = 1 + Pointer!SZ_BOOK + R
      /\ driver.list = "numbers" => maximum' = R
  BY DEF Pointer!Foreach, Pointer!SZ_LIST
<1>3. driver.list \in {"whole", "entries", "numbers"}
  BY DriverFacts DEF PointerInv, PointerTypes
<1>4. PointerTypes'
  <2>1. maximum' \in Int
    BY <1>2, <1>3, PointerConstants
  <2> QED BY <1>1, <2>1 DEF PointerInv, PointerTypes, Pointer!n
<1> QED BY <1>1, <1>2, <1>4 DEF PointerInv, StartInv, BookInv, PlanInv, ReadInv, ProgressInv,
            Pointer!SZ_BOOK

\* The first pass begins with nothing added up.
LEMMA PointerStarts ==
  ASSUME Pointer!PointerAssumption, count' = 0, total' = 0, begin' \in Nat,
         remaining' = R, previous' = top', Len(list') \in Nat, begin' <= Len(list')
  PROVE  /\ Listed' /\ previous' = Mark(list', begin', top', count')
         /\ \E w, t : Summed(w, t)' /\ remaining' = IF w = count' THEN R - total' ELSE 0
<1> DEFINE t == [i \in 0 .. 0 |-> 0]
<1>1. Adds(list', begin', top', 0, t) /\ t[0] = 0
  BY AddsNone
<1> HIDE DEF t
<1>2. Summed(0, t)'
  BY <1>1 DEF Summed
<1>3. remaining' = IF 0 = count' THEN R - total' ELSE 0
  BY DEF Pointer!PointerAssumption
<1> QED BY <1>2, <1>3 DEF Listed, Mark

LEMMA WalkedFacts ==
  ASSUME Pointer!PointerAssumption, NEW m \in 1 .. L, NEW l \in Pointer!Walked(m)
  PROVE  IsSequence(l) /\ Len(l) = m
<1>1. m \in Nat
  OBVIOUS
<1>2. CASE Corrupt
  <2>1. l \in [1 .. m -> Pointer!Pointers]
    BY <1>2 DEF Pointer!Walked
  <2>2. l \in Seq(Pointer!Pointers) /\ Len(l) = m
    BY <1>1, <2>1
  <2> QED BY <2>2 DEF IsSequence
<1>3. CASE ~Corrupt
  <2>1. PICK f : l = [i \in 1 .. m |-> f[i]]
    BY <1>3, Zenon DEF Pointer!Walked
  <2>2. PICK S : S = {f[i] : i \in 1 .. m}
    OBVIOUS
  <2>3. l \in [1 .. m -> S]
    BY <2>1, <2>2
  <2>4. l \in Seq(S) /\ Len(l) = m
    BY <1>1, <2>3
  <2> QED BY <2>4 DEF IsSequence
<1> QED BY <1>2, <1>3

LEMMA PointerReadList ==
  ASSUME Pointer!PointerAssumption, PointerInv, Pointer!ReadList PROVE PointerInv'
<1>1. /\ pc = "list" /\ driver.list = "whole"
      /\ UNCHANGED <<driver, size, used, eop, last, valid, fingerprint, idx, nbytes, begin, skip, taken,
                     current, maximum>>
  BY DEF Pointer!ReadList, Pointer!device, Pointer!progress
<1>2. CASE /\ pc' = "done" /\ status' \in {"SUCCESS", "DATAFORMAT"}
           /\ UNCHANGED <<list, count, total, remaining, top>>
  <2>1. PointerTypes'
    BY <1>1, <1>2 DEF PointerInv, PointerTypes, Pointer!n
  <2> QED BY <1>1, <1>2, <2>1, PointerConstants
          DEF PointerInv, StartInv, BookInv, PlanInv, ReadInv, ProgressInv
<1>3. CASE /\ list' \in Pointer!Walked(Pointer!Entries((last - (Pointer!n - 1)) % L))
           /\ \E e \in IF Corrupt THEN Pointer!Addresses ELSE {eop} : Pointer!StartPlan(e)
           /\ UNCHANGED <<total, status>>
  <2>1. Pointer!n - 1 \in Int /\ last \in 0 .. L - 1
    BY DEF PointerInv, PointerTypes
  <2>2. Pointer!Entries((last - (Pointer!n - 1)) % L) \in 1 .. L
    BY <2>1, PointerEntries
  <2>3. PICK m \in 1 .. L : m = Pointer!Entries((last - (Pointer!n - 1)) % L)
    BY <2>2
  <2>4. IsSequence(list') /\ Len(list') = m
    BY <1>3, <2>3, WalkedFacts
  <2>5. /\ pc' = "plan" /\ previous' = top' /\ top' \in Ends /\ remaining' = R /\ count' = 0
    BY <1>1, <1>3 DEF Pointer!StartPlan, Ends, PointerInv, PointerTypes
  <2>6. PointerTypes'
    <3>1. top' \in Int /\ remaining' \in 0 .. R /\ count' \in Nat /\ Len(list') \in 0 .. L
      BY <2>4, <2>5, PointerConstants
    <3> QED BY <1>1, <1>3, <2>4, <2>5, <3>1 DEF PointerInv, PointerTypes, Pointer!n
  <2>7. begin' = 0 /\ skip' = 0 /\ taken' = 0 /\ total' = 0 /\ current' = 0 /\ maximum' = 1 + R
    BY <1>1, <1>3 DEF PointerInv, StartInv
  <2>8. /\ Listed' /\ previous' = Mark(list', begin', top', count')
        /\ \E w, t : Summed(w, t)' /\ remaining' = IF w = count' THEN R - total' ELSE 0
    BY <2>4, <2>5, <2>7, PointerStarts, PointerConstants
  <2>9. PlanInv'
    BY <1>1, <2>5, <2>7, <2>8 DEF PlanInv
  <2> QED BY <2>5, <2>6, <2>9 DEF PointerInv, StartInv, BookInv, ReadInv, ProgressInv
<1> QED BY <1>2, <1>3 DEF Pointer!ReadList, Pointer!Finish, Pointer!walk

LEMMA PointerReadConfig ==
  ASSUME Pointer!PointerAssumption, PointerInv, Pointer!ReadConfig PROVE PointerInv'
<1>1. /\ pc = "list" /\ driver.list = "entries"
      /\ UNCHANGED <<driver, size, used, eop, last, valid, fingerprint, list, nbytes, begin, count, skip,
                     taken, total, remaining, maximum>>
  BY DEF Pointer!ReadConfig, Pointer!device, Pointer!plan, Pointer!walk
<1>2. CASE pc' = "done" /\ status' = "DATAFORMAT" /\ UNCHANGED <<idx, current, top>>
  <2>1. PointerTypes'
    BY <1>1, <1>2 DEF PointerInv, PointerTypes, Pointer!n
  <2> QED BY <1>1, <1>2, <2>1 DEF PointerInv, StartInv, BookInv, PlanInv, ReadInv, ProgressInv
<1>3. CASE /\ pc' = "book" /\ idx' = last /\ current' = current + 1 /\ top' \in Ends
           /\ UNCHANGED status
  <2>1. PointerTypes'
    BY <1>1, <1>3, PointerConstants DEF PointerInv, PointerTypes, Pointer!n
  <2>2. Len(list) = 0 /\ list = <<>> /\ nbytes = 0 /\ current = 0
    BY <1>1 DEF PointerInv, StartInv
  <2>3. SlotAfter(0) = last /\ BookSize(0) = 0 /\ last \in Nat
    <3>1. last \in Nat /\ PerPage \in Nat \ {0}
      BY PointerConstants DEF PointerInv, PointerTypes
    <3>2. (last + 1) \div PerPage \in Nat
      BY <3>1, DivStep
    <3> QED BY <3>1, <3>2 DEF SlotAfter, BookSize
  <2>4. BookInv'
    BY <1>1, <1>3, <2>2, <2>3, PointerConstants
       DEF BookInv, PointerInv, StartInv, SlotAfter, BookSize, Pointer!SZ_BOOK
  <2> QED BY <1>1, <1>3, <2>1, <2>4 DEF PointerInv, StartInv, PlanInv, ReadInv, ProgressInv
<1> QED BY <1>2, <1>3 DEF Pointer!ReadConfig, Pointer!Finish, Pointer!walk, Pointer!SZ_LIST, Ends,
            PointerInv, PointerTypes

\* All entries and the padding of all pages are the whole logbook, whichever
\* slot the last entry has.
LEMMA BookBound ==
  ASSUME Pointer!PointerAssumption, last \in 0 .. L - 1, NEW k \in 0 .. L
  PROVE  /\ SlotAfter(k) \in 0 .. L - 1 /\ BookSize(k) \in Nat /\ BookSize(k) <= Pointer!SZ_BOOK
         /\ k = L => BookSize(k) = Pointer!SZ_BOOK
<1> DEFINE s == SlotAfter(k)
<1>1. s \in 0 .. L - 1 /\ (k <= last => s <= last) /\ (k > last => s >= last) /\ (k = L => s = last)
  BY PointerConstants DEF SlotAfter
<1>2. L \in Nat /\ PerPage \in Nat \ {0} /\ L \div PerPage \in Nat
      /\ Pointer!SZ_BOOK = 2 * L + (L \div PerPage)
  BY PointerConstants
<1> HIDE DEF s
<1>3. PICK a \in Nat, b \in Nat, c \in Nat :
        a = (last + 1) \div PerPage /\ b = (s + 1) \div PerPage /\ c = L \div PerPage
  <2>1. last \in Nat /\ s \in Nat
    BY <1>1
  <2>2. (last + 1) \div PerPage \in Nat /\ (s + 1) \div PerPage \in Nat
    BY <1>2, <2>1, DivStep
  <2> QED BY <1>2, <2>2
<1>4. /\ s <= last => b <= a
      /\ s >= last => a <= b
      /\ a <= c /\ b <= c
  <2>1. s + 1 \in Nat /\ last + 1 \in Nat /\ s + 1 <= L /\ last + 1 <= L
    BY <1>1, <1>2
  <2>2. a <= c /\ b <= c
    BY <1>2, <1>3, <2>1, DivMono
  <2>3. s <= last => b <= a
    <3>1. ASSUME s <= last PROVE s + 1 <= last + 1
      BY <3>1, <1>1
    <3> QED BY <1>2, <1>3, <2>1, <3>1, DivMono
  <2>4. s >= last => a <= b
    <3>1. ASSUME s >= last PROVE last + 1 <= s + 1
      BY <3>1, <1>1
    <3> QED BY <1>2, <1>3, <2>1, <3>1, DivMono
  <2> QED BY <2>2, <2>3, <2>4
<1>5. BookSize(k) = 2 * k + a - b + (IF k <= last THEN 0 ELSE c)
  BY <1>3 DEF BookSize, s
<1>6. k = L => a = b /\ k > last
  BY <1>1, <1>2, <1>3
<1> QED BY <1>1, <1>2, <1>3, <1>4, <1>5, <1>6 DEF s

LEMMA BookStep ==
  ASSUME Pointer!PointerAssumption, last \in 0 .. L - 1, NEW k \in 0 .. L,
         BookSize(k) < Pointer!SZ_BOOK
  PROVE  /\ k + 1 \in 0 .. L
         /\ Pointer!PreviousSlot(SlotAfter(k)) = SlotAfter(k + 1)
         /\ Pointer!Padding(SlotAfter(k)) \in Nat
         /\ BookSize(k) + (Pointer!Padding(SlotAfter(k)) + 2) = BookSize(k + 1)
<1>1. k + 1 \in 0 .. L /\ L \in Nat \ {0} /\ PerPage \in Nat \ {0} /\ L \div PerPage \in Nat
  BY BookBound, PointerConstants
<1> DEFINE s == SlotAfter(k)
           q == SlotAfter(k + 1)
<1>2. s \in 0 .. L - 1 /\ q \in 0 .. L - 1
  BY <1>1, BookBound
<1>3. q = IF s = 0 THEN L - 1 ELSE s - 1
  BY <1>1 DEF SlotAfter
<1>4. k <= last /\ ~(k + 1 <= last) <=> s = 0
  BY <1>1 DEF SlotAfter
<1>5. BookSize(k) = 2 * k + ((last + 1) \div PerPage) - ((s + 1) \div PerPage)
                      + (IF k <= last THEN 0 ELSE L \div PerPage)
      /\ BookSize(k + 1) = 2 * (k + 1) + ((last + 1) \div PerPage) - ((q + 1) \div PerPage)
                      + (IF k + 1 <= last THEN 0 ELSE L \div PerPage)
  BY DEF BookSize
<1> HIDE DEF s, q
<1>6. (last + 1) \div PerPage \in Nat
  <2>1. last \in Nat
    OBVIOUS
  <2> QED BY <1>1, <2>1, DivStep
<1>7. PICK g \in {0, 1} : /\ g = Pointer!Padding(s) /\ (s \div PerPage) \in Nat
                          /\ (s + 1) \div PerPage = (s \div PerPage) + g
  <2>1. s \in Nat
    BY <1>2
  <2> QED BY <1>1, <2>1, DivStep DEF Pointer!Padding, Pointer!SZ_PADDING
<1>8. CASE s = 0
  <2>1. 0 \div PerPage = 0
    <3>1. 0 = 0 * PerPage + 0 /\ 0 \in Int /\ 0 \in 0 .. (PerPage - 1)
      BY <1>1
    <3>2. (0 * PerPage + 0) \div PerPage = 0
      BY <1>1, <3>1, DivUnique, Zenon
    <3> QED BY <3>1, <3>2
  <2>2. q + 1 = L
    BY <1>1, <1>3, <1>8
  <2>3. k <= last /\ ~(k + 1 <= last)
    BY <1>4, <1>8
  <2>4. PICK a \in Nat, c \in Nat : a = (last + 1) \div PerPage /\ c = L \div PerPage
    BY <1>1, <1>6
  <2>5. (s + 1) \div PerPage = g /\ (q + 1) \div PerPage = c
    BY <1>7, <1>8, <2>1, <2>2, <2>4
  <2>6. BookSize(k) = 2 * k + a - g /\ BookSize(k + 1) = 2 * (k + 1) + a
    BY <1>5, <2>3, <2>4, <2>5
  <2>7. Pointer!PreviousSlot(s) = q
    BY <1>3, <1>8 DEF Pointer!PreviousSlot
  <2> QED BY <1>1, <1>7, <2>6, <2>7 DEF s, q
<1>9. CASE s # 0
  <2>1. q + 1 = s
    BY <1>2, <1>3, <1>9
  <2>2. (k <= last) = (k + 1 <= last)
    BY <1>4, <1>9
  <2> QED BY <1>1, <1>3, <1>5, <1>6, <1>7, <1>9, <2>1, <2>2 DEF Pointer!PreviousSlot, s, q
<1> QED BY <1>8, <1>9

LEMMA PointerEnds ==
  ASSUME PointerTypes', pc' = "done", status' # "DATAFORMAT" => current' <= maximum'
  PROVE  PointerInv'
BY DEF PointerInv, StartInv, BookInv, PlanInv, ReadInv, ProgressInv

LEMMA AppendFacts ==
  ASSUME NEW l, IsSequence(l), NEW a
  PROVE  /\ IsSequence(Append(l, a)) /\ Len(l) \in Nat /\ Len(Append(l, a)) = Len(l) + 1
         /\ \A i \in 1 .. Len(l) : Append(l, a)[i] = l[i]
         /\ Append(l, a)[Len(l) + 1] = a
<1>1. PICK S : l \in Seq(S)
  BY DEF IsSequence
<1>2. PICK T : T = S \cup {a}
  OBVIOUS
<1>3. l \in Seq(T) /\ a \in T
  BY <1>1, <1>2
<1>4. Append(l, a) \in Seq(T)
  BY <1>3
<1> QED BY <1>3, <1>4 DEF IsSequence

LEMMA PointerReadEntry ==
  ASSUME Pointer!PointerAssumption, PointerInv, Pointer!ReadEntry PROVE PointerInv'
<1> DEFINE k == Len(list)
<1>1. /\ pc = "book" /\ nbytes < Pointer!SZ_BOOK
      /\ nbytes' = nbytes + (Pointer!Padding(idx) + 2) /\ current' = current + (Pointer!Padding(idx) + 2)
      /\ idx' = Pointer!PreviousSlot(idx)
      /\ UNCHANGED <<driver, size, used, eop, last, valid, fingerprint, begin, count, skip,
                     taken, total, remaining, previous, pos, top, at, len, maximum>>
  BY DEF Pointer!ReadEntry, Pointer!device, Pointer!plan, Pointer!walk, Pointer!SZ_ENTRY
<1>2. \/ pc' = "done" /\ status' = "DATAFORMAT" /\ list' = list
      \/ pc' = "booked" /\ UNCHANGED <<list, status>>
      \/ UNCHANGED <<pc, status>> /\ \E a : list' = Append(list, a)
  BY DEF Pointer!ReadEntry, Pointer!Finish
<1>3. /\ k \in 0 .. L /\ last \in 0 .. L - 1 /\ idx = SlotAfter(k) /\ nbytes = BookSize(k)
  BY <1>1 DEF PointerInv, PointerTypes, BookInv
<1>4. /\ k + 1 \in 0 .. L /\ idx' = SlotAfter(k + 1) /\ nbytes' = BookSize(k + 1)
      /\ Pointer!Padding(idx) \in Nat
  BY <1>1, <1>3, BookStep
<1>5. idx' \in Nat /\ nbytes' \in Nat /\ nbytes' <= Pointer!SZ_BOOK
  BY <1>3, <1>4, BookBound
<1>6. current' \in Int /\ current' = 1 + nbytes'
  <2>1. nbytes \in Nat /\ current = 1 + nbytes
    BY <1>1 DEF PointerInv, PointerTypes, BookInv
  <2>2. PICK m \in Nat : m = Pointer!Padding(idx)
    BY <1>4
  <2> QED BY <1>1, <2>1, <2>2
<1> HIDE DEF k
<1>7. CASE pc' = "done" /\ status' = "DATAFORMAT" /\ list' = list
  <2>1. PointerTypes'
    BY <1>1, <1>5, <1>6, <1>7 DEF PointerInv, PointerTypes, Pointer!n
  <2> QED BY <1>7, <2>1, PointerEnds
<1>8. CASE pc' = "booked" /\ UNCHANGED <<list, status>>
  <2>1. PointerTypes'
    BY <1>1, <1>5, <1>6, <1>8 DEF PointerInv, PointerTypes, Pointer!n
  <2> QED BY <1>1, <1>5, <1>6, <1>8, <2>1
          DEF PointerInv, StartInv, BookInv, PlanInv, ReadInv, ProgressInv, Pointer!SZ_BOOK
<1>9. CASE UNCHANGED <<pc, status>> /\ \E a : list' = Append(list, a)
  <2>1. IsSequence(list') /\ Len(list') = k + 1
    BY <1>9, AppendFacts DEF PointerInv, PointerTypes, k
  <2>2. PointerTypes'
    BY <1>1, <1>4, <1>5, <1>6, <1>9, <2>1 DEF PointerInv, PointerTypes, Pointer!n
  <2>3. SlotAfter(Len(list))' = SlotAfter(k + 1) /\ BookSize(Len(list))' = BookSize(k + 1)
    BY <1>1, <2>1 DEF SlotAfter, BookSize
  <2>4. BookInv'
    BY <1>1, <1>4, <1>5, <1>6, <1>9, <2>3 DEF PointerInv, BookInv, Pointer!SZ_BOOK
  <2> QED BY <1>1, <1>9, <2>2, <2>4 DEF PointerInv, StartInv, PlanInv, ReadInv, ProgressInv
<1> QED BY <1>2, <1>7, <1>8, <1>9

LEMMA PointerBookRead ==
  ASSUME Pointer!PointerAssumption, PointerInv, Pointer!BookRead PROVE PointerInv'
<1>1. /\ pc \in {"book", "booked"} /\ maximum' = maximum - (Pointer!SZ_BOOK - nbytes)
      /\ pc' = "plan" /\ previous' = top /\ top' = top /\ remaining' = R /\ count' = 0
      /\ UNCHANGED <<driver, size, used, eop, last, valid, fingerprint, list, idx, nbytes, begin, skip,
                     taken, total, current, status>>
  BY DEF Pointer!BookRead, Pointer!StartPlan, Pointer!device, Pointer!book
<1>2. /\ begin = 0 /\ skip = 0 /\ taken = 0 /\ total = 0 /\ driver.list = "entries"
      /\ current = 1 + nbytes /\ maximum = 1 + Pointer!SZ_BOOK + R /\ top \in Ends
  BY <1>1 DEF PointerInv, StartInv, BookInv
<1>3. maximum' = 1 + nbytes + R /\ nbytes \in Nat /\ R \in Nat
  <2>1. nbytes \in Nat /\ R \in Nat
    BY PointerConstants DEF PointerInv, PointerTypes
  <2>2. PICK b \in Nat : b = Pointer!SZ_BOOK
    BY PointerConstants
  <2> QED BY <1>1, <1>2, <2>1, <2>2
<1>4. PointerTypes'
  BY <1>1, <1>3 DEF PointerInv, PointerTypes, Pointer!n
<1>5. /\ Listed' /\ previous' = Mark(list', begin', top', count')
      /\ \E w, t : Summed(w, t)' /\ remaining' = IF w = count' THEN R - total' ELSE 0
  <2>1. Len(list') \in Nat
    BY <1>4 DEF PointerTypes
  <2> QED BY <1>1, <1>2, <2>1, PointerStarts
<1>6. PlanInv'
  BY <1>1, <1>2, <1>3, <1>5 DEF PlanInv
<1> QED BY <1>1, <1>4, <1>6 DEF PointerInv, StartInv, BookInv, ReadInv, ProgressInv

LEMMA PointerReadRange ==
  ASSUME Pointer!PointerAssumption, PointerInv, Pointer!ReadRange PROVE PointerInv'
<1>1. /\ pc = "list" /\ driver.list = "numbers"
      /\ UNCHANGED <<driver, size, used, eop, last, valid, fingerprint, list, idx, nbytes, begin, skip, taken>>
  BY DEF Pointer!ReadRange, Pointer!device, Pointer!book
<1>2. /\ begin = 0 /\ count = 0 /\ skip = 0 /\ taken = 0 /\ total = 0 /\ list = <<>> /\ current = 0
      /\ maximum = R
  BY <1>1 DEF PointerInv, StartInv
<1>3. Pointer!NewDives \in Nat /\ R \in Nat
  BY PointerConstants DEF PointerInv, PointerTypes, Pointer!NewDives, Pointer!Known
<1>4. CASE pc' = "done" /\ status' = "DATAFORMAT" /\ UNCHANGED <<count, total, remaining, top, current, maximum>>
  <2>1. PointerTypes'
    BY <1>1, <1>4 DEF PointerInv, PointerTypes, Pointer!n
  <2> QED BY <1>4, <2>1, PointerEnds
<1>5. CASE /\ current' = current + 1 /\ maximum' = maximum + 1 + Pointer!NewDives
           /\ pc' = "done" /\ status' = "SUCCESS" /\ UNCHANGED <<count, total, remaining, top>>
  <2>1. current' \in Int /\ maximum' \in Int /\ current' <= maximum'
    BY <1>2, <1>3, <1>5
  <2>2. PointerTypes'
    BY <1>1, <1>5, <2>1 DEF PointerInv, PointerTypes, Pointer!n
  <2> QED BY <1>5, <2>1, <2>2, PointerEnds
<1>6. CASE /\ current' = current + 1 /\ maximum' = maximum + 1 + Pointer!NewDives
           /\ Pointer!NewDives # 0 /\ Pointer!StartPlan(0) /\ UNCHANGED <<status, total>>
  <2>1. current' = 1 /\ maximum' = R + 1 + Pointer!NewDives
    BY <1>2, <1>3, <1>6
  <2>2. pc' = "plan" /\ previous' = 0 /\ top' = 0 /\ remaining' = R /\ count' = 0
    BY <1>6 DEF Pointer!StartPlan
  <2>3. PointerTypes'
    BY <1>1, <1>3, <1>6, <2>1, <2>2 DEF PointerInv, PointerTypes, Pointer!n
  <2>4. Len(list') = 0 /\ list' = <<>>
    BY <1>1, <1>2
  <2>5. /\ Listed' /\ previous' = Mark(list', begin', top', count')
        /\ \E w, t : Summed(w, t)' /\ remaining' = IF w = count' THEN R - total' ELSE 0
    BY <1>1, <1>2, <1>6, <2>2, <2>4, PointerStarts
  <2>6. Pointer!NewDives' = Pointer!NewDives
    BY <1>1 DEF Pointer!NewDives, Pointer!Known, Pointer!n
  <2>7. NumbersInv'
    BY <1>1, <1>2, <1>3, <1>6, <2>1, <2>2, <2>4, <2>6 DEF NumbersInv, Pointer!Done
  <2>8. PlanInv'
    BY <1>1, <1>2, <2>2, <2>5, <2>7 DEF PlanInv
  <2> QED BY <2>2, <2>3, <2>8 DEF PointerInv, StartInv, BookInv, ReadInv, ProgressInv
<1>7. maximum + 1 + Pointer!NewDives * 1 = maximum + 1 + Pointer!NewDives
  BY <1>3
<1> QED BY <1>4, <1>5, <1>6, <1>7 DEF Pointer!ReadRange, Pointer!Finish, Pointer!walk, Pointer!progress,
            Pointer!SZ_LIST, Pointer!SZ_ADDRESS

LEMMA PointerReadAddress ==
  ASSUME Pointer!PointerAssumption, PointerInv, Pointer!ReadAddress PROVE PointerInv'
<1>1. /\ pc = "plan" /\ driver.list = "numbers" /\ Len(list) = Pointer!Done
      /\ Pointer!Done < Pointer!NewDives
      /\ UNCHANGED <<driver, size, used, eop, last, valid, fingerprint, idx, nbytes, count, taken,
                     total, remaining>>
  BY DEF Pointer!ReadAddress, Pointer!device
<1>2. PICK p :
        /\ list' = Append(list, p)
        /\ \/ /\ pc' = "done" /\ status' = "DATAFORMAT" /\ current' = current + 1
              /\ UNCHANGED <<begin, skip, top, previous, maximum>>
           \/ /\ p \in Pointer!Addresses /\ top # 0 /\ current' = current + 1
              /\ UNCHANGED <<begin, skip, top, previous, maximum, pc, status>>
           \/ /\ p \in Pointer!Addresses /\ top = 0 /\ current' = current + 1 + 2 /\ maximum' = maximum + 2
              /\ IF valid
                   THEN /\ \E m \in IF Corrupt THEN 2 .. 2 + R ELSE {used[1]} :
                             top' = Pointer!ringbuffer_increment(p, m, PB, Pointer!PE)
                        /\ UNCHANGED <<begin, skip>>
                   ELSE top' = p /\ begin' = 1 /\ skip' = skip + 1
              /\ previous' = top' /\ UNCHANGED <<pc, status>>
  BY Zenon DEF Pointer!ReadAddress, Pointer!Finish, Pointer!InRing, Pointer!SZ_ADDRESS, Pointer!SZ_HEADER
<1>3. /\ Len(list') = Len(list) + 1 /\ Len(list) \in Nat /\ IsSequence(list')
      /\ \A i \in 1 .. Len(list) : list'[i] = list[i]
  BY <1>2, AppendFacts DEF PointerInv, PointerTypes
<1>4. Pointer!NewDives \in 0 .. L /\ Pointer!NewDives <= Pointer!n
      /\ Pointer!NewDives' = Pointer!NewDives
  <2>1. Pointer!n' = Pointer!n /\ fingerprint \in 0 .. Pointer!n /\ Pointer!n \in 0 .. L
    BY <1>1 DEF Pointer!n, PointerInv, PointerTypes
  <2>2. Pointer!NewDives \in 0 .. L /\ Pointer!NewDives <= Pointer!n
    BY <2>1, PointerConstants DEF Pointer!NewDives, Pointer!Known
  <2>3. Pointer!NewDives' = Pointer!NewDives
    BY <1>1, <2>1 DEF Pointer!NewDives, Pointer!Known
  <2> QED BY <2>2, <2>3
<1>5. Len(list') \in 0 .. L /\ Len(list') <= Pointer!NewDives
  <2>1. PICK m \in 0 .. L : m = Pointer!NewDives /\ L \in Nat
    BY <1>4, PointerConstants
  <2> QED BY <1>1, <1>3, <2>1
<1>6. NumbersInv /\ Listed /\ taken = 0 /\ previous = Mark(list, begin, top, count)
  BY <1>1 DEF PointerInv, PlanInv
<1>7. PICK w, t : Summed(w, t) /\ remaining = IF w = count THEN R - total ELSE 0
  BY <1>1 DEF PointerInv, PlanInv
<1>8. /\ begin \in Nat /\ skip = begin /\ count \in Nat /\ Pointer!Done = count + skip /\ top \in Int
      /\ current \in Int /\ maximum \in Int /\ R \in Nat /\ total \in 0 .. R
  BY <1>1, <1>6, PointerConstants DEF NumbersInv, PointerInv, PointerTypes, Pointer!Done
<1>9. CASE /\ pc' = "done" /\ status' = "DATAFORMAT" /\ current' = current + 1
           /\ UNCHANGED <<begin, skip, top, previous, maximum>>
  <2>1. PointerTypes'
    BY <1>1, <1>3, <1>5, <1>8, <1>9 DEF PointerInv, PointerTypes, Pointer!n
  <2> QED BY <1>9, <2>1, PointerEnds
<1>10. CASE /\ p \in Pointer!Addresses /\ top # 0 /\ current' = current + 1
            /\ UNCHANGED <<begin, skip, top, previous, maximum, pc, status>>
  <2>1. PointerTypes'
    BY <1>1, <1>3, <1>5, <1>8, <1>10 DEF PointerInv, PointerTypes, Pointer!n
  <2>2. \A i \in 1 .. count : begin + i \in 1 .. Len(list) /\ list'[begin + i] = list[begin + i]
    BY <1>3, <1>6, <1>8 DEF Listed
  <2>3. Listed' /\ previous' = Mark(list', begin', top', count')
    <3>1. Listed'
      BY <1>1, <1>3, <1>6, <1>8, <1>10, <2>2 DEF Listed
    <3>2. Mark(list', begin, top, count) = Mark(list, begin, top, count)
      BY <1>8, <2>2 DEF Mark
    <3> QED BY <1>1, <1>6, <1>10, <3>1, <3>2
  <2>4. Summed(w, t)'
    <3>1. w \in 0 .. count /\ Adds(list, begin, top, w, t)
      BY <1>7 DEF Summed
    <3>2. w \in Nat /\ \A i \in 1 .. w : list'[begin + i] = list[begin + i]
      BY <1>8, <2>2, <3>1
    <3>3. Adds(list', begin, top, w, t)
      BY <3>1, <3>2, AddsSame
    <3> QED BY <1>1, <1>7, <1>10, <3>3 DEF Summed
  <2>5. NumbersInv'
    <3>1. Len(list) > 0
      BY <1>3, <1>6, <1>10 DEF NumbersInv
    <3>2. Pointer!Done' = Pointer!Done
      BY <1>1, <1>10 DEF Pointer!Done
    <3> QED BY <1>1, <1>3, <1>4, <1>5, <1>6, <1>8, <1>10, <3>1, <3>2 DEF NumbersInv
  <2>6. PlanInv'
    BY <1>1, <1>6, <1>7, <1>10, <2>3, <2>4, <2>5 DEF PlanInv
  <2> QED BY <1>1, <1>10, <2>1, <2>6 DEF PointerInv, StartInv, BookInv, ReadInv, ProgressInv
<1>11. CASE /\ p \in Pointer!Addresses /\ top = 0 /\ current' = current + 1 + 2 /\ maximum' = maximum + 2
            /\ IF valid
                 THEN /\ \E m \in IF Corrupt THEN 2 .. 2 + R ELSE {used[1]} :
                           top' = Pointer!ringbuffer_increment(p, m, PB, Pointer!PE)
                      /\ UNCHANGED <<begin, skip>>
                 ELSE top' = p /\ begin' = 1 /\ skip' = skip + 1
            /\ previous' = top' /\ UNCHANGED <<pc, status>>
  <2>1. Len(list) = 0
    <3>1. 0 \notin Pointer!Addresses
      BY PointerConstants
    <3>2. Len(list) > 0 => top \in Pointer!Addresses
      BY <1>6 DEF NumbersInv
    <3> QED BY <1>3, <1>11, <3>1, <3>2
  <2>2. count = 0 /\ begin = 0 /\ skip = 0 /\ current = 1 /\ maximum = R + 1 + Pointer!NewDives
    BY <1>1, <1>6, <1>8, <2>1 DEF NumbersInv
  <2>3. total = 0 /\ remaining = R
    BY <1>7, <1>8, <2>2 DEF Summed, Adds
  <2>4. top' \in Pointer!Addresses
    <3>1. used[1] \in Int
      BY <1>1, <1>4, <1>8, PointerConstants DEF PointerInv, PointerTypes
    <3>2. \A m \in IF Corrupt THEN 2 .. 2 + R ELSE {used[1]} : m \in Int
      BY <1>8, <3>1
    <3> QED BY <1>11, <3>2, PointerEnd
  <2>5. begin' \in {0, 1} /\ skip' = begin' /\ top' \in Int
    BY <1>11, <2>2, <2>4, PointerConstants
  <2>6. PointerTypes'
    BY <1>1, <1>3, <1>5, <1>8, <1>11, <2>5 DEF PointerInv, PointerTypes, Pointer!n
  <2>7. Len(list') = 1
    BY <1>3, <2>1
  <2>8. /\ Listed' /\ previous' = Mark(list', begin', top', count')
        /\ \E v, u : Summed(v, u)' /\ remaining' = IF v = count' THEN R - total' ELSE 0
    BY <1>1, <1>11, <2>2, <2>3, <2>5, <2>7, PointerStarts
  <2>9. NumbersInv'
    <3>1. PICK m \in 0 .. L : m = Pointer!NewDives /\ m >= 1
      BY <1>4, <1>6 DEF NumbersInv
    <3>2. current' = 3 + 1 /\ maximum' = R + 3 + m
      BY <1>8, <1>11, <2>2, <3>1
    <3>3. count' = 0 /\ pc' # "planned"
      BY <1>1, <1>11, <2>2
    <3>4. PICK b \in 0 .. 1 : b = begin' /\ b = skip'
      BY <2>5
    <3>5. Pointer!Done' = b
      <4>1. count' + skip' = 0 + b
        BY <3>3, <3>4
      <4>2. 0 + b = b
        OBVIOUS
      <4> QED BY <4>1, <4>2 DEF Pointer!Done
    <3>6. skip' = begin' + (IF pc' = "planned" THEN 1 ELSE 0)
      <4>1. b = b + 0
        OBVIOUS
      <4> QED BY <3>3, <3>4, <4>1
    <3>7. Pointer!Done' <= Len(list') /\ Len(list') <= Pointer!Done' + 1
      BY <2>7, <3>5
    <3>8. current' = 3 + Len(list') /\ Len(list') # 0 /\ Len(list') <= Pointer!NewDives'
      BY <1>4, <2>7, <3>1, <3>2
    <3> QED BY <1>4, <2>4, <3>1, <3>2, <3>3, <3>6, <3>7, <3>8 DEF NumbersInv
  <2>10. PlanInv'
    BY <1>1, <1>6, <1>11, <2>8, <2>9 DEF PlanInv
  <2> QED BY <1>1, <1>11, <2>6, <2>10 DEF PointerInv, StartInv, BookInv, ReadInv, ProgressInv
<1> QED BY <1>2, <1>9, <1>10, <1>11

\* The next dive, in either pass: how long it is, and that going back by its
\* length from where it ends arrives at its address.
LEMMA GapFacts ==
  ASSUME Pointer!PointerAssumption, top \in Int, begin \in Nat, count \in Nat, NEW k \in Nat,
         \A i \in 1 .. k : list[begin + i] \in Pointer!Addresses,
         previous = Mark(list, begin, top, k), list[begin + k + 1] \in Pointer!Addresses
  PROVE  LET p == list[begin + k + 1]
         IN  /\ Pointer!Length(p) \in 1 .. R /\ previous \in Int
             /\ Gap(list, begin, top, k + 1) = Pointer!Length(p)
             /\ Mark(list, begin, top, k + 1) = p
             /\ Pointer!ringbuffer_decrement(previous, Pointer!Length(p), PB, Pointer!PE) = p
<1> DEFINE p == list[begin + k + 1]
<1>1. previous \in Int
  <2>1. CASE k = 0
    BY <2>1 DEF Mark
  <2>2. CASE k # 0
    <3>1. k \in 1 .. k
      BY <2>2
    <3>2. list[begin + k] \in Int
      BY <3>1, PointerConstants
    <3> QED BY <2>2, <3>2 DEF Mark
  <2> QED BY <2>1, <2>2
<1>2. /\ Pointer!Length(p) \in 1 .. R
      /\ Pointer!ringbuffer_decrement(previous, Pointer!Length(p), PB, Pointer!PE) = p
  BY <1>1, PointerRing DEF Pointer!Length
<1>3. Mark(list, begin, top, k + 1) = p
  <2>1. k + 1 # 0 /\ begin + (k + 1) = begin + k + 1
    OBVIOUS
  <2> QED BY <2>1 DEF Mark
<1>4. Gap(list, begin, top, k + 1) = Pointer!Length(p)
  <2>1. (k + 1) - 1 = k
    OBVIOUS
  <2> QED BY <1>3, <2>1 DEF Gap, Pointer!Length
<1> QED BY <1>1, <1>2, <1>3, <1>4

LEMMA PointerPlan ==
  ASSUME Pointer!PointerAssumption, PointerInv, Pointer!Plan PROVE PointerInv'
<1> DEFINE p == list[Pointer!Done + 1]
           m == Pointer!Length(p)
<1>1. /\ pc = "plan" /\ Pointer!Done < Len(list)
      /\ UNCHANGED <<driver, size, used, eop, last, valid, fingerprint, list, idx, nbytes, begin, taken,
                     top, current, maximum>>
  BY DEF Pointer!Plan, Pointer!device, Pointer!book, Pointer!progress
<1>2. \/ /\ pc' = "done" /\ status' = "DATAFORMAT"
         /\ UNCHANGED <<count, skip, total, remaining, previous>>
      \/ /\ p \in Pointer!Addresses /\ ~(m > remaining)
         /\ total' = total + m /\ remaining' = remaining - m
         /\ previous' = p /\ count' = count + 1 /\ UNCHANGED <<pc, status, skip>>
      \/ /\ p \in Pointer!Addresses /\ driver.overflow = "empty"
         /\ remaining' = 0 /\ previous' = p /\ count' = count + 1
         /\ UNCHANGED <<pc, status, skip, total>>
      \/ /\ driver.overflow = "cut"
         /\ pc' = "planned" /\ skip' = IF driver.list = "numbers" THEN skip + 1 ELSE skip
         /\ UNCHANGED <<status, count, total, remaining, previous>>
  BY DEF Pointer!Plan, Pointer!Finish, Pointer!InRing, Pointer!Overflows, Pointer!LeftAfterLost
<1>3. /\ taken = 0 /\ Listed /\ previous = Mark(list, begin, top, count)
      /\ driver.list # "numbers" => top \in Ends /\ begin = 0 /\ skip = 0
      /\ driver.list = "whole" => current = 0 /\ maximum = 1 + R
      /\ driver.list = "entries" => current = 1 + nbytes /\ maximum = 1 + nbytes + R
      /\ driver.list = "numbers" => NumbersInv
  BY <1>1 DEF PointerInv, PlanInv
<1>4. PICK w, t : Summed(w, t) /\ remaining = IF w = count THEN R - total ELSE 0
  BY <1>1 DEF PointerInv, PlanInv
<1>5. /\ begin \in Nat /\ skip \in Nat /\ count \in Nat /\ top \in Int /\ total \in 0 .. R
      /\ Len(list) \in Nat /\ R \in Nat /\ remaining \in 0 .. R
  BY PointerConstants DEF PointerInv, PointerTypes
<1>6. skip = begin /\ Pointer!Done = begin + count
  BY <1>1, <1>3, <1>5 DEF NumbersInv, Pointer!Done
<1>7. Pointer!Done + 1 = begin + count + 1 /\ begin + count + 1 <= Len(list)
  BY <1>1, <1>5, <1>6
<1>8. ASSUME p \in Pointer!Addresses
      PROVE  /\ m \in 1 .. R /\ Gap(list, begin, top, count + 1) = m
             /\ p = Mark(list, begin, top, count + 1)
  BY <1>3, <1>5, <1>7, <1>8, GapFacts DEF Listed
<1>9. w \in 0 .. count /\ Adds(list, begin, top, w, t) /\ t[w] = total
      /\ (w < count => driver.overflow = "empty")
  BY <1>4 DEF Summed
<1>10. Pointer!NewDives' = Pointer!NewDives
  BY <1>1 DEF Pointer!NewDives, Pointer!Known, Pointer!n
<1>11. ASSUME p \in Pointer!Addresses, count' = count + 1
       PROVE  Listed'
  <2>1. \A i \in 1 .. count + 1 : list[begin + i] \in Pointer!Addresses
    <3>1. \A i \in 1 .. count + 1 : i \in 1 .. count \/ (i = count + 1 /\ begin + i = begin + count + 1)
      BY <1>5
    <3> QED BY <1>3, <1>7, <1>11, <3>1 DEF Listed
  <2> QED BY <1>1, <1>5, <1>7, <1>11, <2>1 DEF Listed
<1>12. ASSUME driver.list = "numbers", count' = count + 1, pc' = pc, skip' = skip PROVE NumbersInv'
  <2>1. Pointer!Done' = Pointer!Done + 1 /\ Pointer!Done \in Nat
    BY <1>5, <1>12 DEF Pointer!Done
  <2> QED BY <1>1, <1>3, <1>5, <1>10, <1>12, <2>1 DEF NumbersInv
<1> HIDE DEF m, p
<1>13. CASE /\ pc' = "done" /\ status' = "DATAFORMAT" /\ UNCHANGED <<count, skip, total, remaining, previous>>
  <2>1. PointerTypes'
    BY <1>1, <1>13 DEF PointerInv, PointerTypes, Pointer!n
  <2> QED BY <1>13, <2>1, PointerEnds
<1>14. CASE /\ p \in Pointer!Addresses /\ ~(m > remaining)
            /\ total' = total + m /\ remaining' = remaining - m
            /\ previous' = p /\ count' = count + 1 /\ UNCHANGED <<pc, status, skip>>
  <2>1. m \in 1 .. R /\ w = count /\ remaining = R - total
    BY <1>4, <1>5, <1>8, <1>9, <1>14
  <2>2. total' \in 0 .. R /\ remaining' \in 0 .. R /\ count' \in Nat /\ remaining' = R - total'
    BY <1>5, <1>14, <2>1
  <2>3. PointerTypes'
    BY <1>1, <1>14, <2>2 DEF PointerInv, PointerTypes, Pointer!n
  <2>0. PICK u : u = [i \in 0 .. w + 1 |-> IF i <= w THEN t[i] ELSE t[w] + m]
    OBVIOUS
  <2>4. Adds(list, begin, top, w + 1, u)
    <3>1. w \in Nat /\ Gap(list, begin, top, w + 1) = m /\ t[w] + m <= R
      BY <1>5, <1>8, <1>9, <1>14, <2>1, <2>2
    <3> QED BY <1>9, <2>0, <2>1, <3>1, AddsMore
  <2>5. u[w + 1] = total + m
    BY <1>5, <1>9, <2>0, <2>1
  <2>6. Summed(w + 1, u)'
    BY <1>1, <1>5, <1>14, <2>1, <2>4, <2>5 DEF Summed
  <2>7. \E v, q : Summed(v, q)' /\ remaining' = IF v = count' THEN R - total' ELSE 0
    BY <1>14, <2>1, <2>2, <2>6
  <2>8. previous' = Mark(list', begin', top', count')
    BY <1>1, <1>8, <1>14
  <2>9. PlanInv'
    BY <1>1, <1>3, <1>11, <1>12, <1>14, <2>7, <2>8 DEF PlanInv, Pointer!n
  <2> QED BY <1>1, <1>14, <2>3, <2>9 DEF PointerInv, StartInv, BookInv, ReadInv, ProgressInv
<1>15. CASE /\ p \in Pointer!Addresses /\ driver.overflow = "empty"
            /\ remaining' = 0 /\ previous' = p /\ count' = count + 1
            /\ UNCHANGED <<pc, status, skip, total>>
  <2>1. PointerTypes'
    BY <1>1, <1>5, <1>15 DEF PointerInv, PointerTypes, Pointer!n
  <2>2. Summed(w, t)' /\ w # count'
    BY <1>1, <1>5, <1>9, <1>15 DEF Summed
  <2>3. \E v, q : Summed(v, q)' /\ remaining' = IF v = count' THEN R - total' ELSE 0
    BY <1>15, <2>2
  <2>4. previous' = Mark(list', begin', top', count')
    BY <1>1, <1>8, <1>15
  <2>5. PlanInv'
    BY <1>1, <1>3, <1>11, <1>12, <1>15, <2>3, <2>4 DEF PlanInv
  <2> QED BY <1>1, <1>15, <2>1, <2>5 DEF PointerInv, StartInv, BookInv, ReadInv, ProgressInv
<1>16. CASE /\ driver.overflow = "cut"
            /\ pc' = "planned" /\ skip' = IF driver.list = "numbers" THEN skip + 1 ELSE skip
            /\ UNCHANGED <<status, count, total, remaining, previous>>
  <2>1. PointerTypes'
    BY <1>1, <1>5, <1>16 DEF PointerInv, PointerTypes, Pointer!n
  <2>2. Summed(w, t)'
    BY <1>1, <1>9, <1>16 DEF Summed
  <2>3. \E v, q : Summed(v, q)' /\ remaining' = IF v = count' THEN R - total' ELSE 0
    BY <1>4, <1>16, <2>2
  <2>4. driver.list = "numbers" => NumbersInv'
    <3> SUFFICES ASSUME driver.list = "numbers" PROVE NumbersInv'
      OBVIOUS
    <3>1. Pointer!Done' = Pointer!Done + 1 /\ Pointer!Done \in Nat
      BY <1>5, <1>16 DEF Pointer!Done
    <3>2. Len(list) = Pointer!Done + 1
      BY <1>1, <1>3, <1>5, <3>1 DEF NumbersInv
    <3> QED BY <1>1, <1>3, <1>5, <1>6, <1>10, <1>16, <3>1, <3>2 DEF NumbersInv
  <2>5. Listed' /\ previous' = Mark(list', begin', top', count')
    BY <1>1, <1>3, <1>16 DEF Listed
  <2>6. PlanInv'
    BY <1>1, <1>3, <1>16, <2>3, <2>4, <2>5 DEF PlanInv
  <2> QED BY <1>1, <1>16, <2>1, <2>6 DEF PointerInv, StartInv, BookInv, ReadInv, ProgressInv
<1> QED BY <1>2, <1>13, <1>14, <1>15, <1>16

LEMMA PointerPlanned ==
  ASSUME Pointer!PointerAssumption, PointerInv, Pointer!Planned PROVE PointerInv'
<1>1. /\ pc \in {"plan", "planned"} /\ pc' = "read"
      /\ pc = "plan" => Pointer!Done = IF driver.list = "numbers" THEN Pointer!NewDives ELSE Len(list)
      /\ remaining' = total /\ previous' = top /\ pos' = top
      /\ UNCHANGED <<driver, size, used, eop, last, valid, fingerprint, list, idx, nbytes, begin, count,
                     skip, taken, total, top, status>>
  BY DEF Pointer!Planned, Pointer!PlanEnds, Pointer!device, Pointer!book, Pointer!plan
<1>2. /\ driver.list = "whole" => current' = current + 1 /\ maximum' = 1 + total
      /\ driver.list = "entries" => current' = current /\ maximum' = maximum - (R - total) - 0
      /\ driver.list = "numbers" =>
           current' = current /\ maximum' = maximum - (R - total) - (Pointer!NewDives - Pointer!Done) * 1
  BY DEF Pointer!Planned, Pointer!SZ_LIST, Pointer!SZ_ADDRESS
<1>3. /\ taken = 0 /\ Listed
      /\ driver.list # "numbers" => top \in Ends
      /\ driver.list = "whole" => current = 0 /\ maximum = 1 + R
      /\ driver.list = "entries" => current = 1 + nbytes /\ maximum = 1 + nbytes + R
      /\ driver.list = "numbers" => NumbersInv
  BY <1>1 DEF PointerInv, PlanInv
<1>4. PICK w, t : Summed(w, t)
  BY <1>1 DEF PointerInv, PlanInv
<1>5. /\ begin \in Nat /\ skip \in Nat /\ count \in Nat /\ total \in 0 .. R /\ nbytes \in Nat
      /\ Len(list) \in Nat /\ R \in Nat /\ current \in Int /\ maximum \in Int
      /\ driver.list \in {"whole", "entries", "numbers"}
  BY PointerConstants, DriverFacts DEF PointerInv, PointerTypes
<1>6. Pointer!NewDives \in Nat
  BY DEF PointerInv, PointerTypes, Pointer!NewDives, Pointer!Known
<1>7. driver.list = "numbers" => Len(list) = Pointer!Done /\ Len(list) > 0
  <2> SUFFICES ASSUME driver.list = "numbers" PROVE Len(list) = Pointer!Done /\ Len(list) > 0
    OBVIOUS
  <2>1. CASE pc = "planned"
    BY <1>3, <1>5, <2>1 DEF NumbersInv, Pointer!Done
  <2>2. CASE pc = "plan"
    <3>1. PICK m \in Nat : m = Pointer!NewDives
      BY <1>6
    <3>2. Pointer!Done = m /\ m >= 1 /\ m <= Len(list) /\ Len(list) <= m
      BY <1>1, <1>3, <2>2, <3>1 DEF NumbersInv
    <3> QED BY <1>5, <3>1, <3>2
  <2> QED BY <1>1, <2>1, <2>2
<1>8. top \in Ends
  BY <1>3, <1>5, <1>7 DEF NumbersInv, Ends
<1>9. current' \in Int /\ maximum' \in Int /\ current' + total = maximum'
  <2>1. CASE driver.list = "whole"
    BY <1>2, <1>3, <1>5, <2>1
  <2>2. CASE driver.list = "entries"
    BY <1>2, <1>3, <1>5, <2>2
  <2>3. CASE driver.list = "numbers"
    <3>1. PICK m \in Nat, k \in Nat : m = Pointer!NewDives /\ k = Pointer!Done
      BY <1>5, <1>6, <1>7, <2>3
    <3>2. current = 3 + k /\ maximum = R + 3 + m
      BY <1>3, <1>7, <2>3, <3>1 DEF NumbersInv
    <3>3. current' = current /\ maximum' = maximum - (R - total) - (m - k) * 1
      BY <1>2, <2>3, <3>1
    <3> QED BY <1>5, <3>1, <3>2, <3>3
  <2> QED BY <1>5, <2>1, <2>2, <2>3
<1>10. PointerTypes'
  BY <1>1, <1>5, <1>9 DEF PointerInv, PointerTypes, Pointer!n
<1>11. ReadInv'
  <2>1. Passed' = 0 /\ Passed' <= count'
    BY <1>1, <1>3, <1>5 DEF Passed
  <2>2. Summed(w, t)'
    BY <1>1, <1>4 DEF Summed
  <2>3. w \in 0 .. count /\ t[0] = 0
    BY <1>4 DEF Summed, Adds
  <2>4. 0 <= w /\ remaining' = total' - t[0] /\ pos' = previous'
    BY <1>1, <1>5, <2>3
  <2>5. Listed' /\ top' \in Ends /\ previous' = Mark(list', begin', top', 0)
    BY <1>1, <1>3, <1>8 DEF Listed, Mark
  <2> QED BY <1>1, <2>1, <2>2, <2>4, <2>5 DEF ReadInv
<1>12. ProgressInv'
  BY <1>1, <1>9 DEF ProgressInv
<1> QED BY <1>1, <1>10, <1>11, <1>12 DEF PointerInv, StartInv, BookInv, PlanInv

LEMMA PointerReadDive ==
  ASSUME Pointer!PointerAssumption, PointerInv, Pointer!ReadDive PROVE PointerInv'
<1> DEFINE p == list[begin + taken + 1]
           lost == driver.overflow = "empty" /\ Pointer!Length(p) > remaining
           m == IF lost THEN 0 ELSE Pointer!Length(p)
<1>1. /\ pc = "read" /\ taken # count
      /\ remaining' = (IF lost THEN 0 ELSE remaining - m) /\ previous' = p /\ at' = p
      /\ pos' = IF m = 0 THEN pos ELSE Pointer!ringbuffer_decrement(pos, m, PB, Pointer!PE)
      /\ current' = current + m
      /\ driver.list # "numbers" => len' = m
      /\ \/ pc' = "done" /\ status' = "DATAFORMAT"
         \/ pc' = "dive" /\ status' = status
      /\ UNCHANGED <<driver, size, used, eop, last, valid, fingerprint, list, idx, nbytes, begin, count,
                     skip, taken, total, top, maximum>>
  BY DEF Pointer!ReadDive, Pointer!AllRead, Pointer!Overflows, Pointer!LeftAfterLost, Pointer!Used,
         Pointer!Finish, Pointer!device, Pointer!book, Pointer!plan
<1>2. /\ taken <= count /\ Listed /\ top \in Ends /\ previous = Mark(list, begin, top, taken)
      /\ current + remaining = maximum
  BY <1>1 DEF PointerInv, ReadInv, ProgressInv, Passed
<1>3. PICK w, t :
        /\ Summed(w, t)
        /\ taken <= w => remaining = total - t[taken] /\ pos = previous
        /\ ~(taken <= w) => remaining = 0
  BY <1>1 DEF PointerInv, ReadInv, Passed
<1>4. /\ begin \in Nat /\ count \in Nat /\ taken \in Nat /\ top \in Int /\ total \in 0 .. R /\ R \in Nat
      /\ remaining \in 0 .. R /\ current \in Int /\ maximum \in Int /\ driver \in Pointer!Drivers
  BY PointerConstants DEF PointerInv, PointerTypes
<1>5. /\ w \in 0 .. count /\ Adds(list, begin, top, w, t) /\ t[w] = total
      /\ w < count => driver.overflow = "empty"
  BY <1>3 DEF Summed
<1>6. taken + 1 \in 1 .. count /\ begin + (taken + 1) = begin + taken + 1
  BY <1>1, <1>2, <1>4
<1>7. p \in Pointer!Addresses /\ \A i \in 1 .. taken : list[begin + i] \in Pointer!Addresses
  <2>1. \A i \in 1 .. taken : i \in 1 .. count
    BY <1>2, <1>4
  <2> QED BY <1>2, <1>6, <2>1 DEF Listed
<1>8. /\ Pointer!Length(p) \in 1 .. R /\ Gap(list, begin, top, taken + 1) = Pointer!Length(p)
      /\ Mark(list, begin, top, taken + 1) = p
      /\ Pointer!ringbuffer_decrement(previous, Pointer!Length(p), PB, Pointer!PE) = p
  BY <1>2, <1>4, <1>7, GapFacts
<1>9. PICK g \in 1 .. R : g = Pointer!Length(p)
  BY <1>8
<1>10. CASE taken + 1 <= w
  <2>1. /\ taken \in 0 .. w /\ taken + 1 \in 1 .. w /\ taken + 1 \in 0 .. w /\ (taken + 1) - 1 = taken
        /\ w \in 0 .. w
    BY <1>4, <1>5, <1>10
  <2>2. PICK a \in 0 .. R, b \in 0 .. R :
          a = t[taken] /\ b = t[taken + 1] /\ b = a + g /\ b <= total
    BY <1>5, <1>8, <1>9, <2>1 DEF Adds
  <2>3. ~lost /\ m = g /\ m # 0
    BY <1>3, <1>4, <1>9, <2>1, <2>2
  <2>4. remaining' = total - b /\ remaining' \in 0 .. R /\ current' + remaining' = maximum' /\ current' \in Int
    BY <1>1, <1>2, <1>3, <1>4, <1>9, <2>1, <2>2, <2>3
  <2>5. pos' = p
    BY <1>1, <1>3, <1>8, <1>9, <2>1, <2>3
  <2>6. PointerTypes'
    BY <1>1, <2>4 DEF PointerInv, PointerTypes, Pointer!n
  <2>7. CASE pc' = "done" /\ status' = "DATAFORMAT"
    BY <2>6, <2>7, PointerEnds
  <2>8. CASE pc' = "dive" /\ status' = status
    <3>1. Passed' = taken + 1 /\ Listed' /\ Summed(w, t)'
      BY <1>1, <1>2, <1>3, <2>8 DEF Passed, Listed, Summed
    <3>2. previous' = Mark(list', begin', top', taken + 1) /\ at' = previous' /\ pos' = previous'
      BY <1>1, <1>8, <2>5
    <3>3. \E v, u : /\ Summed(v, u)'
                    /\ IF Passed' <= v THEN remaining' = total' - u[Passed'] /\ pos' = previous'
                                       ELSE remaining' = 0 /\ (pc' = "dive" => len' = 0)
      <4>1. Passed' <= w /\ remaining' = total' - t[Passed']
        BY <1>1, <1>10, <2>2, <2>4, <3>1
      <4> QED BY <3>1, <3>2, <4>1
    <3>4. ReadInv'
      <4>1. Passed' <= count' /\ top' \in Ends /\ previous' = Mark(list', begin', top', Passed')
        BY <1>1, <1>2, <1>6, <3>1, <3>2
      <4> QED BY <3>1, <3>2, <3>3, <4>1 DEF ReadInv
    <3> QED BY <2>4, <2>6, <2>8, <3>4 DEF PointerInv, StartInv, BookInv, PlanInv, ProgressInv
  <2> QED BY <1>1, <2>7, <2>8
<1>11. CASE ~(taken + 1 <= w)
  <2>1. driver.overflow = "empty" /\ driver.list = "entries"
    BY <1>4, <1>5, <1>6, <1>11, DriverFacts
  <2>2. remaining = 0
    BY <1>3, <1>4, <1>5, <1>11
  <2>3. lost /\ m = 0
    BY <1>9, <2>1, <2>2
  <2>4. remaining' = 0 /\ current' = current /\ len' = 0 /\ current' + remaining' = maximum'
    BY <1>1, <1>2, <1>4, <2>1, <2>2, <2>3
  <2>5. PointerTypes'
    BY <1>1, <1>4, <2>4 DEF PointerInv, PointerTypes, Pointer!n
  <2>6. CASE pc' = "done" /\ status' = "DATAFORMAT"
    BY <2>5, <2>6, PointerEnds
  <2>7. CASE pc' = "dive" /\ status' = status
    <3>1. Passed' = taken + 1 /\ Listed' /\ Summed(w, t)'
      BY <1>1, <1>2, <1>3, <2>7 DEF Passed, Listed, Summed
    <3>2. previous' = Mark(list', begin', top', taken + 1) /\ at' = previous'
      BY <1>1, <1>8
    <3>3. ReadInv'
      BY <1>1, <1>2, <1>6, <1>11, <2>4, <2>7, <3>1, <3>2 DEF ReadInv
    <3> QED BY <2>4, <2>5, <2>7, <3>3 DEF PointerInv, StartInv, BookInv, PlanInv, ProgressInv
  <2> QED BY <1>1, <2>6, <2>7
<1> QED BY <1>10, <1>11

LEMMA PointerHandOut ==
  ASSUME Pointer!PointerAssumption, PointerInv, Pointer!HandOut PROVE PointerInv'
<1>1. /\ pc = "dive"
      /\ UNCHANGED <<driver, size, used, eop, last, valid, fingerprint, list, idx, nbytes, begin, count,
                     skip, total, remaining, previous, pos, top, at, len, current, maximum>>
      /\ \/ pc' = "done" /\ status' = "SUCCESS" /\ taken' = taken
         \/ pc' \in {"stop", "read"} /\ status' = status /\ taken' = taken + 1
  BY DEF Pointer!HandOut, Pointer!Finish, Pointer!device, Pointer!book, Pointer!walk, Pointer!progress
<1>2. current + remaining = maximum /\ remaining \in 0 .. R /\ current \in Int /\ taken \in Nat /\ R \in Nat
  BY <1>1, PointerConstants DEF PointerInv, PointerTypes, ProgressInv
<1>3. PointerTypes'
  BY <1>1, <1>2 DEF PointerInv, PointerTypes, Pointer!n
<1>4. CASE pc' = "done" /\ status' = "SUCCESS"
  <2>1. current' <= maximum'
    BY <1>1, <1>2
  <2> QED BY <1>3, <1>4, <2>1, PointerEnds
<1>5. CASE pc' = "stop" /\ status' = status
  BY <1>1, <1>2, <1>3, <1>5 DEF PointerInv, StartInv, BookInv, PlanInv, ReadInv, ProgressInv
<1>6. CASE pc' = "read" /\ status' = status
  <2>1. taken' = taken + 1 /\ Passed' = Passed
    BY <1>1, <1>6 DEF Passed
  <2>2. /\ Passed <= count /\ Listed /\ top \in Ends /\ previous = Mark(list, begin, top, Passed)
    BY <1>1 DEF PointerInv, ReadInv
  <2>3. PICK w, t : /\ Summed(w, t)
                    /\ IF Passed <= w THEN remaining = total - t[Passed] /\ pos = previous
                                      ELSE remaining = 0
    BY <1>1 DEF PointerInv, ReadInv
  <2>4. Summed(w, t)' /\ Listed'
    BY <1>1, <2>2, <2>3 DEF Summed, Listed
  <2>5. IF Passed' <= w THEN remaining' = total' - t[Passed'] /\ pos' = previous'
                        ELSE remaining' = 0
    BY <1>1, <2>1, <2>3
  <2>6. ReadInv'
    BY <1>1, <1>6, <2>1, <2>2, <2>4, <2>5 DEF ReadInv
  <2> QED BY <1>1, <1>2, <1>3, <1>6, <2>6 DEF PointerInv, StartInv, BookInv, PlanInv, ProgressInv
<1> QED BY <1>1, <1>4, <1>5, <1>6

\* A download that ends, or fails, has not read more than it has announced.
LEMMA PointerFinish ==
  ASSUME Pointer!PointerAssumption, PointerInv, pc \in {"list", "book", "plan", "read", "stop"},
         pc = "plan" => driver.list = "numbers",
         pc' = "done", status' \in {"SUCCESS", "TIMEOUT", "CANCELLED"},
         UNCHANGED <<Pointer!device, Pointer!book, Pointer!plan, Pointer!walk, info, Pointer!progress,
                     Pointer!report>>
  PROVE  PointerInv'
<1>1. UNCHANGED <<driver, size, used, eop, last, valid, fingerprint, list, idx, nbytes, begin, count, skip,
                  taken, total, remaining, top, current, maximum>>
  BY DEF Pointer!device, Pointer!book, Pointer!plan, Pointer!walk, Pointer!progress
<1>2. PointerTypes'
  BY <1>1 DEF PointerInv, PointerTypes, Pointer!n
<1>3. current <= maximum
  <2>1. /\ R \in Nat /\ remaining \in Nat /\ nbytes \in Nat /\ Len(list) \in Nat /\ current \in Int
        /\ Pointer!SZ_BOOK \in Nat /\ driver.list \in {"whole", "entries", "numbers"}
    BY PointerConstants, DriverFacts DEF PointerInv, PointerTypes
  <2>2. CASE pc = "list"
    BY <2>1, <2>2 DEF PointerInv, StartInv
  <2>3. CASE pc = "book"
    BY <2>1, <2>3 DEF PointerInv, BookInv
  <2>4. CASE pc = "plan"
    <3>1. NumbersInv
      BY <2>4 DEF PointerInv, PlanInv
    <3>2. PICK m \in Nat : m = Pointer!NewDives
      BY DEF PointerInv, PointerTypes, Pointer!NewDives, Pointer!Known
    <3> QED BY <2>1, <3>1, <3>2 DEF NumbersInv
  <2>5. CASE pc \in {"read", "stop"}
    BY <2>1, <2>5 DEF PointerInv, ProgressInv
  <2> QED BY <2>2, <2>3, <2>4, <2>5
<1> QED BY <1>1, <1>2, <1>3, PointerEnds

LEMMA PointerStep ==
  ASSUME Pointer!PointerAssumption, PointerInv, [Pointer!Next]_Pointer!vars PROVE PointerInv'
<1>1. CASE Pointer!Return
  BY <1>1, PointerFinish DEF Pointer!Return, Pointer!Finish
<1>2. CASE Pointer!ReadFails
  BY <1>2, PointerFinish DEF Pointer!ReadFails, Pointer!Finish
<1>3. CASE Pointer!Finished \/ UNCHANGED Pointer!vars
  <2>1. UNCHANGED <<driver, size, used, eop, last, valid, fingerprint, pc, list, idx, nbytes, begin, count,
                    skip, taken, total, remaining, previous, pos, top, at, len, current, maximum, status>>
    BY <1>3 DEF Pointer!Finished, Pointer!vars, Pointer!device, Pointer!book, Pointer!plan,
                Pointer!walk, Pointer!progress
  <2>2. /\ PointerTypes' = PointerTypes /\ StartInv' = StartInv /\ BookInv' = BookInv
        /\ ProgressInv' = ProgressInv
    BY <2>1 DEF PointerTypes, StartInv, BookInv, ProgressInv, Pointer!n, SlotAfter, BookSize,
                Pointer!SZ_BOOK
  <2>3. Listed' = Listed /\ NumbersInv' = NumbersInv /\ Passed' = Passed
        /\ \A w, t : Summed(w, t)' = Summed(w, t)
    BY <2>1 DEF Listed, NumbersInv, Passed, Summed, Pointer!Done, Pointer!NewDives, Pointer!Known,
                Pointer!n
  <2>4. PlanInv' /\ ReadInv'
    BY <2>1, <2>3 DEF PointerInv, PlanInv, ReadInv
  <2> QED BY <2>2, <2>4 DEF PointerInv
<1> QED BY <1>1, <1>2, <1>3, PointerForeach, PointerReadList, PointerReadConfig, PointerReadEntry,
           PointerBookRead, PointerReadRange, PointerReadAddress, PointerPlan, PointerPlanned,
           PointerReadDive, PointerHandOut DEF Pointer!Next

\* The invariant holds whatever the pointers of the device are.
THEOREM PointerInvariance == ASSUME Pointer!PointerAssumption PROVE Pointer!Spec => []PointerInv
<1>1. Pointer!Init => PointerInv
  BY PointerInit
<1>2. PointerInv /\ [Pointer!Next]_Pointer!vars => PointerInv'
  BY PointerStep
<1> QED BY <1>1, <1>2, PTL DEF Pointer!Spec

\* For every ring, logbook and list of addresses, sound or not, the four
\* drivers plan no more dives than the logbook has slots and no more bytes
\* than the ring has.
THEOREM PointerTypeCorrect == ASSUME Pointer!PointerAssumption PROVE Pointer!Spec => []Pointer!TypeOK
<1>1. PointerInv => Pointer!TypeOK
  BY DEF PointerInv, PointerTypes, Pointer!TypeOK
<1> QED BY <1>1, PointerInvariance, PTL

\* Whatever the addresses are, both passes of cressi_edy, zeagle_n2ition3,
\* liquivision_lynx and seac_screen agree: the second never reads more than
\* the first has made room for, has used all of it in the end, and the
\* progress is complete then and never exceeds its maximum.
THEOREM PointerPassesAgree ==
  ASSUME Pointer!PointerAssumption PROVE Pointer!Spec => []Pointer!PassesAgree
<1>1. PointerInv => Pointer!PassesAgree
  <2> SUFFICES ASSUME PointerInv PROVE Pointer!PassesAgree
    OBVIOUS
  <2>1. /\ R \in Nat /\ remaining \in 0 .. R /\ nbytes \in Nat /\ Len(list) \in Nat /\ current \in Int
        /\ maximum \in Int /\ Pointer!SZ_BOOK \in Nat /\ driver.list \in {"whole", "entries", "numbers"}
    BY PointerConstants, DriverFacts DEF PointerInv, PointerTypes
  <2>2. ASSUME pc = "read", Pointer!AllRead PROVE remaining = 0 /\ current = maximum
    <3>1. PICK w, t : /\ Summed(w, t)
                      /\ IF taken <= w THEN remaining = total - t[taken] ELSE remaining = 0
      BY <2>2 DEF PointerInv, ReadInv, Passed
    <3>2. taken = count /\ w \in 0 .. count /\ t[w] = total /\ total \in 0 .. R /\ count \in Nat
      BY <2>2, <3>1 DEF PointerInv, PointerTypes, Summed, Pointer!AllRead
    <3>3. remaining = 0
      BY <3>1, <3>2
    <3> QED BY <2>1, <2>2, <3>3 DEF PointerInv, ProgressInv
  <2>3. ASSUME pc # "idle", status # "DATAFORMAT" PROVE current <= maximum
    <3>1. CASE pc \in {"list", "book", "booked"}
      BY <2>1, <3>1 DEF PointerInv, StartInv, BookInv
    <3>2. CASE pc \in {"plan", "planned"}
      <4>1. CASE driver.list = "numbers"
        <5>1. NumbersInv
          BY <3>2, <4>1 DEF PointerInv, PlanInv
        <5>2. PICK m \in Nat : m = Pointer!NewDives
          BY DEF PointerInv, PointerTypes, Pointer!NewDives, Pointer!Known
        <5> QED BY <2>1, <5>1, <5>2 DEF NumbersInv
      <4>2. CASE driver.list # "numbers"
        BY <2>1, <3>2, <4>2 DEF PointerInv, PlanInv
      <4> QED BY <4>1, <4>2
    <3>3. CASE pc \in {"read", "dive", "stop", "done"}
      BY <2>1, <2>3, <3>3 DEF PointerInv, ProgressInv
    <3> QED BY <2>3, <3>1, <3>2, <3>3 DEF PointerInv, PointerTypes
  <2> QED BY <2>1, <2>2, <2>3 DEF Pointer!PassesAgree
<1> QED BY <1>1, PointerInvariance, PTL

\* Whatever the addresses are, the bytes handed out as a dive are those that
\* lie between its address and that of the next newer one: the stream is
\* where the driver thinks it is.
THEOREM PointerInStep == ASSUME Pointer!PointerAssumption PROVE Pointer!Spec => []Pointer!InStep
<1>1. PointerInv => Pointer!InStep
  <2> SUFFICES ASSUME PointerInv, pc = "dive", len > 0
               PROVE  Pointer!ringbuffer_normalize(pos, PB, Pointer!PE) = at
    BY DEF Pointer!InStep
  <2>1. Passed = taken + 1 /\ Passed <= count /\ Listed /\ at = previous
        /\ previous = Mark(list, begin, top, Passed) /\ taken \in Nat /\ count \in Nat
    BY DEF PointerInv, PointerTypes, ReadInv, Passed
  <2>2. PICK w, t : IF Passed <= w THEN pos = previous ELSE len = 0
    BY DEF PointerInv, ReadInv
  <2>3. pos = at
    BY <2>1, <2>2
  <2>4. at \in Pointer!Addresses
    <3>1. taken + 1 \in 1 .. count /\ taken + 1 # 0
      BY <2>1
    <3> QED BY <2>1, <3>1 DEF Mark, Listed
  <2> QED BY <2>3, <2>4, PointerRing
<1> QED BY <1>1, PointerInvariance, PTL

-----------------------------------------------------------------------------
(* Two passes over a logbook, and a walk backward through the profiles *)

CONSTANTS LB, EntrySize, PAGESIZE, Tops

VARIABLES gapAt, bad, book, first, nread, matched, plan, entry, handed

Oceanic == INSTANCE OceanicDownload

\* An entry that neither pass skips, and what it takes of the ring if the next
\* newer dive begins at newer.
Sound(e) == e # Oceanic!NoEntry /\ Oceanic!PointersValid(e)

Need(e, newer) == Oceanic!ProfileSize(e) + Oceanic!GapTo(e, newer)

\* Whole numbers of laps of the ring.
Laps == {k * R : k \in Int}

\* s bytes back from e is p, the begin of a profile.
Back(e, p, s) == p \in PB .. (PB + R - 1) /\ s \in 1 .. R /\ (e - s) - p \in Laps

\* What the first pass knows behind an entry: the end of the newest profile
\* (0 if there was none), the begin of the last one, and the bytes so far.
Counted(e, e0, p0, s0, e1, p1, s1) ==
  IF Sound(e)
    THEN /\ e1 = (IF e0 = 0 THEN e.end ELSE e0) /\ p1 = e.begin
         /\ s1 = s0 + Need(e, IF e0 = 0 THEN e.end ELSE p0)
    ELSE e1 = e0 /\ p1 = p0 /\ s1 = s0

\* The same behind each of the first w entries of the list l.
Trail(l, w, E, P, S) ==
  /\ E \in [0 .. w -> Nat] /\ P \in [0 .. w -> Nat] /\ S \in [0 .. w -> 0 .. R]
  /\ E[0] = 0 /\ P[0] = 0 /\ S[0] = 0
  /\ \A i \in 1 .. w : Counted(l[i], E[i - 1], P[i - 1], S[i - 1], E[i], P[i], S[i])
  /\ \A i \in 0 .. w : /\ S[i] <= S[w] /\ (E[i] = 0 => S[i] = 0)
                       /\ E[i] # 0 => E[i] = E[w] /\ Back(E[i], P[i], S[i])

LEMMA OceanicConstants ==
  ASSUME Oceanic!OceanicAssumption
  PROVE  /\ LB \in Nat \ {0} /\ PB \in Nat \ {0} /\ L \in Nat \ {0} /\ R \in Nat \ {0}
         /\ EntrySize \in Nat \ {0} /\ PAGESIZE \in Nat \ {0}
         /\ DiveSizes \subseteq 1 .. R /\ Tops \subseteq 0 .. R
         /\ Oceanic!PE = PB + R /\ Oceanic!LE = LB + L
BY DEF Oceanic!OceanicAssumption, Oceanic!PE, Oceanic!LE

LEMMA LapsFacts ==
  ASSUME R \in Nat \ {0}
  PROVE  /\ Laps \subseteq Int /\ 0 \in Laps
         /\ \A u, v \in Laps : u + v \in Laps /\ u - v \in Laps
<1>1. Laps \subseteq Int
  BY DEF Laps
<1>2. 0 \in Laps
  <2>1. 0 = 0 * R
    OBVIOUS
  <2> QED BY <2>1 DEF Laps
<1>3. ASSUME NEW u \in Laps, NEW v \in Laps PROVE u + v \in Laps /\ u - v \in Laps
  <2>1. PICK k \in Int, m \in Int : u = k * R /\ v = m * R
    BY DEF Laps
  <2>2. (k + m) * R = u + v /\ (k - m) * R = u - v /\ k + m \in Int /\ k - m \in Int
    BY <2>1, Distribute
  <2> QED BY <2>2 DEF Laps
<1> QED BY <1>1, <1>2, <1>3

\* Equal remainders are whole laps apart, and the other way round.
LEMMA LapsRemainder ==
  ASSUME R \in Nat \ {0}, NEW x \in Int, NEW y \in Int
  PROVE  x - y \in Laps <=> x % R = y % R
<1>1. ASSUME x % R = y % R PROVE x - y \in Laps
  <2>1. PICK r \in Int, k \in Int : r = x % R /\ x = r + k * R
    BY LapsToRemainder, ZenonT(30)
  <2>2. PICK t \in Int, m \in Int : t = y % R /\ y = t + m * R
    BY LapsToRemainder, ZenonT(30)
  <2>3. (k - m) * R = k * R - m * R /\ k - m \in Int
    BY Distribute
  <2>4. r = t
    BY <1>1, <2>1, <2>2
  <2>5. x - y = (k - m) * R
    <3>1. PICK u \in Int, v \in Int : u = k * R /\ v = m * R
      OBVIOUS
    <3> QED BY <2>1, <2>2, <2>3, <2>4, <3>1
  <2> QED BY <2>3, <2>5 DEF Laps
<1>2. ASSUME x - y \in Laps PROVE x % R = y % R
  <2>1. PICK k \in Int : x - y = k * R
    BY <1>2 DEF Laps
  <2>2. x = y + k * R
    <3>1. PICK u \in Int : u = k * R
      OBVIOUS
    <3> QED BY <2>1, <3>1
  <2> QED BY <2>2, LapsApart
<1> QED BY <1>1, <1>2

\* The functions of ringbuffer.c as the driver uses them.
LEMMA OceanicRing ==
  ASSUME Oceanic!OceanicAssumption, NEW a \in Int, NEW b \in Int
  PROVE  /\ Oceanic!ringbuffer_distance(a, b, Oceanic!DC_RINGBUFFER_FULL, PB, Oceanic!PE) \in 1 .. R
         /\ Oceanic!ringbuffer_distance(a, b, Oceanic!DC_RINGBUFFER_FULL, PB, Oceanic!PE) - (b - a) \in Laps
         /\ Oceanic!ringbuffer_distance(a, b, Oceanic!DC_RINGBUFFER_EMPTY, PB, Oceanic!PE) \in 0 .. (R - 1)
         /\ Oceanic!ringbuffer_distance(a, b, Oceanic!DC_RINGBUFFER_EMPTY, PB, Oceanic!PE) - (b - a) \in Laps
<1>1. PICK hi \in Int : hi = Oceanic!PE /\ hi - PB = R /\ PB \in Int /\ R \in Nat \ {0}
  BY OceanicConstants
<1>2. \A m \in {0, 1} : Oceanic!ringbuffer_distance(a, b, m, PB, hi) = distance(a, b, R, m)
  BY <1>1 DEF Oceanic!ringbuffer_distance, Oceanic!distance, distance, Oceanic!LapRest, LapRest
<1>3. /\ Oceanic!DC_RINGBUFFER_FULL = 1 /\ Oceanic!DC_RINGBUFFER_EMPTY = 0
      /\ DC_RINGBUFFER_FULL = 1 /\ DC_RINGBUFFER_EMPTY = 0
  BY DEF Oceanic!DC_RINGBUFFER_FULL, Oceanic!DC_RINGBUFFER_EMPTY, DC_RINGBUFFER_FULL, DC_RINGBUFFER_EMPTY
<1>4. /\ distance(a, b, R, 0) = (b - a) % R /\ distance(a, b, R, 1) \in 1 .. R
      /\ distance(a, b, R, 1) % R = (b - a) % R
  BY <1>1, <1>3, DistanceIsModular
<1>5. PICK x \in Int, f \in Int, g \in Int : x = b - a /\ f = distance(a, b, R, 1) /\ g = x % R
  <2>1. \A x \in Int : x % R \in Int
    BY <1>1, DivMod
  <2> QED BY <1>4, <2>1
<1>6. g \in 0 .. (R - 1) /\ g % R = g
  <2>1. g \in 0 .. (R - 1)
    BY <1>1, <1>5, DivMod
  <2>2. (0 * R + g) % R = g
    BY <1>1, <2>1, ModUnique
  <2> QED BY <1>1, <2>1, <2>2
<1>7. f - x \in Laps /\ g - x \in Laps
  <2>1. f % R = x % R /\ g % R = x % R
    BY <1>4, <1>5, <1>6
  <2> QED BY <1>1, <2>1, LapsRemainder
<1> QED BY <1>1, <1>2, <1>3, <1>4, <1>5, <1>6, <1>7

\* The same of the ring of the logbook.
LEMMA OceanicBook ==
  ASSUME Oceanic!OceanicAssumption, NEW a \in Int, NEW d \in Int
  PROVE  /\ Oceanic!ringbuffer_distance(a, d, Oceanic!DC_RINGBUFFER_FULL, LB, Oceanic!LE) \in 1 .. L
         /\ Oceanic!ringbuffer_decrement(a, d, LB, Oceanic!LE) \in Int
         /\ Oceanic!ringbuffer_decrement(a, d, LB, Oceanic!LE) \in LB .. (LB + L - 1)
         /\ Oceanic!ringbuffer_increment(a, d, LB, Oceanic!LE) \in Int
         /\ Oceanic!ringbuffer_increment(a, d, LB, Oceanic!LE) \in LB .. (LB + L - 1)
<1>1. PICK hi \in Int : /\ hi = Oceanic!LE /\ hi - LB = L /\ LB \in Int /\ LB < hi
                        /\ L \in Nat \ {0}
  BY OceanicConstants
<1>2. /\ Oceanic!ringbuffer_distance(a, d, Oceanic!DC_RINGBUFFER_FULL, LB, hi) = distance(a, d, L, DC_RINGBUFFER_FULL)
      /\ Oceanic!ringbuffer_decrement(a, d, LB, hi) = ringbuffer_decrement(a, d, LB, hi)
      /\ Oceanic!ringbuffer_increment(a, d, LB, hi) = ringbuffer_increment(a, d, LB, hi)
  BY <1>1 DEF Oceanic!ringbuffer_distance, Oceanic!distance, distance, Oceanic!ringbuffer_decrement,
         ringbuffer_decrement, Oceanic!ringbuffer_increment, ringbuffer_increment, Oceanic!modulo, modulo,
         Oceanic!LapRest, LapRest, Oceanic!DC_RINGBUFFER_FULL, DC_RINGBUFFER_FULL
<1>3. distance(a, d, L, DC_RINGBUFFER_FULL) \in 1 .. L
  BY <1>1, DistanceIsModular
<1>4. PICK x \in Int, y \in Int : x = (a - LB) + d /\ y = (a - LB) - d
  BY <1>1
<1>5. ringbuffer_increment(a, d, LB, hi) = (x % L) + LB /\ ringbuffer_decrement(a, d, LB, hi) = (y % L) + LB
  BY <1>1, <1>4, StepIs
<1>6. x % L \in 0 .. (L - 1) /\ y % L \in 0 .. (L - 1)
  BY <1>1, DivMod
<1> QED BY <1>1, <1>2, <1>3, <1>5, <1>6

\* Where the stream is after s bytes back from e.
LEMMA OceanicBack ==
  ASSUME Oceanic!OceanicAssumption, NEW e \in Int, NEW s \in Int, NEW p, Back(e, p, s)
  PROVE  Oceanic!ringbuffer_decrement(e, s, PB, Oceanic!PE) = Oceanic!ringbuffer_normalize(p, PB, Oceanic!PE)
<1>1. PICK hi \in Int : /\ hi = Oceanic!PE /\ hi - PB = R /\ PB \in Int /\ PB < hi /\ hi = PB + R
                        /\ R \in Nat \ {0} /\ p \in Int /\ p \in PB .. (hi - 1)
  BY OceanicConstants DEF Back
<1>2. /\ Oceanic!ringbuffer_decrement(e, s, PB, hi) = ringbuffer_decrement(e, s, PB, hi)
      /\ Oceanic!ringbuffer_normalize(p, PB, hi) = ringbuffer_normalize(p, PB, hi)
  BY <1>1 DEF Oceanic!ringbuffer_decrement, ringbuffer_decrement, Oceanic!modulo, modulo,
         Oceanic!ringbuffer_normalize, ringbuffer_normalize, Oceanic!LapRest, LapRest
<1>3. PICK x \in Int, y \in Int : x = (e - PB) - s /\ y = p - PB
  BY <1>1
<1>4. x - y \in Laps
  BY <1>1, <1>3 DEF Back
<1>5. x % R = y % R /\ y % R = y
  <2>1. x % R = y % R
    BY <1>1, <1>4, LapsRemainder
  <2>2. (0 * R + y) % R = y
    BY <1>1, <1>3, ModUnique
  <2> QED BY <1>1, <1>3, <2>1, <2>2
<1>6. ringbuffer_decrement(e, s, PB, hi) = (x % R) + PB
  BY <1>1, <1>3, StepIs
<1>7. ringbuffer_normalize(p, PB, hi) = p
  BY <1>1, NormalizeInRing
<1> QED BY <1>1, <1>2, <1>3, <1>5, <1>6, <1>7

\* What a sound entry needs, and where it leads back to.
LEMMA NeedFacts ==
  ASSUME Oceanic!OceanicAssumption, NEW e, NEW e0 \in Int, NEW s0 \in Nat, NEW newer \in Int,
         e.begin \in PB .. (PB + R - 1), e.end \in PB .. (PB + R), (e0 - s0) - newer \in Laps
  PROVE  /\ Need(e, newer) \in Nat \ {0} 
         /\ s0 + Need(e, newer) <= R => Back(e0, e.begin, s0 + Need(e, newer))
<1>1. PICK b \in Int, f \in Int : b = e.begin /\ f = e.end /\ R \in Nat \ {0} /\ PB \in Nat
  BY OceanicConstants
<1>2. PICK p \in Int, g \in Int :
        /\ p = Oceanic!ProfileSize(e) /\ g = Oceanic!GapTo(e, newer)
        /\ p \in 1 .. R /\ p - (f - b) \in Laps /\ g \in 0 .. (R - 1) /\ g - (newer - f) \in Laps
  <2>1. Oceanic!ProfileSize(e) \in 1 .. R /\ Oceanic!ProfileSize(e) - (f - b) \in Laps
    BY <1>1, OceanicRing DEF Oceanic!ProfileSize
  <2>2. Oceanic!GapTo(e, newer) \in 0 .. (R - 1) /\ Oceanic!GapTo(e, newer) - (newer - f) \in Laps
    BY <1>1, OceanicRing DEF Oceanic!GapTo
  <2> QED BY <1>1, <2>1, <2>2
<1>3. (e0 - (s0 + (p + g))) - b \in Laps
  <2>1. PICK u \in Laps, v \in Laps, w \in Laps :
          u = (e0 - s0) - newer /\ v = p - (f - b) /\ w = g - (newer - f)
    BY <1>2
  <2>2. (u - v) - w \in Laps /\ u \in Int /\ v \in Int /\ w \in Int
    BY <1>1, LapsFacts
  <2>3. (u - v) - w = (e0 - (s0 + (p + g))) - b
    BY <2>1, <2>2
  <2> QED BY <2>2, <2>3
<1>4. Need(e, newer) = p + g
  BY <1>2 DEF Need
<1> QED BY <1>1, <1>2, <1>3, <1>4 DEF Back

LEMMA TrailNone ==
  ASSUME Oceanic!OceanicAssumption, NEW l
  PROVE  LET O == [i \in 0 .. 0 |-> 0] IN Trail(l, 0, O, O, O)
BY OceanicConstants DEF Trail

\* One entry more.
LEMMA TrailGrows ==
  ASSUME Oceanic!OceanicAssumption, NEW l, NEW w \in Nat, NEW E, NEW P, NEW S, Trail(l, w, E, P, S),
         NEW e1 \in Nat, NEW p1 \in Nat, NEW s1 \in 0 .. R,
         S[w] <= s1, e1 = 0 => s1 = 0, e1 # 0 => Back(e1, p1, s1), E[w] # 0 => e1 = E[w],
         Counted(l[w + 1], E[w], P[w], S[w], e1, p1, s1)
  PROVE  \E F, Q, T : /\ Trail(l, w + 1, F, Q, T)
                      /\ F[w + 1] = e1 /\ Q[w + 1] = p1 /\ T[w + 1] = s1
<1> DEFINE F == [i \in 0 .. w + 1 |-> IF i <= w THEN E[i] ELSE e1]
           Q == [i \in 0 .. w + 1 |-> IF i <= w THEN P[i] ELSE p1]
           T == [i \in 0 .. w + 1 |-> IF i <= w THEN S[i] ELSE s1]
<1>1. R \in Nat /\ \A i \in 0 .. w : E[i] \in Nat /\ P[i] \in Nat /\ S[i] \in 0 .. R
  BY OceanicConstants DEF Trail
<1>2. /\ F \in [0 .. w + 1 -> Nat] /\ Q \in [0 .. w + 1 -> Nat] /\ T \in [0 .. w + 1 -> 0 .. R]
      /\ F[w + 1] = e1 /\ Q[w + 1] = p1 /\ T[w + 1] = s1
      /\ \A i \in 0 .. w : F[i] = E[i] /\ Q[i] = P[i] /\ T[i] = S[i]
  BY <1>1
<1> HIDE DEF F, Q, T
<1>3. F[0] = 0 /\ Q[0] = 0 /\ T[0] = 0
  BY <1>2 DEF Trail
<1>4. ASSUME NEW i \in 1 .. w + 1
      PROVE  Counted(l[i], F[i - 1], Q[i - 1], T[i - 1], F[i], Q[i], T[i])
  <2>1. CASE i \in 1 .. w
    <3>1. i \in 0 .. w /\ i - 1 \in 0 .. w
      BY <2>1
    <3>2. Counted(l[i], E[i - 1], P[i - 1], S[i - 1], E[i], P[i], S[i])
      BY <2>1 DEF Trail
    <3> QED BY <1>2, <3>1, <3>2
  <2>2. CASE i = w + 1
    <3>1. i - 1 = w /\ w \in 0 .. w
      BY <2>2
    <3> QED BY <1>2, <2>2, <3>1
  <2> QED BY <2>1, <2>2
<1>5. ASSUME NEW i \in 0 .. w + 1
      PROVE  /\ T[i] <= T[w + 1] /\ (F[i] = 0 => T[i] = 0)
             /\ F[i] # 0 => F[i] = F[w + 1] /\ Back(F[i], Q[i], T[i])
  <2>1. CASE i \in 0 .. w
    <3>1. /\ S[i] <= S[w] /\ (E[i] = 0 => S[i] = 0)
          /\ E[i] # 0 => E[i] = E[w] /\ Back(E[i], P[i], S[i])
      BY <2>1 DEF Trail
    <3>2. S[i] \in 0 .. R /\ S[w] \in 0 .. R /\ w \in 0 .. w
      BY <1>1, <2>1
    <3>3. S[i] <= s1
      BY <1>1, <3>1, <3>2
    <3> QED BY <1>2, <2>1, <3>1, <3>3
  <2>2. CASE i = w + 1
    <3>1. s1 <= s1
      BY <1>1
    <3> QED BY <1>2, <2>2, <3>1
  <2> QED BY <2>1, <2>2
<1>6. Trail(l, w + 1, F, Q, T)
  BY <1>2, <1>3, <1>4, <1>5 DEF Trail
<1> QED BY <1>2, <1>6, Zenon

LEMMA TrailAt ==
  ASSUME Oceanic!OceanicAssumption, NEW l, NEW w \in Nat, NEW E, NEW P, NEW S, Trail(l, w, E, P, S),
         NEW i \in 0 .. w
  PROVE  /\ E[i] \in Nat /\ P[i] \in Nat /\ S[i] \in 0 .. R /\ S[i] <= S[w]
         /\ E[i] = 0 => S[i] = 0
         /\ E[i] # 0 => E[i] = E[w] /\ Back(E[i], P[i], S[i])
BY DEF Trail

\* An entry that is skipped.
LEMMA TrailSkip ==
  ASSUME Oceanic!OceanicAssumption, NEW l, NEW w \in Nat, NEW E, NEW P, NEW S, Trail(l, w, E, P, S),
         ~Sound(l[w + 1])
  PROVE  \E F, Q, T : /\ Trail(l, w + 1, F, Q, T)
                      /\ F[w + 1] = E[w] /\ Q[w + 1] = P[w] /\ T[w + 1] = S[w]
<1>1. /\ E[w] \in Nat /\ P[w] \in Nat /\ S[w] \in 0 .. R /\ S[w] <= S[w]
      /\ (E[w] = 0 => S[w] = 0) /\ (E[w] # 0 => Back(E[w], P[w], S[w]))
  BY TrailAt
<1>2. Counted(l[w + 1], E[w], P[w], S[w], E[w], P[w], S[w])
  BY DEF Counted
<1> QED BY <1>1, <1>2, TrailGrows

\* The begin and the end of a profile in the ring.
Ringed(e) == e.begin \in PB .. (PB + R - 1) /\ e.end \in PB .. (PB + R)

\* Where the next newer profile begins, and what the entry needs.
LEMMA TrailNeed ==
  ASSUME Oceanic!OceanicAssumption, NEW l, NEW w \in Nat, NEW E, NEW P, NEW S, Trail(l, w, E, P, S),
         NEW i \in 0 .. w, NEW e, Ringed(e),
         NEW newer, newer = IF E[i] = 0 THEN e.end ELSE P[i]
  PROVE  /\ Need(e, newer) \in Nat \ {0}
         /\ S[i] + Need(e, newer) <= R =>
              Back(IF E[i] = 0 THEN e.end ELSE E[i], e.begin, S[i] + Need(e, newer))
<1>1. /\ E[i] \in Nat /\ P[i] \in Nat /\ S[i] \in 0 .. R /\ (E[i] = 0 => S[i] = 0)
      /\ (E[i] # 0 => Back(E[i], P[i], S[i]))
  BY TrailAt
<1>2. PICK e0 \in Int, s0 \in Nat : e0 = (IF E[i] = 0 THEN e.end ELSE E[i]) /\ s0 = S[i]
  BY <1>1, OceanicConstants DEF Ringed
<1>3. newer \in Int
  BY <1>1, OceanicConstants DEF Ringed
<1>4. (e0 - s0) - newer \in Laps
  <2>1. CASE E[i] = 0
    <3>1. (e0 - s0) - newer = 0
      BY <1>1, <1>2, <1>3, <2>1
    <3> QED BY <3>1, LapsFacts, OceanicConstants
  <2>2. CASE E[i] # 0
    BY <1>1, <1>2, <2>2 DEF Back
  <2> QED BY <2>1, <2>2
<1>5. /\ Need(e, newer) \in Nat \ {0}
      /\ s0 + Need(e, newer) <= R => Back(e0, e.begin, s0 + Need(e, newer))
  <2>1. e.begin \in PB .. (PB + R - 1) /\ e.end \in PB .. (PB + R)
    BY DEF Ringed
  <2>2. \A n \in Int : n = newer =>
          /\ Need(e, n) \in Nat \ {0} 
          /\ s0 + Need(e, n) <= R => Back(e0, e.begin, s0 + Need(e, n))
    BY <1>4, <2>1, NeedFacts
  <2> QED BY <1>3, <2>2
<1> QED BY <1>2, <1>5

\* An entry that is added.
LEMMA TrailMore ==
  ASSUME Oceanic!OceanicAssumption, NEW l, NEW w \in Nat, NEW E, NEW P, NEW S, Trail(l, w, E, P, S),
         NEW e, e = l[w + 1], Sound(e), Ringed(e),
         NEW newer, newer = IF E[w] = 0 THEN e.end ELSE P[w], S[w] + Need(e, newer) <= R
  PROVE  \E F, Q, T : /\ Trail(l, w + 1, F, Q, T)
                      /\ F[w + 1] = (IF E[w] = 0 THEN e.end ELSE E[w])
                      /\ Q[w + 1] = e.begin /\ T[w + 1] = S[w] + Need(e, newer)
<1>1. /\ E[w] \in Nat /\ P[w] \in Nat /\ S[w] \in 0 .. R
  <2>1. w \in 0 .. w
    OBVIOUS
  <2> QED BY <2>1, TrailAt
<1>2. PICK e1, p1, s1 : /\ e1 = (IF E[w] = 0 THEN e.end ELSE E[w]) /\ p1 = e.begin
                        /\ s1 = S[w] + Need(e, newer)
  <2>1. \A x, y, z : \E e1, p1, s1 : e1 = x /\ p1 = y /\ s1 = z
    OBVIOUS
  <2> QED BY <2>1, Zenon
<1>3. Need(e, newer) \in Nat \ {0} /\ Back(e1, p1, s1)
  <2>1. w \in 0 .. w
    OBVIOUS
  <2>2. /\ Need(e, newer) \in Nat \ {0}
        /\ S[w] + Need(e, newer) <= R =>
             Back(IF E[w] = 0 THEN e.end ELSE E[w], e.begin, S[w] + Need(e, newer))
    BY <2>1, TrailNeed
  <2> QED BY <1>2, <2>2
<1>4. e1 \in Nat \ {0} /\ p1 \in Nat /\ s1 \in 0 .. R /\ S[w] <= s1
  BY <1>1, <1>2, <1>3, OceanicConstants DEF Ringed
<1>5. Counted(l[w + 1], E[w], P[w], S[w], e1, p1, s1)
  BY <1>2 DEF Counted
<1>6. E[w] # 0 => e1 = E[w]
  BY <1>2
<1>7. \E F, Q, T : Trail(l, w + 1, F, Q, T) /\ F[w + 1] = e1 /\ Q[w + 1] = p1 /\ T[w + 1] = s1
  BY <1>3, <1>4, <1>5, <1>6, TrailGrows
<1> QED BY <1>2, <1>7

(* The invariant *)

\* An entry of the logbook of the device.
Recorded(e) ==
  Sound(e) => Ringed(e) /\ Oceanic!ProfileSize(e) = size[e.id]

LogbookKept ==
  /\ direction \in {0, 1} /\ first \in Int /\ last \in Int
  /\ DOMAIN book = LB .. (LB + L - 1) /\ \A a \in DOMAIN book : Recorded(book[a])

OceanicTypes ==
  /\ pc \in {"idle", "devinfo", "pointers", "logbook", "entry", "profile", "dive", "return", "done"}
  /\ status \in {"none", "SUCCESS", "DATAFORMAT", "IO"}
  /\ begin \in Int /\ count \in 0 .. L /\ nread \in 0 .. count
  /\ IsSequence(list) /\ Len(list) \in 0 .. nread
  /\ \A i \in 1 .. Len(list) : \E a \in DOMAIN book : list[i] = book[a]
  /\ entry \in 1 .. Len(list) + 1
  /\ remaining \in 0 .. R /\ offset \in 0 .. (R + L * EntrySize)
  /\ current \in Nat /\ maximum \in Nat
  /\ IsSequence(handed)

\* How far the progress is at each stage.
StagesInv ==
  /\ pc = "idle" => current = 0 /\ maximum = 0
  /\ pc = "devinfo" => current = 0 /\ maximum = L * EntrySize + R
  /\ pc = "pointers" => current = PAGESIZE /\ maximum = L * EntrySize + R + PAGESIZE
  /\ pc = "logbook" => current = 2 * PAGESIZE /\ maximum = L * EntrySize + R + 2 * PAGESIZE
  /\ pc = "entry" => /\ current = 2 * PAGESIZE + nread * EntrySize
                     /\ maximum = 2 * PAGESIZE + R + count * EntrySize
  /\ pc = "profile" => maximum = current + R
  /\ pc = "dive" => maximum = current + remaining
  /\ (pc = "return" \/ (pc = "done" /\ status # "IO")) /\ ~stopped /\ plan.size > 0 =>
       current = maximum /\ remaining = 0

EarlyInv ==
  /\ pc \in {"idle", "devinfo", "pointers", "logbook"} => nread = 0 /\ count = 0 /\ list = <<>>
  /\ pc \in {"idle", "devinfo", "pointers", "logbook", "entry"} =>
       plan = [end |-> 0, size |-> 0] /\ entry = 1 /\ previous = 0
  /\ pc \in {"idle", "devinfo", "pointers", "logbook", "entry", "profile"} => pos = 0 /\ Len(handed) = 0

\* The first pass is at the end of a trail of the entries so far.
FirstPassInv ==
  pc = "profile" =>
    \E E, P, S :
      /\ Trail(list, entry - 1, E, P, S)
      /\ plan = [end |-> E[entry - 1], size |-> S[entry - 1]]
      /\ remaining = R - S[entry - 1] /\ previous = P[entry - 1]

\* The second pass goes along the same trail, which ended with the list or
\* in front of an entry that did not fit any more.
OnTrail(w, E, P, S) ==
  /\ Trail(list, w, E, P, S) /\ entry - 1 <= w /\ w <= Len(list)
  /\ w < Len(list) => Sound(list[w + 1])
  /\ plan = [end |-> E[w], size |-> S[w]] /\ S[w] > 0
  /\ remaining = S[w] - S[entry - 1] /\ pos = S[entry - 1]
  /\ previous = IF E[entry - 1] = 0 THEN E[w] ELSE P[entry - 1]

SecondPassInv ==
  pc = "dive" =>
    /\ \E w \in Nat : \E E, P, S : OnTrail(w, E, P, S)
    /\ Len(handed) <= entry - 1
    /\ offset = remaining + (Len(list) - Len(handed)) * EntrySize

OceanicInv ==
  /\ LogbookKept /\ OceanicTypes /\ StagesInv /\ EarlyInv /\ FirstPassInv /\ SecondPassInv
  /\ Oceanic!OwnProfile

\* Two sizes of a profile that are whole laps apart are the same.
LEMMA SmallLap ==
  ASSUME R \in Nat \ {0}, NEW x \in 1 .. R, NEW y \in 1 .. R, x - y \in Laps PROVE x = y
<1>1. PICK a \in Int, b \in Int : a = x - 1 /\ b = y - 1
  OBVIOUS
<1>2. a - b \in Laps
  BY <1>1
<1>3. a % R = b % R
  BY <1>2, LapsRemainder
<1>4. (0 * R + a) % R = a /\ (0 * R + b) % R = b /\ 0 * R + a = a /\ 0 * R + b = b
  BY <1>1, ModUnique
<1> QED BY <1>1, <1>3, <1>4

LEMMA WrappedEnd ==
  ASSUME NEW p \in Nat, NEW r \in Nat, NEW b \in Int, NEW z \in Int, 0 <= b, b < r, 1 <= z, z <= r
  PROVE  /\ p + b \in p .. (p + r - 1)
         /\ b + z > r => /\ p + b + z - r \in p .. (p + r) 
                        /\ (p + b + z - r) - (p + b) = z - r
         /\ ~(b + z > r) => p + b + z - 0 \in p .. (p + r) /\ (p + b + z - 0) - (p + b) = z
OBVIOUS

\* The entries of the device: the pointers of a dive that wraps are a lap less
\* apart than its size.
LEMMA EntryRecorded ==
  ASSUME Oceanic!OceanicAssumption, NEW c \in Nat, size \in [1 .. c -> DiveSizes], Len(size) = c,
         NEW at0 \in [1 .. c -> 0 .. R - 1], NEW k \in Nat \ {0}
  PROVE  Recorded(Oceanic!EntryOf(at0, k))
<1> DEFINE e == Oceanic!EntryOf(at0, k)
<1>1. CASE k > c
  BY <1>1 DEF Recorded, Sound, Oceanic!EntryOf
<1>2. CASE k <= c /\ k = bad
  <2>1. e.begin = PB - 1
    BY <1>2 DEF Oceanic!EntryOf
  <2> HIDE DEF e
  <2>2. ~Sound(e)
    BY <2>1, OceanicConstants DEF Sound, Oceanic!PointersValid
  <2> QED BY <2>2 DEF Recorded, e
<1>3. CASE k <= c /\ k # bad
  <2>1. PICK b \in 0 .. R - 1, z \in 1 .. R : b = at0[k] /\ z = size[k]
    <3>1. k \in 1 .. c
      BY <1>3
    <3> QED BY <3>1, OceanicConstants
  <2>2. /\ e.id = k /\ e.begin = PB + b
        /\ e.end = PB + b + z - (IF b + z > R THEN R ELSE 0)
    BY <1>3, <2>1 DEF Oceanic!EntryOf
  <2> HIDE DEF e
  <2>0. R \in Nat \ {0} /\ PB \in Nat /\ b \in Int /\ z \in Int /\ 0 <= b /\ b < R /\ 1 <= z /\ z <= R
    BY <2>1, OceanicConstants
  <2>3. PICK x \in Int, y \in Int : x = e.begin /\ y = e.end /\ Ringed(e) /\ (y - x = z \/ y - x = z - R)
    <3>1. CASE b + z > R
      <4>1. e.begin = PB + b /\ e.end = PB + b + z - R
        BY <2>2, <3>1
      <4>2. /\ PB + b \in PB .. (PB + R - 1) /\ PB + b + z - R \in PB .. (PB + R)
            /\ (PB + b + z - R) - (PB + b) = z - R
        BY <2>0, <3>1, WrappedEnd
      <4> QED BY <2>0, <4>1, <4>2 DEF Ringed
    <3>2. CASE ~(b + z > R)
      <4>1. e.begin = PB + b /\ e.end = PB + b + z - 0
        BY <2>2, <3>2
      <4>2. /\ PB + b \in PB .. (PB + R - 1) /\ PB + b + z - 0 \in PB .. (PB + R)
            /\ (PB + b + z - 0) - (PB + b) = z
        BY <2>0, <3>2, WrappedEnd
      <4> QED BY <2>0, <4>1, <4>2 DEF Ringed
    <3> QED BY <3>1, <3>2
  <2>4. PICK d \in 1 .. R : d = Oceanic!ProfileSize(e) /\ d - (y - x) \in Laps
    BY <2>3, OceanicRing DEF Oceanic!ProfileSize
  <2>5. d - z \in Laps
    <3>1. CASE y - x = z
      BY <2>4, <3>1
    <3>2. CASE y - x = z - R
      <4>1. R \in Laps
        <5>1. R = 1 * R /\ 1 \in Int
          BY OceanicConstants
        <5> QED BY <5>1 DEF Laps
      <4>2. (d - (y - x)) - R \in Laps
        BY <2>4, <4>1, LapsFacts, OceanicConstants
      <4>3. (d - (y - x)) - R = d - z
        BY <2>0, <2>4, <3>2
      <4> QED BY <4>2, <4>3
    <3> QED BY <2>3, <3>1, <3>2
  <2>6. d = z
    BY <2>1, <2>4, <2>5, SmallLap, OceanicConstants
  <2> QED BY <2>1, <2>2, <2>3, <2>4, <2>6 DEF Recorded, e
<1> QED BY <1>1, <1>2, <1>3

LEMMA OceanicInit == ASSUME Oceanic!OceanicAssumption, Oceanic!Init PROVE OceanicInv
<1>1. /\ pc = "idle" /\ begin = 0 /\ count = 0 /\ nread = 0 /\ list = <<>>
      /\ plan = [end |-> 0, size |-> 0] /\ entry = 1 /\ remaining = 0 /\ previous = 0 /\ pos = 0
      /\ offset = 0 /\ handed = <<>> /\ status = "none" /\ current = 0 /\ maximum = 0
      /\ direction \in {0, 1}
  BY DEF Oceanic!Init
<1>2. PICK c \in 0 .. L : size \in [1 .. c -> DiveSizes]
  BY DEF Oceanic!Init
<1>3. Len(size) = c /\ DOMAIN size = 1 .. c /\ c \in Nat
  <2>1. c \in Nat
    BY OceanicConstants
  <2> QED BY <1>2, <2>1
<1>4. PICK p \in 0 .. L - 1, at0 \in [DOMAIN size -> 0 .. R - 1] :
        /\ book = [a \in LB .. Oceanic!LE - 1 |->
                     Oceanic!EntryOf(at0, 1 + (IF direction = 1 THEN (p - 1 - (a - LB)) % L
                                                               ELSE (a - LB - p) % L))]
        /\ IF direction = 1
             THEN /\ last = LB + p
                  /\ first \in {Oceanic!ringbuffer_decrement(last, Len(size), LB, Oceanic!LE), Oceanic!LE + 1}
             ELSE /\ first = LB + p
                  /\ last \in {Oceanic!ringbuffer_increment(first, Len(size), LB, Oceanic!LE), LB - 1}
  BY DEF Oceanic!Init
<1>5. LogbookKept
  <2>1. L \in Nat \ {0} /\ LB \in Nat /\ Oceanic!LE = LB + L
    BY OceanicConstants
  <2>2. ASSUME NEW a \in LB .. (LB + L - 1) PROVE Recorded(book[a])
    <3>1. PICK k \in Nat \ {0} : book[a] = Oceanic!EntryOf(at0, k)
      <4>1. p - 1 - (a - LB) \in Int /\ a - LB - p \in Int
        BY <2>1
      <4>2. \A x \in Int : x % L \in Nat
        BY <2>1, DivMod
      <4>3. (p - 1 - (a - LB)) % L \in Nat /\ (a - LB - p) % L \in Nat
        BY <4>1, <4>2, Zenon
      <4> QED BY <1>4, <2>1, <4>3
    <3> QED BY <1>2, <1>3, <1>4, <3>1, EntryRecorded
  <2>3. DOMAIN book = LB .. (LB + L - 1)
    BY <1>4, <2>1
  <2>4. first \in Int /\ last \in Int
    <3>1. \A a \in Int, d \in Int :
            /\ Oceanic!ringbuffer_decrement(a, d, LB, Oceanic!LE) \in Int
            /\ Oceanic!ringbuffer_increment(a, d, LB, Oceanic!LE) \in Int
      BY OceanicBook
    <3>2. LB + p \in Int /\ c \in Int /\ LB - 1 \in Int /\ Oceanic!LE + 1 \in Int
      BY <1>3, <2>1
    <3>3. CASE direction = 1
      <4>1. last \in Int
        BY <1>4, <3>2, <3>3
      <4>2. first = Oceanic!ringbuffer_decrement(last, c, LB, Oceanic!LE) \/ first = Oceanic!LE + 1
        BY <1>3, <1>4, <3>3
      <4>3. Oceanic!ringbuffer_decrement(last, c, LB, Oceanic!LE) \in Int
        BY <3>1, <3>2, <4>1
      <4> QED BY <3>2, <4>1, <4>2, <4>3
    <3>4. CASE direction # 1
      <4>1. first \in Int
        BY <1>4, <3>2, <3>4
      <4>2. last = Oceanic!ringbuffer_increment(first, c, LB, Oceanic!LE) \/ last = LB - 1
        BY <1>3, <1>4, <3>4
      <4>3. Oceanic!ringbuffer_increment(first, c, LB, Oceanic!LE) \in Int
        BY <3>1, <3>2, <4>1
      <4> QED BY <3>2, <4>1, <4>2, <4>3
    <3> QED BY <3>3, <3>4
  <2> QED BY <1>1, <2>2, <2>3, <2>4 DEF LogbookKept
<1>6. IsSequence(<<>>) /\ Len(<<>>) = 0
  <2>1. <<>> \in Seq({}) /\ Len(<<>>) = 0
    OBVIOUS
  <2> QED BY <2>1 DEF IsSequence
<1>7. L * EntrySize \in Nat
  BY OceanicConstants
<1>8. OceanicTypes
  BY <1>1, <1>6, <1>7, OceanicConstants DEF OceanicTypes
<1>9. Oceanic!OwnProfile
  BY <1>1 DEF Oceanic!OwnProfile
<1> QED BY <1>1, <1>5, <1>6, <1>8, <1>9 DEF OceanicInv, StagesInv, EarlyInv, FirstPassInv, SecondPassInv

(* The steps *)

LEMMA LogbookStays ==
  ASSUME LogbookKept, Oceanic!OwnProfile, UNCHANGED Oceanic!device
  PROVE  LogbookKept' /\ (handed' = handed => Oceanic!OwnProfile')
<1>1. UNCHANGED <<size, book, first, last, direction>>
  BY DEF Oceanic!device
<1>2. LogbookKept'
  BY <1>1 DEF LogbookKept, Recorded, Sound, Ringed, Oceanic!PointersValid, Oceanic!ProfileSize
<1>3. handed' = handed => Oceanic!OwnProfile'
  BY <1>1 DEF Oceanic!OwnProfile
<1> QED BY <1>2, <1>3

\* The bytes of the entries.
LEMMA EntriesSize ==
  ASSUME Oceanic!OceanicAssumption, NEW n \in Nat, NEW m \in Nat
  PROVE  /\ n * EntrySize \in Nat /\ (n + 1) * EntrySize = n * EntrySize + EntrySize
         /\ 0 * EntrySize = 0
         /\ m <= n => /\ m * EntrySize <= n * EntrySize
                      /\ (n - m) * EntrySize = n * EntrySize - m * EntrySize
<1>1. EntrySize \in Nat \ {0} /\ EntrySize \in Int
  BY OceanicConstants
<1>2. \A k \in Nat : k * EntrySize \in Nat
  BY <1>1
<1>3. (n + 1) * EntrySize = n * EntrySize + 1 * EntrySize
  BY <1>1, Distribute
<1>4. (n - m) * EntrySize = n * EntrySize - m * EntrySize
  BY <1>1, Distribute
<1>5. m <= n => m * EntrySize <= n * EntrySize
  <2>1. SUFFICES ASSUME m <= n PROVE m * EntrySize <= n * EntrySize
    OBVIOUS
  <2>2. n - m \in Nat
    BY <2>1
  <2>3. PICK x \in Nat, y \in Nat, z \in Nat :
          x = n * EntrySize /\ y = m * EntrySize /\ z = (n - m) * EntrySize
    BY <1>2, <2>2
  <2> QED BY <1>4, <2>3
<1> QED BY <1>1, <1>2, <1>3, <1>4, <1>5

LEMMA OceanicOpening ==
  ASSUME Oceanic!OceanicAssumption, OceanicInv, Oceanic!Foreach \/ Oceanic!DevInfo \/ Oceanic!Pointers
  PROVE  OceanicInv'
<1>1. /\ UNCHANGED Oceanic!device
      /\ UNCHANGED <<begin, count, nread, list, plan, entry, remaining, previous, pos, offset, handed, stopped>>
  BY DEF Oceanic!Foreach, Oceanic!DevInfo, Oceanic!Pointers, Oceanic!logging, Oceanic!reading, Oceanic!report
<1>2. \/ /\ pc = "idle" /\ pc' = "devinfo" /\ maximum' = L * EntrySize + R
         /\ UNCHANGED <<current, status>>
      \/ /\ pc = "devinfo" /\ pc' = "pointers" /\ current' = current + PAGESIZE
         /\ maximum' = maximum + PAGESIZE /\ status' = status
      \/ /\ pc = "pointers" /\ pc' = "logbook" /\ current' = current + PAGESIZE
         /\ maximum' = maximum + PAGESIZE /\ status' = status
      \/ /\ pc \in {"devinfo", "pointers"} /\ pc' = "done" /\ status' = "IO"
         /\ UNCHANGED <<current, maximum>>
  BY DEF Oceanic!Foreach, Oceanic!DevInfo, Oceanic!Pointers, Oceanic!ReadFails, Oceanic!Finish, Oceanic!report
<1>3. LogbookKept' /\ Oceanic!OwnProfile'
  BY <1>1, LogbookStays DEF OceanicInv
<1>4. PICK x \in Nat : x = L * EntrySize /\ R \in Nat /\ PAGESIZE \in Nat
  BY EntriesSize, OceanicConstants
<1>5. current' \in Nat /\ maximum' \in Nat /\ StagesInv'
  <2>1. current \in Nat /\ maximum \in Nat
    BY DEF OceanicInv, OceanicTypes
  <2>2. CASE pc = "idle" /\ pc' = "devinfo" /\ maximum' = L * EntrySize + R /\ UNCHANGED <<current, status>>
    <3>1. current' = 0 /\ maximum' = x + R
      BY <1>4, <2>2 DEF OceanicInv, StagesInv
    <3> QED BY <1>4, <2>1, <2>2, <3>1 DEF StagesInv
  <2>3. CASE /\ pc = "devinfo" /\ pc' = "pointers" /\ current' = current + PAGESIZE
             /\ maximum' = maximum + PAGESIZE /\ status' = status
    <3>1. current = 0 /\ maximum = x + R
      BY <1>4, <2>3 DEF OceanicInv, StagesInv
    <3>2. current' = PAGESIZE /\ maximum' = x + R + PAGESIZE
      BY <1>4, <2>3, <3>1
    <3> QED BY <1>4, <2>3, <3>2 DEF StagesInv
  <2>4. CASE /\ pc = "pointers" /\ pc' = "logbook" /\ current' = current + PAGESIZE
             /\ maximum' = maximum + PAGESIZE /\ status' = status
    <3>1. current = PAGESIZE /\ maximum = x + R + PAGESIZE
      BY <1>4, <2>4 DEF OceanicInv, StagesInv
    <3>2. current' = 2 * PAGESIZE /\ maximum' = x + R + 2 * PAGESIZE
      BY <1>4, <2>4, <3>1
    <3> QED BY <1>4, <2>4, <3>2 DEF StagesInv
  <2>5. CASE pc \in {"devinfo", "pointers"} /\ pc' = "done" /\ status' = "IO" /\ UNCHANGED <<current, maximum>>
    BY <2>1, <2>5 DEF StagesInv
  <2> QED BY <1>2, <2>2, <2>3, <2>4, <2>5
<1>6. OceanicTypes'
  <2>1. book' = book
    BY <1>1 DEF Oceanic!device
  <2> QED BY <1>1, <1>2, <1>5, <2>1 DEF OceanicInv, OceanicTypes
<1>7. EarlyInv' /\ FirstPassInv' /\ SecondPassInv'
  BY <1>1, <1>2 DEF OceanicInv, EarlyInv, FirstPassInv, SecondPassInv
<1> QED BY <1>3, <1>5, <1>6, <1>7 DEF OceanicInv

LEMMA OceanicLogbook ==
  ASSUME Oceanic!OceanicAssumption, OceanicInv, Oceanic!Logbook PROVE OceanicInv'
<1>1. /\ pc = "logbook" /\ UNCHANGED Oceanic!device
      /\ UNCHANGED <<nread, list, plan, entry, remaining, previous, pos, offset, handed, stopped, current>>
  BY DEF Oceanic!Logbook, Oceanic!reading
<1>2. \/ pc' = "done" /\ status' = "DATAFORMAT" /\ UNCHANGED <<begin, count, maximum>>
      \/ /\ pc' = "entry" /\ status' = status /\ begin' \in Int /\ count' \in 1 .. L
         /\ maximum' = maximum - (L - count') * EntrySize
  <2>1. first \in Int /\ last \in Int
    BY DEF OceanicInv, LogbookKept
  <2>2. PICK b \in Int, e \in Int :
          /\ b = (IF Oceanic!Outside(first) THEN last ELSE first)
          /\ e = (IF Oceanic!Outside(last) THEN b ELSE last)
    BY <2>1
  <2>3. Oceanic!LogbookSize(b, e) \in 1 .. L
    BY OceanicBook DEF Oceanic!LogbookSize
  <2> QED BY <2>2, <2>3 DEF Oceanic!Logbook, Oceanic!Finish
<1>3. LogbookKept' /\ Oceanic!OwnProfile'
  BY <1>1, LogbookStays DEF OceanicInv
<1>4. nread = 0 /\ list = <<>> /\ plan = [end |-> 0, size |-> 0] /\ entry = 1 /\ Len(handed) = 0
  BY <1>1 DEF OceanicInv, EarlyInv
<1>5. maximum' \in Nat /\ StagesInv'
  <2>1. current = 2 * PAGESIZE /\ maximum = L * EntrySize + R + 2 * PAGESIZE /\ current \in Nat /\ maximum \in Nat
    BY <1>1 DEF OceanicInv, OceanicTypes, StagesInv
  <2>2. CASE pc' = "done" /\ status' = "DATAFORMAT" /\ UNCHANGED <<begin, count, maximum>>
    BY <1>1, <1>4, <2>1, <2>2 DEF StagesInv
  <2>3. CASE /\ pc' = "entry" /\ status' = status /\ begin' \in Int /\ count' \in 1 .. L
             /\ maximum' = maximum - (L - count') * EntrySize
    <3>1. L \in Nat /\ count' \in Nat /\ count' <= L
      BY <2>3, OceanicConstants
    <3>2. PICK x \in Nat, y \in Nat : x = L * EntrySize /\ y = count' * EntrySize
      BY <3>1, EntriesSize
    <3>3. (L - count') * EntrySize = x - y /\ y <= x /\ 0 * EntrySize = 0
      BY <3>1, <3>2, EntriesSize
    <3>4. maximum' = 2 * PAGESIZE + R + y /\ R \in Nat /\ PAGESIZE \in Nat
      BY <2>1, <2>3, <3>2, <3>3, OceanicConstants
    <3>5. current' = 2 * PAGESIZE + nread' * EntrySize
      BY <1>1, <1>4, <2>1, <3>3, <3>4
    <3> QED BY <2>3, <3>2, <3>4, <3>5 DEF StagesInv
  <2> QED BY <1>2, <2>2, <2>3
<1>6. OceanicTypes'
  <2>1. book' = book
    BY <1>1 DEF Oceanic!device
  <2>2. count' \in 0 .. L /\ nread' \in 0 .. count' /\ begin' \in Int
    BY <1>1, <1>2, <1>4, OceanicConstants DEF OceanicInv, OceanicTypes
  <2> QED BY <1>1, <1>2, <1>5, <2>1, <2>2 DEF OceanicInv, OceanicTypes
<1>7. EarlyInv' /\ FirstPassInv' /\ SecondPassInv'
  BY <1>1, <1>2 DEF OceanicInv, EarlyInv, FirstPassInv, SecondPassInv
<1> QED BY <1>3, <1>5, <1>6, <1>7 DEF OceanicInv

LEMMA OceanicReadEntry ==
  ASSUME Oceanic!OceanicAssumption, OceanicInv, Oceanic!ReadEntry PROVE OceanicInv'
<1>1. /\ pc = "entry" /\ nread < count /\ UNCHANGED Oceanic!device
      /\ UNCHANGED <<begin, count, plan, entry, remaining, previous, pos, offset, handed, stopped, maximum>>
  BY DEF Oceanic!ReadEntry, Oceanic!reading
<1>2. \/ /\ current' = current + EntrySize /\ nread' = nread + 1 /\ UNCHANGED <<pc, status>>
         /\ list' = list \/ list' = Append(list, book[Oceanic!EntryAddress])
      \/ pc' = "done" /\ status' = "IO" /\ UNCHANGED <<current, nread, list>>
  BY DEF Oceanic!ReadEntry, Oceanic!ReadFails, Oceanic!Finish
<1>3. LogbookKept' /\ Oceanic!OwnProfile' /\ book' = book
  BY <1>1, LogbookStays DEF OceanicInv, Oceanic!device
<1>4. /\ nread \in Nat /\ count \in Nat /\ count <= L /\ begin \in Int /\ direction \in {0, 1}
      /\ IsSequence(list) /\ Len(list) \in 0 .. nread /\ current \in Nat /\ maximum \in Nat
      /\ EntrySize \in Nat /\ L \in Nat /\ PAGESIZE \in Nat
  BY OceanicConstants DEF OceanicInv, OceanicTypes, LogbookKept
<1>5. Oceanic!EntryAddress \in DOMAIN book
  <2>1. nread + 1 \in Int /\ nread \in Int
    BY <1>4
  <2>2. /\ Oceanic!ringbuffer_increment(begin, nread, LB, Oceanic!LE) \in LB .. (LB + L - 1)
        /\ Oceanic!ringbuffer_decrement(begin, nread + 1, LB, Oceanic!LE) \in LB .. (LB + L - 1)
    BY <1>4, <2>1, OceanicBook
  <2>3. DOMAIN book = LB .. (LB + L - 1)
    BY DEF OceanicInv, LogbookKept
  <2> QED BY <2>2, <2>3 DEF Oceanic!EntryAddress
<1>6. /\ IsSequence(list') /\ Len(list') \in 0 .. nread' /\ nread' \in 0 .. count /\ Len(list') >= Len(list)
      /\ \A i \in 1 .. Len(list') : \E a \in DOMAIN book : list'[i] = book[a]
  <2>1. \A i \in 1 .. Len(list) : \E a \in DOMAIN book : list[i] = book[a]
    BY DEF OceanicInv, OceanicTypes
  <2>2. CASE list' = list
    BY <1>1, <1>2, <1>4, <2>1, <2>2
  <2>3. CASE list' = Append(list, book[Oceanic!EntryAddress]) /\ nread' = nread + 1
    <3>1. /\ IsSequence(list') /\ Len(list') = Len(list) + 1
          /\ \A i \in 1 .. Len(list) : list'[i] = list[i]
          /\ list'[Len(list) + 1] = book[Oceanic!EntryAddress]
      BY <1>4, <2>3, AppendFacts
    <3>2. \A i \in 1 .. Len(list') : i \in 1 .. Len(list) \/ i = Len(list) + 1
      BY <1>4, <3>1
    <3>3. Len(list') \in 0 .. nread' /\ nread' \in 0 .. count /\ Len(list') >= Len(list)
      BY <1>1, <1>4, <2>3, <3>1
    <3> QED BY <1>5, <2>1, <3>1, <3>2, <3>3
  <2> QED BY <1>2, <2>2, <2>3
<1>7. current' \in Nat /\ StagesInv'
  <2>1. PICK y \in Nat, z \in Nat : /\ y = nread * EntrySize /\ z = (nread + 1) * EntrySize /\ z = y + EntrySize
    BY <1>4, EntriesSize
  <2>2. current = 2 * PAGESIZE + y /\ maximum = 2 * PAGESIZE + R + count * EntrySize
    BY <1>1, <2>1 DEF OceanicInv, StagesInv
  <2>3. CASE current' = current + EntrySize /\ nread' = nread + 1 /\ UNCHANGED <<pc, status>>
    <3>1. current' = 2 * PAGESIZE + z /\ current' \in Nat
      BY <1>4, <2>1, <2>2, <2>3
    <3>2. current' = 2 * PAGESIZE + nread' * EntrySize
      BY <2>1, <2>3, <3>1
    <3> QED BY <1>1, <2>2, <2>3, <3>1, <3>2 DEF StagesInv
  <2>4. CASE pc' = "done" /\ status' = "IO" /\ UNCHANGED <<current, nread, list>>
    BY <1>4, <2>4 DEF StagesInv
  <2> QED BY <1>2, <2>3, <2>4
<1>8. OceanicTypes'
  <2>1. entry = 1 /\ entry' = 1
    BY <1>1 DEF OceanicInv, EarlyInv
  <2>2. entry' \in 1 .. Len(list') + 1
    BY <1>4, <1>6, <2>1
  <2>3. count' \in 0 .. L
    BY <1>1, <1>4
  <2> QED BY <1>1, <1>2, <1>3, <1>6, <1>7, <2>2, <2>3 DEF OceanicInv, OceanicTypes
<1>9. EarlyInv' /\ FirstPassInv' /\ SecondPassInv'
  BY <1>1, <1>2 DEF OceanicInv, EarlyInv, FirstPassInv, SecondPassInv
<1> QED BY <1>3, <1>7, <1>8, <1>9 DEF OceanicInv

LEMMA OceanicLogbookDone ==
  ASSUME Oceanic!OceanicAssumption, OceanicInv, Oceanic!LogbookDone PROVE OceanicInv'
<1>1. /\ pc = "entry" /\ UNCHANGED Oceanic!device /\ pc' \in {"profile", "return"} /\ remaining' = R
      /\ maximum' = maximum - (count - nread) * EntrySize
      /\ UNCHANGED <<begin, count, nread, list, plan, entry, previous, pos, offset, handed, stopped, current, status>>
  BY DEF Oceanic!LogbookDone, Oceanic!logging, Oceanic!report
<1>2. LogbookKept' /\ Oceanic!OwnProfile' /\ book' = book
  BY <1>1, LogbookStays DEF OceanicInv, Oceanic!device
<1>3. plan = [end |-> 0, size |-> 0] /\ entry = 1 /\ previous = 0 /\ pos = 0 /\ Len(handed) = 0
  BY <1>1 DEF OceanicInv, EarlyInv
<1>4. maximum' \in Nat /\ maximum' = current + R
  <2>1. /\ nread \in Nat /\ count \in Nat /\ nread <= count /\ current \in Nat /\ PAGESIZE \in Nat /\ R \in Nat
    BY OceanicConstants DEF OceanicInv, OceanicTypes
  <2>2. PICK x \in Nat, y \in Nat : x = count * EntrySize /\ y = nread * EntrySize
    BY <2>1, EntriesSize
  <2>3. (count - nread) * EntrySize = x - y
    BY <2>1, <2>2, EntriesSize
  <2>4. current = 2 * PAGESIZE + y /\ maximum = 2 * PAGESIZE + R + x
    BY <1>1, <2>2 DEF OceanicInv, StagesInv
  <2> QED BY <1>1, <2>1, <2>3, <2>4
<1>5. StagesInv'
  BY <1>1, <1>3, <1>4 DEF StagesInv
<1>6. OceanicTypes'
  <2>1. R \in 0 .. R
    BY OceanicConstants
  <2> QED BY <1>1, <1>2, <1>4, <2>1 DEF OceanicInv, OceanicTypes
<1>7. FirstPassInv'
  <2>1. PICK O : O = [i \in 0 .. 0 |-> 0] /\ O[0] = 0
    <3>1. [i \in 0 .. 0 |-> 0][0] = 0
      OBVIOUS
    <3> QED BY <3>1
  <2>2. Trail(list', 0, O, O, O)
    BY <1>1, <2>1, TrailNone
  <2>3. entry' - 1 = 0 /\ remaining' = R - O[0] /\ previous' = O[0] /\ plan' = [end |-> O[0], size |-> O[0]]
    BY <1>1, <1>3, <2>1, OceanicConstants
  <2> QED BY <2>2, <2>3 DEF FirstPassInv
<1>8. EarlyInv' /\ SecondPassInv'
  BY <1>1, <1>3 DEF EarlyInv, SecondPassInv
<1> QED BY <1>2, <1>5, <1>6, <1>7, <1>8 DEF OceanicInv

\* A sound entry of the list is one of the device.
LEMMA EntryKnown ==
  ASSUME OceanicInv, NEW i \in 1 .. Len(list), Sound(list[i])
  PROVE  /\ Ringed(list[i]) /\ Oceanic!ProfileSize(list[i]) = size[list[i].id]
         /\ \E a \in DOMAIN book : list[i] = book[a]
<1>1. PICK a \in DOMAIN book : list[i] = book[a]
  BY DEF OceanicInv, OceanicTypes
<1>2. Recorded(book[a])
  BY DEF OceanicInv, LogbookKept
<1> QED BY <1>1, <1>2 DEF Recorded

LEMMA OceanicSizes ==
  ASSUME Oceanic!OceanicAssumption, OceanicInv
  PROVE  /\ Len(list) \in Nat /\ Len(list) <= L /\ entry \in Nat /\ 1 <= entry /\ entry <= Len(list) + 1
         /\ remaining \in Nat /\ remaining <= R /\ current \in Nat /\ maximum \in Nat
         /\ IsSequence(handed)
<1>1. /\ count \in 0 .. L /\ nread \in 0 .. count /\ Len(list) \in 0 .. nread /\ entry \in 1 .. Len(list) + 1
      /\ remaining \in 0 .. R /\ current \in Nat /\ maximum \in Nat /\ IsSequence(handed)
  BY DEF OceanicInv, OceanicTypes
<1> QED BY <1>1, OceanicConstants

LEMMA OceanicFirstPass ==
  ASSUME Oceanic!OceanicAssumption, OceanicInv, Oceanic!FirstPass PROVE OceanicInv'
<1>1. PICK e, newer :
        /\ e = list[entry] /\ newer = (IF plan.end = 0 THEN e.end ELSE previous)
        /\ pc = "profile" /\ entry <= Len(list) /\ Sound(e) /\ Need(e, newer) <= remaining
        /\ plan' = [end |-> IF plan.end = 0 THEN e.end ELSE plan.end, size |-> plan.size + Need(e, newer)]
        /\ remaining' = remaining - Need(e, newer) /\ previous' = e.begin /\ entry' = entry + 1
        /\ UNCHANGED Oceanic!device
        /\ UNCHANGED <<pc, begin, count, nread, list, pos, offset, handed, stopped, current, maximum, status>>
  BY DEF Oceanic!FirstPass, Oceanic!Usable, Oceanic!EndOr, Oceanic!Fits, Sound, Need, Oceanic!logging, Oceanic!report
<1>2. LogbookKept' /\ Oceanic!OwnProfile' /\ book' = book
  BY <1>1, LogbookStays DEF OceanicInv, Oceanic!device
<1>3. PICK w \in Nat : /\ w = entry - 1 /\ entry = w + 1 /\ entry \in 1 .. Len(list) /\ Len(list) \in Nat
                       /\ remaining \in Nat
  BY <1>1, OceanicConstants DEF OceanicInv, OceanicTypes
<1>4. PICK E, P, S : /\ Trail(list, w, E, P, S) /\ plan = [end |-> E[w], size |-> S[w]]
                     /\ remaining = R - S[w] /\ previous = P[w]
  BY <1>1, <1>3 DEF OceanicInv, FirstPassInv
<1>5. S[w] \in 0 .. R /\ R \in Nat /\ E[w] \in Nat
  <2>1. w \in 0 .. w
    OBVIOUS
  <2> QED BY <1>4, <2>1, TrailAt, OceanicConstants
<1>6. Ringed(e)
  BY <1>1, <1>3, EntryKnown
<1>7. plan.end = E[w] /\ plan.size = S[w] /\ newer = (IF E[w] = 0 THEN e.end ELSE P[w])
  BY <1>1, <1>4
<1>8. Need(e, newer) \in Nat
  <2>1. w \in 0 .. w
    OBVIOUS
  <2> QED BY <1>4, <1>6, <1>7, <2>1, TrailNeed
<1>9. S[w] + Need(e, newer) <= R
  BY <1>1, <1>4, <1>5, <1>8
<1>10. PICK F, Q, T : /\ Trail(list, w + 1, F, Q, T)
                      /\ F[w + 1] = (IF E[w] = 0 THEN e.end ELSE E[w])
                      /\ Q[w + 1] = e.begin /\ T[w + 1] = S[w] + Need(e, newer)
  BY <1>1, <1>3, <1>4, <1>6, <1>7, <1>9, TrailMore
<1>11. FirstPassInv'
  <2>1. entry' - 1 = w + 1
    BY <1>1, <1>3
  <2>2. remaining' = R - T[w + 1]
    BY <1>1, <1>4, <1>5, <1>8, <1>10
  <2>3. plan' = [end |-> F[w + 1], size |-> T[w + 1]] /\ previous' = Q[w + 1] /\ Trail(list', w + 1, F, Q, T)
    BY <1>1, <1>7, <1>10
  <2> QED BY <2>1, <2>2, <2>3 DEF FirstPassInv
<1>12. OceanicTypes'
  <2>1. entry' \in 1 .. Len(list) + 1
    BY <1>1, <1>3
  <2>2. remaining' \in 0 .. R
    BY <1>1, <1>4, <1>5, <1>8
  <2> QED BY <1>1, <1>2, <2>1, <2>2 DEF OceanicInv, OceanicTypes
<1>13. StagesInv' /\ EarlyInv' /\ SecondPassInv'
  BY <1>1 DEF OceanicInv, StagesInv, EarlyInv, SecondPassInv
<1> QED BY <1>2, <1>11, <1>12, <1>13 DEF OceanicInv

\* The end of the first pass: the second one starts at the head of its trail.
LEMMA OceanicProfile ==
  ASSUME Oceanic!OceanicAssumption, OceanicInv, Oceanic!Profile PROVE OceanicInv'
<1>1. /\ pc = "profile" /\ (entry > Len(list) \/ (entry <= Len(list) /\ Sound(list[entry])))
      /\ remaining' = plan.size /\ previous' = plan.end /\ entry' = 1
      /\ offset' = plan.size + Len(list) * EntrySize
      /\ maximum' = maximum - (R - plan.size)
      /\ pc' = (IF plan.size = 0 THEN "return" ELSE "dive")
      /\ UNCHANGED Oceanic!device
      /\ UNCHANGED <<begin, count, nread, list, plan, pos, handed, stopped, current, status>>
  BY DEF Oceanic!Profile, Oceanic!Usable, Sound, Oceanic!logging, Oceanic!report
<1>2. LogbookKept' /\ Oceanic!OwnProfile' /\ book' = book
  BY <1>1, LogbookStays DEF OceanicInv, Oceanic!device
<1>3. PICK w \in Nat : /\ w = entry - 1 /\ entry = w + 1 /\ w <= Len(list) /\ Len(list) \in Nat /\ Len(list) <= L
                       /\ current \in Nat /\ maximum \in Nat
  BY OceanicSizes, OceanicConstants
<1>4. PICK E, P, S : Trail(list, w, E, P, S) /\ plan = [end |-> E[w], size |-> S[w]]
  BY <1>1, <1>3 DEF OceanicInv, FirstPassInv
<1>5. /\ S[w] \in 0 .. R /\ R \in Nat /\ E[w] \in Nat /\ E[0] = 0 /\ S[0] = 0
      /\ plan.size = S[w] /\ plan.end = E[w]
  <2>1. w \in 0 .. w
    OBVIOUS
  <2>2. S[w] \in 0 .. R /\ E[w] \in Nat
    BY <1>4, <2>1, TrailAt
  <2> QED BY <1>4, <2>2, OceanicConstants DEF Trail
<1>6. pos = 0 /\ Len(handed) = 0
  BY <1>1 DEF OceanicInv, EarlyInv
<1>7. maximum' = current + S[w] /\ maximum' \in Nat
  <2>1. maximum = current + R
    BY <1>1 DEF OceanicInv, StagesInv
  <2> QED BY <1>1, <1>3, <1>5, <2>1
<1>8. StagesInv'
  <2>1. CASE pc' = "return"
    <3>1. ~(plan'.size > 0)
      BY <1>1, <1>5, <2>1
    <3> QED BY <2>1, <3>1 DEF StagesInv
  <2>2. CASE pc' = "dive"
    <3>1. maximum' = current' + remaining'
      BY <1>1, <1>5, <1>7
    <3> QED BY <2>2, <3>1 DEF StagesInv
  <2> QED BY <1>1, <2>1, <2>2
<1>9. OceanicTypes'
  <2>1. offset' \in 0 .. (R + L * EntrySize)
    <3>1. PICK x \in Nat, y \in Nat : x = L * EntrySize /\ y = Len(list) * EntrySize /\ y <= x
      BY <1>3, EntriesSize, OceanicConstants
    <3> QED BY <1>1, <1>5, <3>1
  <2>2. entry' \in 1 .. Len(list) + 1
    BY <1>1, <1>3
  <2> QED BY <1>1, <1>2, <1>5, <1>7, <2>1, <2>2 DEF OceanicInv, OceanicTypes
<1>10. SecondPassInv'
  <2>1. SUFFICES ASSUME pc' = "dive" PROVE SecondPassInv'
    BY DEF SecondPassInv
  <2>2. S[w] > 0
    BY <1>1, <1>5, <2>1
  <2>3. w < Len(list) => Sound(list[w + 1])
    BY <1>1, <1>3
  <2>4. entry' - 1 = 0
    BY <1>1
  <2>5. OnTrail(w, E, P, S)'
    <3>1. w < Len(list') => Sound(list[w + 1])'
      BY <1>1, <2>3 DEF Sound, Oceanic!PointersValid
    <3>2. Trail(list, w, E, P, S)'
      <4>1. list' = list
        BY <1>1
      <4> QED BY <1>4, <4>1 DEF Trail, Counted, Sound, Need, Back, Oceanic!PointersValid, Oceanic!ProfileSize, Oceanic!GapTo
    <3>3. remaining' = S[w] - S[0] /\ pos' = S[0]
      BY <1>1, <1>5, <1>6
    <3> QED BY <1>1, <1>3, <1>4, <1>5, <2>2, <2>4, <3>1, <3>2, <3>3 DEF OnTrail
  <2>6. Len(handed') <= entry' - 1 /\ offset' = remaining' + (Len(list') - Len(handed')) * EntrySize
    BY <1>1, <1>3, <1>6, <2>4
  <2> QED BY <2>5, <2>6 DEF SecondPassInv
<1>11. EarlyInv' /\ FirstPassInv'
  BY <1>1, <1>5 DEF EarlyInv, FirstPassInv
<1> QED BY <1>2, <1>8, <1>9, <1>10, <1>11 DEF OceanicInv

LEMMA OceanicSkip ==
  ASSUME Oceanic!OceanicAssumption, OceanicInv, Oceanic!Skip PROVE OceanicInv'
<1>1. /\ pc \in {"profile", "dive"} /\ entry <= Len(list) /\ ~Sound(list[entry]) /\ entry' = entry + 1
      /\ UNCHANGED Oceanic!device
      /\ UNCHANGED <<pc, begin, count, nread, list, plan, remaining, previous, pos, offset, handed, stopped,
                     current, maximum, status>>
  BY DEF Oceanic!Skip, Sound, Oceanic!logging, Oceanic!report
<1>2. LogbookKept' /\ Oceanic!OwnProfile' /\ book' = book
  BY <1>1, LogbookStays DEF OceanicInv, Oceanic!device
<1>3. PICK j \in Nat : j = entry - 1 /\ entry = j + 1 /\ entry' - 1 = j + 1 /\ j < Len(list) /\ Len(list) \in Nat
  BY <1>1, OceanicSizes
<1>4. FirstPassInv'
  <2>1. SUFFICES ASSUME pc = "profile" PROVE FirstPassInv'
    BY <1>1 DEF FirstPassInv
  <2>2. PICK E, P, S : /\ Trail(list, j, E, P, S) /\ plan = [end |-> E[j], size |-> S[j]]
                       /\ remaining = R - S[j] /\ previous = P[j]
    BY <1>3, <2>1 DEF OceanicInv, FirstPassInv
  <2>3. PICK F, Q, T : /\ Trail(list, j + 1, F, Q, T)
                       /\ F[j + 1] = E[j] /\ Q[j + 1] = P[j] /\ T[j + 1] = S[j]
    BY <1>1, <1>3, <2>2, TrailSkip
  <2>4. /\ Trail(list', j + 1, F, Q, T) /\ plan' = [end |-> F[j + 1], size |-> T[j + 1]]
        /\ remaining' = R - T[j + 1] /\ previous' = Q[j + 1]
    BY <1>1, <2>2, <2>3
  <2> QED BY <1>3, <2>4 DEF FirstPassInv
<1>5. SecondPassInv'
  <2>1. SUFFICES ASSUME pc = "dive" PROVE SecondPassInv'
    BY <1>1 DEF SecondPassInv
  <2>0. PICK w \in Nat : \E E, P, S : OnTrail(w, E, P, S)
    BY <2>1 DEF OceanicInv, SecondPassInv
  <2>2. PICK E, P, S : OnTrail(w, E, P, S)
    BY <2>0
  <2>3. j < w
    <3>1. j <= w /\ (w < Len(list) => Sound(list[w + 1]))
      BY <1>3, <2>2 DEF OnTrail
    <3> QED BY <1>1, <1>3, <3>1
  <2>4. E[j + 1] = E[j] /\ P[j + 1] = P[j] /\ S[j + 1] = S[j]
    <3>1. j + 1 \in 1 .. w /\ (j + 1) - 1 = j
      BY <2>3
    <3>2. Counted(list[j + 1], E[j], P[j], S[j], E[j + 1], P[j + 1], S[j + 1])
      BY <2>2, <3>1 DEF OnTrail, Trail
    <3> QED BY <1>1, <1>3, <3>2 DEF Counted
  <2>5. /\ Trail(list', w, E, P, S) /\ entry' - 1 <= w /\ w <= Len(list')
        /\ w < Len(list') => Sound(list'[w + 1])
        /\ plan' = [end |-> E[w], size |-> S[w]] /\ S[w] > 0
        /\ remaining' = S[w] - S[entry' - 1] /\ pos' = S[entry' - 1]
        /\ previous' = IF E[entry' - 1] = 0 THEN E[w] ELSE P[entry' - 1]
    <3>1. entry - 1 = j /\ entry' - 1 = j + 1
      BY <1>3
    <3>2. j + 1 <= w
      BY <2>3
    <3> QED BY <1>1, <2>2, <2>4, <3>1, <3>2 DEF OnTrail
  <2>6. \E v \in Nat : \E F, Q, T : OnTrail(v, F, Q, T)'
    <3>1. OnTrail(w, E, P, S)'
      BY <2>5 DEF OnTrail
    <3> QED BY <3>1
  <2>7. Len(handed') <= entry' - 1 /\ offset' = remaining' + (Len(list') - Len(handed')) * EntrySize
    <3>1. Len(handed) <= entry - 1 /\ offset = remaining + (Len(list) - Len(handed)) * EntrySize
      BY <2>1 DEF OceanicInv, SecondPassInv
    <3>2. Len(handed) \in Nat
      BY OceanicSizes DEF IsSequence
    <3> QED BY <1>1, <1>3, <3>1, <3>2
  <2> QED BY <2>6, <2>7 DEF SecondPassInv
<1>6. OceanicTypes'
  <2>1. entry' \in 1 .. Len(list) + 1
    BY <1>1, <1>3
  <2> QED BY <1>1, <1>2, <2>1 DEF OceanicInv, OceanicTypes
<1>7. StagesInv' /\ EarlyInv'
  BY <1>1 DEF OceanicInv, StagesInv, EarlyInv
<1> QED BY <1>2, <1>4, <1>5, <1>6, <1>7 DEF OceanicInv

\* The second pass meets what the first one has counted.
LEMMA TrailCounts ==
  ASSUME Oceanic!OceanicAssumption, NEW w \in Nat, NEW E, NEW P, NEW S, OnTrail(w, E, P, S),
         NEW j \in Nat, j = entry - 1, entry = j + 1, j < w, NEW e, e = list[entry], Sound(e), Ringed(e)
  PROVE  /\ Need(e, previous) \in Nat \ {0} /\ S[entry] = S[j] + Need(e, previous) /\ S[entry] <= S[w]
         /\ S[j] \in Nat /\ S[entry] \in Nat /\ S[w] \in Nat /\ E[w] \in Nat
         /\ E[entry] # 0 /\ P[entry] = e.begin /\ Back(E[w], e.begin, S[entry])
<1>1. Trail(list, w, E, P, S) /\ previous = IF E[j] = 0 THEN E[w] ELSE P[j]
  BY DEF OnTrail
<1>2. j \in 0 .. w /\ entry \in 0 .. w /\ entry \in 1 .. w /\ w \in 0 .. w
  OBVIOUS
<1>3. Counted(e, E[j], P[j], S[j], E[entry], P[entry], S[entry])
  BY <1>1, <1>2 DEF Trail
<1>4. /\ E[entry] = (IF E[j] = 0 THEN e.end ELSE E[j]) /\ P[entry] = e.begin
      /\ S[entry] = S[j] + Need(e, IF E[j] = 0 THEN e.end ELSE P[j])
  BY <1>3 DEF Counted
<1>5. e.end # 0
  BY OceanicConstants DEF Ringed
<1>6. E[entry] # 0
  BY <1>4, <1>5
<1>7. /\ E[entry] = E[w] /\ Back(E[entry], P[entry], S[entry]) /\ S[entry] <= S[w]
      /\ S[entry] \in 0 .. R /\ S[j] \in 0 .. R /\ S[w] \in 0 .. R /\ E[w] \in Nat
  <2>1. \A i \in 0 .. w :
          /\ E[i] \in Nat /\ S[i] \in 0 .. R /\ S[i] <= S[w]
          /\ E[i] # 0 => E[i] = E[w] /\ Back(E[i], P[i], S[i])
    BY <1>1, TrailAt
  <2> QED BY <1>2, <1>6, <2>1
<1>8. previous = IF E[j] = 0 THEN e.end ELSE P[j]
  BY <1>1, <1>4, <1>7
<1>9. Need(e, previous) \in Nat \ {0}
  <2>1. \A newer : newer = (IF E[j] = 0 THEN e.end ELSE P[j]) => Need(e, newer) \in Nat \ {0}
    BY <1>1, <1>2, TrailNeed
  <2> QED BY <1>8, <2>1
<1>10. S[entry] = S[j] + Need(e, previous)
  BY <1>4, <1>8
<1>11. S[j] \in Nat /\ S[entry] \in Nat /\ S[w] \in Nat
  <2>1. \A x \in 0 .. R : x \in Nat
    BY OceanicConstants
  <2> QED BY <1>7, <2>1, Zenon
<1>12. Back(E[w], e.begin, S[entry])
  BY <1>4, <1>7, Zenon
<1> QED BY <1>4, <1>6, <1>7, <1>9, <1>10, <1>11, <1>12, Zenon

\* At the end of the trail nothing is left.
LEMMA TrailEnd ==
  ASSUME Oceanic!OceanicAssumption, NEW w \in Nat, NEW E, NEW P, NEW S, OnTrail(w, E, P, S), w = entry - 1
  PROVE  /\ remaining = 0
         /\ \A e : Ringed(e) => Need(e, previous) \in Nat \ {0}
<1>1. Trail(list, w, E, P, S) /\ S[w] > 0 /\ remaining = S[w] - S[w] /\ previous = IF E[w] = 0 THEN E[w] ELSE P[w]
  BY DEF OnTrail
<1>2. S[w] \in 0 .. R /\ (E[w] = 0 => S[w] = 0) /\ w \in 0 .. w
  <2>1. w \in 0 .. w
    OBVIOUS
  <2> QED BY <1>1, <2>1, TrailAt
<1>3. E[w] # 0 /\ previous = P[w]
  BY <1>1, <1>2
<1>4. ASSUME NEW e, Ringed(e) PROVE Need(e, previous) \in Nat \ {0}
  <2>1. \A newer : newer = (IF E[w] = 0 THEN e.end ELSE P[w]) => Need(e, newer) \in Nat \ {0}
    BY <1>1, <1>2, <1>4, TrailNeed
  <2> QED BY <1>3, <2>1
<1>5. remaining = 0
  BY <1>1, <1>2
<1> QED BY <1>4, <1>5

LEMMA OceanicReadDive ==
  ASSUME Oceanic!OceanicAssumption, OceanicInv, Oceanic!ReadDive PROVE OceanicInv'
<1>1. PICK e, n : /\ e = list[entry] /\ n = Need(e, previous) /\ n <= remaining
                  /\ pc = "dive" /\ entry <= Len(list) /\ Sound(e)
                  /\ UNCHANGED Oceanic!device /\ UNCHANGED <<begin, count, nread, list, plan, maximum>>
                  /\ \/ /\ pos' = pos + n /\ current' = current + n
                        /\ remaining' = remaining - n /\ previous' = e.begin
                        /\ offset' = offset - n - EntrySize
                        /\ handed' = Append(handed,
                             [id |-> e.id, from |-> Oceanic!ringbuffer_decrement(plan.end, pos + n, PB, Oceanic!PE),
                              size |-> Oceanic!ProfileSize(e)])
                        /\ entry' = entry + 1 /\ status' = status
                        /\ pc' = (IF stopped' THEN "return" ELSE "dive")
                     \/ /\ pc' = "done" /\ status' = "IO" /\ offset' = offset - n
                        /\ UNCHANGED <<pos, current, remaining, previous, handed, entry, stopped>>
  BY DEF Oceanic!ReadDive, Oceanic!Usable, Oceanic!Fits, Sound, Need, Oceanic!logging, Oceanic!ReadFails, Oceanic!Finish
<1>2. LogbookKept' /\ book' = book /\ size' = size /\ (handed' = handed => Oceanic!OwnProfile')
  BY <1>1, LogbookStays DEF OceanicInv, Oceanic!device
<1>3. PICK j \in Nat : /\ j = entry - 1 /\ entry = j + 1 /\ entry \in 1 .. Len(list) /\ Len(list) \in Nat
                       /\ Len(list) <= L /\ remaining \in Nat /\ remaining <= R /\ current \in Nat /\ maximum \in Nat
  BY <1>1, OceanicSizes
<1>4. /\ Ringed(e) /\ Oceanic!ProfileSize(e) = size[e.id]
      /\ \E a \in DOMAIN book : e = book[a]
  BY <1>1, <1>3, EntryKnown
<1>0. PICK w \in Nat : \E E, P, S : OnTrail(w, E, P, S)
  BY <1>1 DEF OceanicInv, SecondPassInv
<1>5. PICK E, P, S : OnTrail(w, E, P, S)
  BY <1>0
<1>6. j < w
  <2>1. j <= w
    BY <1>3, <1>5 DEF OnTrail
  <2>2. ASSUME j = w PROVE FALSE
    <3>1. remaining = 0 /\ Need(e, previous) \in Nat \ {0}
      BY <1>3, <1>4, <1>5, <2>2, TrailEnd
    <3> QED BY <1>1, <3>1
  <2> QED BY <2>1, <2>2
<1>7. /\ n \in Nat \ {0} /\ S[entry] = S[j] + n /\ S[entry] <= S[w] /\ S[j] \in Nat /\ S[entry] \in Nat
      /\ S[w] \in Nat /\ E[w] \in Nat /\ E[entry] # 0 /\ P[entry] = e.begin /\ Back(E[w], e.begin, S[entry])
  BY <1>1, <1>3, <1>4, <1>5, <1>6, TrailCounts
<1>8. plan.end = E[w] /\ pos = S[j] /\ remaining = S[w] - S[j] /\ pos + n = S[entry] /\ w <= Len(list)
  BY <1>3, <1>5, <1>7 DEF OnTrail
<1>9. PICK h \in Nat : /\ h = Len(handed) /\ h <= j /\ offset = remaining + (Len(list) - h) * EntrySize
                       /\ IsSequence(handed)
  <2>1. IsSequence(handed) /\ Len(handed) \in Nat
    BY OceanicSizes DEF IsSequence
  <2> QED BY <1>1, <1>3, <2>1 DEF OceanicInv, SecondPassInv
<1>10. PICK x \in Nat, y \in Nat, z \in Nat :
         /\ x = (Len(list) - h) * EntrySize /\ y = (Len(list) - (h + 1)) * EntrySize
         /\ z = L * EntrySize /\ x = y + EntrySize /\ x <= z
  <2>1. PICK m \in Nat : m = Len(list) - (h + 1) /\ m + 1 = Len(list) - h /\ m + 1 <= L
    <3>1. /\ h \in Nat /\ j \in Nat /\ w \in Nat /\ h <= j /\ j < w /\ w <= Len(list) /\ Len(list) \in Nat
          /\ Len(list) <= L /\ L \in Nat
      BY <1>3, <1>6, <1>8, <1>9, OceanicConstants
    <3>2. /\ Len(list) - (h + 1) \in Nat /\ (Len(list) - (h + 1)) + 1 = Len(list) - h
          /\ (Len(list) - (h + 1)) + 1 <= L
      BY <3>1
    <3> QED BY <3>2, Zenon
  <2>2. /\ m * EntrySize \in Nat /\ (m + 1) * EntrySize = m * EntrySize + EntrySize
        /\ (m + 1) * EntrySize \in Nat /\ (m + 1) * EntrySize <= L * EntrySize /\ L * EntrySize \in Nat
    <3>1. m + 1 \in Nat /\ L \in Nat
      BY OceanicConstants
    <3> QED BY <2>1, <3>1, EntriesSize
  <2> QED BY <2>1, <2>2
<1>11. /\ remaining \in Nat /\ n \in Nat /\ x \in Nat /\ y \in Nat /\ z \in Nat /\ R \in Nat /\ EntrySize \in Nat
       /\ n <= remaining /\ remaining <= R /\ x = y + EntrySize /\ x <= z
  <2>1. n <= remaining /\ n \in Nat
    BY <1>1, <1>7
  <2>2. R \in Nat /\ EntrySize \in Nat
    BY OceanicConstants
  <2> QED BY <1>3, <1>10, <2>1, <2>2, Zenon
<1>12. /\ (remaining + x) - n \in 0 .. (R + z) /\ (remaining + x) - n - EntrySize = (remaining - n) + y
       /\ (remaining - n) + y \in 0 .. (R + z) /\ remaining - n \in 0 .. R
  BY <1>11
<1>13. offset = remaining + x
  BY <1>9, <1>10, Zenon
<1>14. CASE pc' = "done"
  <2>1. status' = "IO" /\ offset' = offset - n /\ UNCHANGED <<pos, current, remaining, previous, handed, entry, stopped>>
    BY <1>1, <1>14
  <2>2. offset' \in 0 .. (R + L * EntrySize)
    <3>1. offset' = (remaining + x) - n
      BY <1>13, <2>1, Zenon
    <3> QED BY <1>10, <1>12, <3>1, Zenon
  <2>3. OceanicTypes'
    BY <1>1, <1>2, <1>14, <2>1, <2>2 DEF OceanicInv, OceanicTypes
  <2>4. StagesInv' /\ EarlyInv' /\ FirstPassInv' /\ SecondPassInv'
    BY <1>14, <2>1 DEF StagesInv, EarlyInv, FirstPassInv, SecondPassInv
  <2> QED BY <1>2, <2>1, <2>3, <2>4 DEF OceanicInv
<1>15. CASE pc' # "done"
  <2> DEFINE d == [id |-> e.id, from |-> Oceanic!ringbuffer_decrement(plan.end, pos + n, PB, Oceanic!PE),
                   size |-> Oceanic!ProfileSize(e)]
  <2>1. /\ pos' = pos + n /\ current' = current + n /\ remaining' = remaining - n /\ previous' = e.begin
        /\ offset' = offset - n - EntrySize /\ entry' = entry + 1 /\ status' = status
        /\ handed' = Append(handed, d)
        /\ pc' = (IF stopped' THEN "return" ELSE "dive")
    BY <1>1, <1>15
  <2>2. /\ d.id = e.id /\ d.size = size[e.id]
        /\ d.from = Oceanic!ringbuffer_normalize(e.begin, PB, Oceanic!PE)
    <3>1. Oceanic!ringbuffer_decrement(E[w], S[entry], PB, Oceanic!PE) = Oceanic!ringbuffer_normalize(e.begin, PB, Oceanic!PE)
      BY <1>7, OceanicBack
    <3> QED BY <1>4, <1>8, <3>1
  <2> HIDE DEF d
  <2>3. /\ IsSequence(handed') /\ Len(handed') = h + 1 /\ DOMAIN handed' = 1 .. (h + 1) /\ DOMAIN handed = 1 .. h
        /\ \A i \in 1 .. h : handed'[i] = handed[i]
        /\ handed'[h + 1] = d
    <3>1. /\ IsSequence(handed') /\ Len(handed') = h + 1 /\ \A i \in 1 .. h : handed'[i] = handed[i]
          /\ handed'[h + 1] = d
      BY <1>9, <2>1, AppendFacts
    <3>2. DOMAIN handed' = 1 .. Len(handed') /\ DOMAIN handed = 1 .. Len(handed)
      BY <1>9, <3>1 DEF IsSequence
    <3> QED BY <1>9, <3>1, <3>2
  <2>4. Oceanic!OwnProfile'
    <3>1. ASSUME NEW i \in DOMAIN handed'
          PROVE  /\ handed'[i].size = size[handed'[i].id]
                 /\ \E a \in DOMAIN book :
                      /\ book[a].id = handed'[i].id
                      /\ handed'[i].from = Oceanic!ringbuffer_normalize(book[a].begin, PB, Oceanic!PE)
      <4>1. CASE i \in 1 .. h
        BY <2>3, <4>1 DEF OceanicInv, Oceanic!OwnProfile
      <4>2. CASE i = h + 1
        BY <1>4, <2>2, <2>3, <4>2
      <4> QED BY <2>3, <4>1, <4>2
    <3> QED BY <1>2, <3>1 DEF Oceanic!OwnProfile
  <2>5. /\ remaining' \in 0 .. R /\ current' \in Nat /\ offset' \in 0 .. (R + L * EntrySize)
        /\ offset' = remaining' + y
    <3>1. remaining' = remaining - n /\ current' = current + n /\ offset' = offset - n - EntrySize
      BY <2>1
    <3>2. current' \in Nat
      BY <1>3, <1>7, <3>1
    <3>3. offset' = remaining' + y /\ offset' \in 0 .. (R + z) /\ remaining' \in 0 .. R
      BY <1>12, <1>13, <3>1, Zenon
    <3> QED BY <1>10, <3>2, <3>3, Zenon
  <2>6. OceanicTypes'
    <3>1. entry' \in 1 .. Len(list) + 1
      BY <1>3, <2>1
    <3> QED BY <1>1, <1>2, <2>1, <2>3, <2>5, <3>1 DEF OceanicInv, OceanicTypes
  <2>7. StagesInv'
    <3>1. CASE stopped'
      BY <2>1, <3>1 DEF StagesInv
    <3>2. CASE ~stopped'
      <4>1. maximum = current + remaining
        BY <1>1 DEF OceanicInv, StagesInv
      <4>2. maximum' = current' + remaining'
        BY <1>1, <1>3, <1>7, <2>1, <4>1
      <4> QED BY <2>1, <3>2, <4>2 DEF StagesInv
    <3> QED BY <3>1, <3>2
  <2>8. SecondPassInv'
    <3>1. /\ Trail(list', w, E, P, S) /\ entry' - 1 <= w /\ w <= Len(list')
          /\ w < Len(list') => Sound(list'[w + 1])
          /\ plan' = [end |-> E[w], size |-> S[w]] /\ S[w] > 0
          /\ remaining' = S[w] - S[entry' - 1] /\ pos' = S[entry' - 1]
          /\ previous' = IF E[entry' - 1] = 0 THEN E[w] ELSE P[entry' - 1]
      <4>1. entry' - 1 = entry /\ entry <= w
        BY <1>3, <1>6, <2>1
      <4>2. remaining' = S[w] - S[entry] /\ pos' = S[entry] /\ previous' = P[entry]
        <5>1. remaining' = remaining - n /\ pos' = pos + n /\ previous' = e.begin
          BY <2>1
        <5>2. PICK s \in Nat, u \in Nat, v \in Nat : s = S[j] /\ u = S[entry] /\ v = S[w] /\ u = s + n
          BY <1>7
        <5> QED BY <1>7, <1>8, <5>1, <5>2
      <4>3. previous' = IF E[entry] = 0 THEN E[w] ELSE P[entry]
        BY <1>7, <4>2
      <4> QED BY <1>1, <1>5, <4>1, <4>2, <4>3 DEF OnTrail
    <3>2. OnTrail(w, E, P, S)'
      BY <3>1 DEF OnTrail
    <3>3. Len(handed') <= entry' - 1
      BY <1>3, <1>9, <2>1, <2>3
    <3>4. offset' = remaining' + (Len(list') - Len(handed')) * EntrySize
      BY <1>1, <1>10, <2>3, <2>5
    <3> QED BY <3>2, <3>3, <3>4 DEF SecondPassInv
  <2>9. EarlyInv' /\ FirstPassInv'
    BY <2>1 DEF EarlyInv, FirstPassInv
  <2> QED BY <1>2, <2>4, <2>6, <2>7, <2>8, <2>9 DEF OceanicInv
<1> QED BY <1>14, <1>15

LEMMA OceanicProfiles ==
  ASSUME Oceanic!OceanicAssumption, OceanicInv, Oceanic!Profiles PROVE OceanicInv'
<1>1. /\ pc = "dive" /\ pc' = "return" /\ UNCHANGED Oceanic!device
      /\ \/ entry > Len(list)
         \/ entry <= Len(list) /\ Sound(list[entry]) /\ ~(Need(list[entry], previous) <= remaining)
      /\ UNCHANGED <<begin, count, nread, list, plan, entry, remaining, previous, pos, offset, handed, stopped,
                     current, maximum, status>>
  BY DEF Oceanic!Profiles, Oceanic!Usable, Oceanic!Fits, Sound, Need, Oceanic!logging, Oceanic!reading, Oceanic!report
<1>2. LogbookKept' /\ Oceanic!OwnProfile' /\ book' = book
  BY <1>1, LogbookStays DEF OceanicInv, Oceanic!device
<1>3. PICK j \in Nat : j = entry - 1 /\ entry = j + 1 /\ Len(list) \in Nat /\ current \in Nat /\ remaining \in Nat
  BY OceanicSizes
<1>0. PICK w \in Nat : \E E, P, S : OnTrail(w, E, P, S)
  BY <1>1 DEF OceanicInv, SecondPassInv
<1>4. PICK E, P, S : OnTrail(w, E, P, S)
  BY <1>0
<1>5. j <= w /\ w <= Len(list) /\ remaining = S[w] - S[j]
  BY <1>3, <1>4 DEF OnTrail
<1>6. remaining = 0
  <2>1. CASE j = w
    BY <1>3, <1>4, <2>1, TrailEnd
  <2>2. CASE j < w
    <3>1. entry <= Len(list) /\ Sound(list[entry]) /\ ~(Need(list[entry], previous) <= remaining)
      BY <1>1, <1>3, <1>5, <2>2
    <3>2. Ringed(list[entry])
      <4>1. entry \in 1 .. Len(list)
        BY <1>3, <3>1
      <4> QED BY <3>1, <4>1, EntryKnown
    <3>3. PICK n \in Nat, s \in Nat, u \in Nat, v \in Nat :
            n = Need(list[entry], previous) /\ s = S[j] /\ u = S[entry] /\ v = S[w] /\ u = s + n /\ u <= v
      BY <1>3, <1>4, <2>2, <3>1, <3>2, TrailCounts
    <3> QED BY <1>5, <3>1, <3>3
  <2> QED BY <1>5, <2>1, <2>2
<1>7. StagesInv'
  <2>1. maximum = current + remaining
    BY <1>1 DEF OceanicInv, StagesInv
  <2>2. current' = maximum' /\ remaining' = 0
    BY <1>1, <1>3, <1>6, <2>1
  <2> QED BY <1>1, <2>2 DEF StagesInv
<1>8. OceanicTypes'
  BY <1>1, <1>2 DEF OceanicInv, OceanicTypes
<1>9. EarlyInv' /\ FirstPassInv' /\ SecondPassInv'
  BY <1>1 DEF EarlyInv, FirstPassInv, SecondPassInv
<1> QED BY <1>2, <1>7, <1>8, <1>9 DEF OceanicInv

LEMMA OceanicReturn ==
  ASSUME Oceanic!OceanicAssumption, OceanicInv, Oceanic!Return PROVE OceanicInv'
<1>1. /\ pc = "return" /\ pc' = "done" /\ status' \in {"DATAFORMAT", "SUCCESS"} /\ UNCHANGED Oceanic!device
      /\ UNCHANGED <<begin, count, nread, list, plan, entry, remaining, previous, pos, offset, handed, stopped,
                     current, maximum>>
  BY DEF Oceanic!Return, Oceanic!Finish, Oceanic!logging, Oceanic!reading
<1>2. LogbookKept' /\ Oceanic!OwnProfile' /\ book' = book
  BY <1>1, LogbookStays DEF OceanicInv, Oceanic!device
<1>3. OceanicTypes'
  BY <1>1, <1>2 DEF OceanicInv, OceanicTypes
<1>4. StagesInv' /\ EarlyInv' /\ FirstPassInv' /\ SecondPassInv'
  BY <1>1 DEF OceanicInv, StagesInv, EarlyInv, FirstPassInv, SecondPassInv
<1> QED BY <1>2, <1>3, <1>4 DEF OceanicInv

LEMMA OceanicStep ==
  ASSUME Oceanic!OceanicAssumption, OceanicInv, [Oceanic!Next]_Oceanic!vars PROVE OceanicInv'
<1>1. CASE Oceanic!Done \/ UNCHANGED Oceanic!vars
  <2>1. /\ UNCHANGED Oceanic!device
        /\ UNCHANGED <<pc, begin, count, nread, list, plan, entry, remaining, previous, pos, offset, handed,
                       stopped, current, maximum, status>>
    BY <1>1 DEF Oceanic!Done, Oceanic!vars, Oceanic!logging, Oceanic!reading, Oceanic!report
  <2>2. LogbookKept' /\ Oceanic!OwnProfile' /\ book' = book
    BY <2>1, LogbookStays DEF OceanicInv, Oceanic!device
  <2>3. OceanicTypes' /\ StagesInv' /\ EarlyInv'
    BY <2>1, <2>2 DEF OceanicInv, OceanicTypes, StagesInv, EarlyInv
  <2>4. FirstPassInv'
    BY <2>1 DEF OceanicInv, FirstPassInv
  <2>5. SecondPassInv'
    <3>1. \A w, E, P, S : OnTrail(w, E, P, S) => OnTrail(w, E, P, S)'
      BY <2>1 DEF OnTrail
    <3> QED BY <2>1, <3>1 DEF OceanicInv, SecondPassInv
  <2> QED BY <2>2, <2>3, <2>4, <2>5 DEF OceanicInv
<1> QED BY <1>1, OceanicOpening, OceanicLogbook, OceanicReadEntry, OceanicLogbookDone, OceanicFirstPass,
           OceanicProfile, OceanicSkip, OceanicReadDive, OceanicProfiles, OceanicReturn DEF Oceanic!Next

\* The second pass of oceanic_common_device_profile goes along the trail of
\* the first one.
THEOREM OceanicInvariance == ASSUME Oceanic!OceanicAssumption PROVE Oceanic!Spec => []OceanicInv
<1>1. Oceanic!Init => OceanicInv
  BY OceanicInit
<1>2. OceanicInv /\ [Oceanic!Next]_Oceanic!vars => OceanicInv'
  BY OceanicStep
<1> QED BY <1>1, <1>2, PTL DEF Oceanic!Spec

\* For every logbook and profile ring, the unsigned counts of oceanic_common.c
\* never wrap: neither the bytes of the ring that are left nor the room in the
\* buffer, from whose end the profiles and their entries are filled in.
THEOREM OceanicTypeCorrect == ASSUME Oceanic!OceanicAssumption PROVE Oceanic!Spec => []Oceanic!TypeOK
<1>1. OceanicInv => Oceanic!TypeOK
  BY DEF OceanicInv, OceanicTypes, Oceanic!TypeOK
<1> QED BY <1>1, OceanicInvariance, PTL

\* For every logbook and profile ring, with wrapped profiles, gaps, corrupt
\* entries and corrupt pointers, oceanic_common_device_profile hands out a
\* dive with its own bytes: the stream, which only knows how far it has walked
\* back, is at the begin of the profile of the entry, and its size is the one
\* the device has written.
THEOREM OceanicOwnProfile == ASSUME Oceanic!OceanicAssumption PROVE Oceanic!Spec => []Oceanic!OwnProfile
<1>1. OceanicInv => Oceanic!OwnProfile
  BY DEF OceanicInv
<1> QED BY <1>1, OceanicInvariance, PTL

\* The two passes agree: a download that is neither stopped nor fails has
\* read every byte that the first pass has announced, and its progress is
\* complete.
THEOREM OceanicPassesAgree == ASSUME Oceanic!OceanicAssumption PROVE Oceanic!Spec => []Oceanic!PassesAgree
<1>1. OceanicInv => Oceanic!PassesAgree
  BY DEF OceanicInv, StagesInv, Oceanic!PassesAgree
<1> QED BY <1>1, OceanicInvariance, PTL
=============================================================================
