----------------------------- MODULE Ringbuffer -----------------------------
(***************************************************************************)
(* Arithmetic on the addresses of a ring buffer (ringbuffer.c).  C's       *)
(* unsigned operands make the code compare before it subtracts; n is the   *)
(* size of the ring, and addresses need not be inside it.                  *)
(***************************************************************************)
EXTENDS Integers

\* m ? n - m : m
LapRest(m, n) == IF m = 0 THEN 0 ELSE n - m

modulo(x, n, d) ==
  (IF d > x THEN LapRest((d - x) % n, n) ELSE (x - d) % n) + d

DC_RINGBUFFER_EMPTY == 0
DC_RINGBUFFER_FULL  == 1

distance(a, b, n, mode) ==
  LET result == IF a > b THEN LapRest((a - b) % n, n) ELSE (b - a) % n
  IN  IF result = 0 THEN (IF mode = 0 THEN 0 ELSE n) ELSE result

ringbuffer_normalize(a, begin, end) == modulo(a, end - begin, begin)

ringbuffer_distance(a, b, mode, begin, end) == distance(a, b, end - begin, mode)

ringbuffer_increment(a, delta, begin, end) ==
  modulo(a + (delta % (end - begin)), end - begin, begin)

ringbuffer_decrement(a, delta, begin, end) ==
  modulo(a + (end - begin) - (delta % (end - begin)), end - begin, begin)
=============================================================================
