------------------------------ MODULE RingWalk ------------------------------
(***************************************************************************)
(* What a ring buffer stream promises its callers, without packets, pages  *)
(* or a cache: the bytes of the ring in walking order from the start       *)
(* address, each exactly once per lap.  A call that succeeds returns the   *)
(* next bytes of the walk; one that fails returns nothing and may have     *)
(* moved the position by less than what was asked for.                     *)
(***************************************************************************)
EXTENDS Integers

CONSTANTS Geometries, Sizes

VARIABLES
  phase,     \* "none", "open" or "reading"
  ring,      \* [forward, begin, end, start]
  position,  \* number of bytes of the walk that are behind the stream
  want,      \* size of the call in progress
  result     \* bytes returned by the last call, empty if it failed

Nothing == [i \in {} |-> 0]

absvars == <<phase, ring, position, want, result>>

\* The address of the k-th byte of the walk: forward from the start address,
\* or backward from the byte before it.
WalkByte(r, k) ==
  LET n == r.end - r.begin
      i == IF r.forward THEN r.start - r.begin + k ELSE r.start - r.begin - 1 - k
  IN  r.begin + (i % n)

\* What a call for n bytes must return at position p: a backward stream
\* fills the caller's buffer from its end, so both are in memory order.
Slice(r, p, n) ==
  [i \in 0 .. n - 1 |-> WalkByte(r, IF r.forward THEN p + i ELSE p + (n - 1 - i))]

Open ==
  /\ phase = "none"
  /\ phase' = "open" /\ ring' \in Geometries /\ position' = 0
  /\ want' = 0 /\ result' = Nothing

Call(n) ==
  /\ phase = "open"
  /\ phase' = "reading" /\ want' = n /\ result' = Nothing
  /\ UNCHANGED <<ring, position>>

Succeed ==
  /\ phase = "reading"
  /\ phase' = "open"
  /\ result' = Slice(ring, position, want)
  /\ position' = position + want
  /\ UNCHANGED <<ring, want>>

Fail ==
  /\ phase = "reading"
  /\ phase' = "open"
  /\ \E k \in 0 .. want - 1 : position' = position + k
  /\ UNCHANGED <<ring, want, result>>

Close ==
  /\ phase = "open"
  /\ phase' = "none" /\ position' = 0 /\ want' = 0 /\ result' = Nothing
  /\ ring' \in Geometries

Init ==
  /\ phase = "none" /\ ring \in Geometries
  /\ position = 0 /\ want = 0 /\ result = Nothing

Next ==
  \/ Open
  \/ \E n \in Sizes : Call(n)
  \/ Succeed
  \/ Fail
  \/ Close

Spec == Init /\ [][Next]_absvars
=============================================================================
