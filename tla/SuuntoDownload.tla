-------------------------- MODULE SuuntoDownload --------------------------
(***************************************************************************)
(* Downloading the dives of a Suunto D9 or Vyper 2 (suunto_common2.c).  The*)
(* dives lie one after the other in a ring, each with a pointer to the     *)
(* previous and to the next one, and are read backward from the end: the   *)
(* size of a dive is known from the pointers before it is read.  An        *)
(* incomplete dive points to itself as the next one; it is skipped, and    *)
(* the download fails in the end.                                          *)
(*                                                                         *)
(* A read of the stream takes the next addresses of the walk of RingWalk,  *)
(* which RbStream implements.  A unit is two bytes: each pointer takes one.*)
(* The device is external; its pointers are right, or, if Corrupt, anything.*)
(***************************************************************************)
EXTENDS Integers, Sequences, SequencesExt, FiniteSets, Ringbuffer

CONSTANTS
  PB, R,       \* the ring: its begin and its size
  MaxDives,    \* bound: dives in the ring
  Corrupt      \* the pointers in the memory are anything

SuuntoAssumption == PB \in Nat \ {0} /\ R \in Nat \ {0} /\ MaxDives \in Nat /\ Corrupt \in BOOLEAN

PE == PB + R
SZ_POINTERS == 2
SZ_SERIAL == 4
SZ_MEMORY_HEADER == 4

VARIABLES
  dives,                     \* the device: the dives, newest first
  begin, end, last, count,   \* the pointers in its memory header
  fingerprint,               \* the dive with the fingerprint, 0 for none
  pc, failed,                \* the driver; failed: a delayed error
  at, previous, offset,      \* the dive to read, the end of it, and what is left to read
  pos,                       \* where the stream is
  prev, next,                \* the pointers of the dive that was read
  info, current, maximum, delivered, stopped, status

device   == <<dives, begin, end, last, count, fingerprint>>
progress == <<current, maximum>>
report   == <<info, delivered, stopped, status>>
vars     == <<device, pc, failed, at, previous, offset, pos, prev, next, progress, report>>

-----------------------------------------------------------------------------
Addresses == PB .. PE - 1
Pointers  == Addresses \cup {PB - 1, PE}

\* All ways to put dives into the ring behind one another.
Sizes == {s \in UNION {[1 .. n -> SZ_POINTERS .. R] : n \in 0 .. MaxDives} :
            FoldLeft(LAMBDA a, b : a + b, 0, s) <= R}

\* Dives of the given sizes, newest first, the newest one up to address e.
Placed(s, e, incomplete) ==
  LET Behind(k) == FoldLeft(LAMBDA a, b : a + b, 0, SubSeq(s, 1, k))
  IN  [k \in DOMAIN s |->
         [start |-> ringbuffer_decrement(e, Behind(k), PB, PE), size |-> s[k],
          complete |-> k # incomplete]]

Known == fingerprint \in DOMAIN dives

Init ==
  /\ \E s \in Sizes, e \in Addresses :
       \E incomplete \in 0 .. Len(s) :
          /\ dives = Placed(s, e, incomplete)
          /\ end = e /\ count = Len(s)
          /\ begin = IF s = <<>> THEN e ELSE dives[Len(s)].start
          /\ last = IF s = <<>> THEN e ELSE dives[1].start
  /\ fingerprint \in 0 .. Len(dives)
  /\ Known => dives[fingerprint].complete
  /\ pc = "idle" /\ failed = FALSE /\ at = 0 /\ previous = 0 /\ offset = 0 /\ pos = 0 /\ prev = 0 /\ next = 0
  /\ info = FALSE /\ current = 0 /\ maximum = 0
  /\ delivered = <<>> /\ stopped = FALSE /\ status = "none"

\* The pointers of the dive at an address of the memory.
PointersAt(a) ==
  LET k == CHOOSE k \in DOMAIN dives : dives[k].start = a
      n == IF k = 1 THEN end ELSE dives[k - 1].start
  IN  [prev |-> IF k = Len(dives) THEN dives[k].start ELSE dives[k + 1].start,
       next |-> IF dives[k].complete THEN n ELSE a]

-----------------------------------------------------------------------------
Finish(s) == pc' = "done" /\ status' = s

InRing(p) == p \in Addresses

Foreach ==
  /\ pc = "idle" /\ pc' = "serial"
  /\ maximum' = R + SZ_MEMORY_HEADER + SZ_SERIAL
  /\ UNCHANGED <<device, failed, at, previous, offset, pos, prev, next, current, report>>

ReadSerial ==
  /\ pc = "serial" /\ pc' = "header"
  /\ current' = current + SZ_SERIAL /\ info' = TRUE
  /\ UNCHANGED <<device, failed, at, previous, offset, pos, prev, next, maximum, delivered, stopped, status>>

\* Mutant: a full ring is taken for an empty one.
Remaining_Empty(b, e, n) ==
  IF ~InRing(b) THEN R ELSE ringbuffer_distance(b, e, DC_RINGBUFFER_EMPTY, PB, PE)

\* With an invalid begin pointer the whole ring is downloaded.
Remaining(b, e, n) ==
  IF ~InRing(b) THEN R
  ELSE ringbuffer_distance(b, e, IF n > 0 THEN DC_RINGBUFFER_FULL ELSE DC_RINGBUFFER_EMPTY, PB, PE)

HeaderPointers ==
  IF Corrupt THEN [begin : Pointers, end : Pointers, last : Pointers, count : 0 .. 1]
             ELSE {[begin |-> begin, end |-> end, last |-> last, count |-> count]}

ReadHeader ==
  /\ pc = "header"
  /\ \E h \in HeaderPointers :
       IF InRing(h.last) /\ InRing(h.end)
         THEN LET n == Remaining(h.begin, h.end, h.count)
              IN  /\ offset' = n /\ maximum' = maximum - (R - n)
                  /\ current' = current + SZ_MEMORY_HEADER
                  /\ at' = h.last /\ previous' = h.end /\ pos' = h.end
                  /\ pc' = "read" /\ UNCHANGED status
         ELSE Finish("DATAFORMAT") /\ UNCHANGED <<offset, progress, at, previous, pos>>
  /\ UNCHANGED <<device, failed, prev, next, info, delivered, stopped>>

DiveSize == ringbuffer_distance(at, previous, DC_RINGBUFFER_FULL, PB, PE)

SizeFits(n) == n >= SZ_POINTERS /\ n <= offset

\* Mutant: the loop goes on after a bad size.
BadSize_Continue ==
  pc = "read" /\ offset > 0 /\ ~SizeFits(DiveSize) /\ UNCHANGED vars

BadSize ==
  /\ pc = "read" /\ offset > 0 /\ ~SizeFits(DiveSize)
  /\ Finish("DATAFORMAT")
  /\ UNCHANGED <<device, failed, at, previous, offset, pos, prev, next, progress, info, delivered, stopped>>

\* The dive that was read: what the stream has come past, and its pointers.
PointersRead(a) == IF Corrupt THEN [prev : Pointers, next : Pointers] ELSE {PointersAt(a)}

Continuous(n) == n \in {previous, at}

\* One dive is read and its pointers are checked.
ReadDive ==
  LET a == ringbuffer_decrement(pos, DiveSize, PB, PE)
  IN  /\ pc = "read" /\ offset > 0 /\ SizeFits(DiveSize)
      /\ offset' = offset - DiveSize /\ current' = current + DiveSize
      /\ pos' = a
      /\ \E r \in PointersRead(a) :
           /\ prev' = r.prev /\ next' = r.next
           /\ IF InRing(r.prev) /\ InRing(r.next) /\ Continuous(r.next)
                THEN pc' = "dive" /\ UNCHANGED status
                ELSE Finish("DATAFORMAT")
      /\ UNCHANGED <<device, failed, at, previous, maximum, info, delivered, stopped>>

FingerprintAt(a) == Known /\ dives[fingerprint].start = a

\* Mutant: the next pointer of the dive is taken for its begin.
Advance_Next == at' = prev /\ previous' = next

Advance == at' = prev /\ previous' = at

Extent == [start |-> at, size |-> DiveSize]

\* The dive is handed out, unless it is the one with the fingerprint.
HandOut ==
  /\ pc = "dive" /\ next # at
  /\ IF FingerprintAt(at)
       THEN Finish("SUCCESS") /\ UNCHANGED <<at, previous, delivered, stopped>>
       ELSE /\ delivered' = Append(delivered, Extent)
            /\ stopped' \in BOOLEAN
            /\ pc' = IF stopped' THEN "stop" ELSE "read"
            /\ Advance /\ UNCHANGED status
  /\ UNCHANGED <<device, failed, offset, pos, prev, next, progress, info>>

\* An incomplete dive is skipped.
SkipDive ==
  /\ pc = "dive" /\ next = at
  /\ failed' = TRUE /\ pc' = "read" /\ Advance
  /\ UNCHANGED <<device, offset, pos, prev, next, progress, report>>

Return ==
  /\ \/ pc = "stop" /\ Finish("SUCCESS")
     \/ pc = "read" /\ offset = 0 /\ Finish(IF failed THEN "DATAFORMAT" ELSE "SUCCESS")
  /\ UNCHANGED <<device, failed, at, previous, offset, pos, prev, next, progress, info, delivered, stopped>>

\* A transfer fails, or the application has cancelled the download.
ReadFails ==
  /\ pc \in {"serial", "header"} \/ (pc = "read" /\ offset > 0 /\ SizeFits(DiveSize))
  /\ \E s \in {"TIMEOUT", "CANCELLED"} : Finish(s)
  /\ UNCHANGED <<device, failed, at, previous, offset, pos, prev, next, progress, info, delivered, stopped>>

Finished == pc = "done" /\ UNCHANGED vars

Next ==
  \/ Foreach
  \/ ReadSerial
  \/ ReadHeader
  \/ BadSize
  \/ ReadDive
  \/ HandOut
  \/ SkipDive
  \/ Return
  \/ ReadFails
  \/ Finished

\* The loop of suunto_common2_device_foreach goes on until it returns.
Spec == Init /\ [][Next]_vars /\ WF_vars(Next)

-----------------------------------------------------------------------------
TypeOK ==
  /\ pc \in {"idle", "serial", "header", "read", "dive", "stop", "done"}
  /\ offset \in 0 .. R
  /\ pc \in {"read", "dive"} => InRing(pos) /\ InRing(at) /\ InRing(previous)
  /\ status \in {"none", "SUCCESS", "DATAFORMAT", "TIMEOUT", "CANCELLED"}

\* Whatever the memory holds: the stream is always where the pointers say the
\* dive ends that is read next, so that a dive is never put together from the
\* bytes of two, and no more is read than the progress has announced.
InStep ==
  /\ pc = "read" => pos = previous
  /\ pc = "dive" => pos = at
  /\ pc \in {"read", "dive", "done"} => current <= maximum

Phase == CASE pc = "idle" -> "idle" [] pc = "done" -> "done" [] OTHER -> "running"

\* The complete dives newer than the one with the fingerprint.
Log ==
  LET new == IF Known THEN SubSeq(dives, 1, fingerprint - 1) ELSE dives
      ok  == SelectSeq(new, LAMBDA d : d.complete)
  IN  [k \in DOMAIN ok |-> [start |-> ok[k].start, size |-> ok[k].size]]

Download == INSTANCE DiveDownload WITH phase <- Phase, log <- Log

\* With a sound memory: the complete dives are handed out newest first, each
\* with its own bytes, up to the fingerprint, across the wrap of the ring and
\* with a ring that is exactly full; success only if that was all.
DownloadSpec == Download!Spec
=============================================================================
