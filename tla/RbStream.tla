------------------------------ MODULE RbStream ------------------------------
(***************************************************************************)
(* The ring buffer stream (rbstream.c).                                    *)
(*                                                                         *)
(* A dive computer keeps its dives in a circular area of its memory, from  *)
(* `begin' up to and excluding `end'.  The stream reads that area in       *)
(* packets, page aligned, forward from or backward to an arbitrary start   *)
(* address, and hands the bytes to the caller in the sizes it asks for;    *)
(* what a packet holds beyond the request stays in a cache for the next    *)
(* call.  A packet that would cross the wrap point is shortened, but the   *)
(* device is still asked for a whole packet.                               *)
(*                                                                         *)
(* The byte at address a of the device memory is modelled by a itself, so  *)
(* a buffer records where each of its bytes came from.  Unsigned int does  *)
(* not wrap here: all addresses are below 2^31.                            *)
(***************************************************************************)
EXTENDS Integers

CONSTANTS
  PageSizes,    \* page sizes a driver may pass to dc_rbstream_new
  PacketSizes,  \* packet sizes it may pass
  Addresses,    \* begin, end and start addresses it may pass
  Sizes,        \* sizes a caller of dc_rbstream_read may ask for
  MaxConsumed   \* bound: total number of bytes the callers ask for

ASSUME ConstantsAssumption ==
  /\ PageSizes \subseteq Nat
  /\ PacketSizes \subseteq Nat
  /\ Addresses \subseteq Nat
  /\ Sizes \subseteq Nat
  /\ MaxConsumed \in Nat

VARIABLES
  pc,         \* "none": no stream, "open": idle, "reading": in dc_rbstream_read
  direction, pagesize, packetsize, begin, end,   \* fixed by dc_rbstream_new
  address, offset, available, skip, cache,       \* moved by dc_rbstream_read
  size, nbytes, data,                            \* the call in progress
  start,      \* history: the address the stream was created at
  consumed    \* bytes copied out so far, what progress->current advanced by

config == <<direction, pagesize, packetsize, begin, end, start>>
stream == <<address, offset, available, skip, cache>>
call   == <<size, nbytes, data>>
vars   == <<pc, config, stream, call, consumed>>

Forward  == "DC_RBSTREAM_FORWARD"
Backward == "DC_RBSTREAM_BACKWARD"

ringsize == end - begin

EmptyBuffer == [i \in {} |-> 0]

Minimum(a, b) == IF a < b THEN a ELSE b

ifloor(x, n) == (x \div n) * n

iceil(x, n) == ((x + n - 1) \div n) * n

(***************************************************************************)
(* dc_rbstream_new: every check, then the aligned start and the number of  *)
(* bytes of the first packet to skip.                                      *)
(***************************************************************************)
\* Mutant: without the check that a packet is a number of whole pages.
ValidArgs_AnyPacket(ps, ks, b, e, a) ==
  /\ ps # 0 /\ ks # 0
  /\ b % ps = 0 /\ e % ps = 0
  /\ b <= e /\ ks <= e - b /\ b <= a /\ a <= e

ValidArgs(ps, ks, b, e, a) ==
  /\ ps # 0 /\ ks # 0
  /\ ks % ps = 0
  /\ b % ps = 0 /\ e % ps = 0
  /\ b <= e
  /\ ks <= e - b
  /\ b <= a /\ a <= e

New(ps, ks, b, e, a, d) ==
  /\ pc = "none"
  /\ ValidArgs(ps, ks, b, e, a)
  /\ pc' = "open"
  /\ direction' = d /\ pagesize' = ps /\ packetsize' = ks
  /\ begin' = b /\ end' = e /\ start' = a
  /\ IF d = Forward
       THEN /\ address' = ifloor(a, ps)
            /\ skip' = a - ifloor(a, ps)
       ELSE /\ address' = iceil(a, ps)
            /\ skip' = iceil(a, ps) - a
  /\ offset' = 0 /\ available' = 0
  /\ cache' = EmptyBuffer
  /\ consumed' = 0
  /\ UNCHANGED call

(***************************************************************************)
(* dc_rbstream_read: the call, then the iterations of its loop.            *)
(***************************************************************************)
Read(n) ==
  /\ pc = "open"
  /\ consumed + n <= MaxConsumed
  /\ size' = n /\ nbytes' = 0 /\ data' = EmptyBuffer
  /\ pc' = "reading"
  /\ UNCHANGED <<config, stream, consumed>>

\* The wrap point: where the next packet starts (forward) or ends (backward).
Wrapped ==
  IF direction = Forward
    THEN IF address = end THEN begin ELSE address
    ELSE IF address = begin THEN end ELSE address

\* The part of the next packet that lies before the wrap point.
PacketLen ==
  IF direction = Forward
    THEN IF Wrapped + packetsize > end THEN end - Wrapped ELSE packetsize
    ELSE IF begin + packetsize > Wrapped THEN Wrapped - begin ELSE packetsize

\* Mutant: the request for a shortened packet is not moved back.
ReadAddress_NotMovedBack ==
  IF direction = Forward THEN Wrapped ELSE Wrapped - PacketLen

\* The first address the device is asked for: always a whole packet from there.
ReadAddress ==
  IF direction = Forward
    THEN Wrapped - (packetsize - PacketLen)
    ELSE Wrapped - PacketLen

\* Mutant: the bytes to skip are skipped in every packet.
Fill_KeepsSkip ==
  /\ pc = "reading" /\ nbytes < size /\ available = 0
  /\ cache' = [i \in 0 .. packetsize - 1 |-> ReadAddress + i]
  /\ available' = PacketLen - skip
  /\ IF direction = Forward
       THEN address' = Wrapped + PacketLen /\ offset' = (packetsize - PacketLen) + skip
       ELSE address' = Wrapped - PacketLen /\ UNCHANGED offset
  /\ UNCHANGED <<pc, config, call, consumed, skip>>

\* dc_device_read succeeds: a packet is in the cache.
Fill ==
  /\ pc = "reading" /\ nbytes < size /\ available = 0
  /\ cache' = [i \in 0 .. packetsize - 1 |-> ReadAddress + i]
  /\ available' = PacketLen - skip
  /\ skip' = 0
  /\ IF direction = Forward
       THEN /\ address' = Wrapped + PacketLen
            /\ offset' = (packetsize - PacketLen) + skip
       ELSE /\ address' = Wrapped - PacketLen
            /\ UNCHANGED offset
  /\ UNCHANGED <<pc, config, call, consumed>>

\* dc_device_read fails: the call returns its status, the wrap stays done.
FillFails ==
  /\ pc = "reading" /\ nbytes < size /\ available = 0
  /\ address' = Wrapped
  /\ pc' = "open"
  /\ UNCHANGED <<config, offset, available, skip, cache, call, consumed>>

\* Mutants: the length is not limited to the request; only even lengths are
\* copied; a backward copy takes the head of the unread part.
CopyLen_Unlimited == available

CopyLen_Even == 2 * (Minimum(available, size - nbytes) \div 2)

CopyFrom_Head == IF direction = Forward THEN offset ELSE 0

\* The memcpy of one iteration and its progress event.
CopyLen == Minimum(available, size - nbytes)

CopyFrom ==
  IF direction = Forward THEN offset ELSE available - CopyLen

CopyTo ==
  IF direction = Forward THEN nbytes ELSE size - nbytes - CopyLen

Copy ==
  /\ pc = "reading" /\ nbytes < size /\ available # 0
  /\ data' = [i \in (DOMAIN data) \cup (CopyTo .. CopyTo + CopyLen - 1) |->
                IF i \in CopyTo .. CopyTo + CopyLen - 1
                  THEN cache[CopyFrom + (i - CopyTo)]
                  ELSE data[i]]
  /\ available' = available - CopyLen
  /\ offset' = IF direction = Forward THEN offset + CopyLen ELSE offset
  /\ nbytes' = nbytes + CopyLen
  /\ consumed' = consumed + CopyLen
  /\ UNCHANGED <<pc, config, address, skip, cache, size>>

Return ==
  /\ pc = "reading" /\ nbytes >= size
  /\ pc' = "open"
  /\ UNCHANGED <<config, stream, call, consumed>>

\* No stream is allocated: the fields hold nothing.
Init ==
  /\ pc = "none"
  /\ direction = Forward /\ pagesize = 1 /\ packetsize = 1
  /\ begin = 0 /\ end = 1 /\ start = 0
  /\ address = 0 /\ offset = 0 /\ available = 0 /\ skip = 0 /\ cache = EmptyBuffer
  /\ size = 0 /\ nbytes = 0 /\ data = EmptyBuffer
  /\ consumed = 0

\* dc_rbstream_free
Free ==
  /\ pc = "open"
  /\ pc' = "none"
  /\ direction' = Forward /\ pagesize' = 1 /\ packetsize' = 1
  /\ begin' = 0 /\ end' = 1 /\ start' = 0
  /\ address' = 0 /\ offset' = 0 /\ available' = 0 /\ skip' = 0 /\ cache' = EmptyBuffer
  /\ size' = 0 /\ nbytes' = 0 /\ data' = EmptyBuffer
  /\ consumed' = 0

Next ==
  \/ \E ps \in PageSizes, ks \in PacketSizes, b, e, a \in Addresses,
       d \in {Forward, Backward} : New(ps, ks, b, e, a, d)
  \/ \E n \in Sizes : Read(n)
  \/ Fill
  \/ FillFails
  \/ Copy
  \/ Return
  \/ Free

Spec == Init /\ [][Next]_vars

(***************************************************************************)
(* A call runs in the caller's thread until it returns, and the device     *)
(* read it waits for succeeds or fails: the loop body never blocks.        *)
(***************************************************************************)
FairSpec == Spec /\ WF_vars(Fill \/ FillFails) /\ WF_vars(Copy) /\ WF_vars(Return)

-----------------------------------------------------------------------------
(***************************************************************************)
(* Properties.                                                             *)
(***************************************************************************)

TypeOK ==
  /\ pc \in {"none", "open", "reading"}
  /\ direction \in {Forward, Backward}
  /\ pagesize \in Nat \ {0} /\ packetsize \in Nat \ {0}
  /\ begin \in Nat /\ end \in Nat /\ start \in Nat
  /\ address \in Nat /\ offset \in Nat /\ available \in Nat /\ skip \in Nat
  /\ size \in Nat /\ nbytes \in Nat /\ consumed \in Nat
  /\ DOMAIN cache \in {{}, 0 .. packetsize - 1}

\* dc_device_read is only ever asked for whole packets inside the ring
\* buffer, also next to the wrap point, where the packet is shortened and
\* the request moved back (rbstream.c:167, 216).
ReadsStayInRing ==
  pc = "reading" /\ available = 0 =>
    begin <= ReadAddress /\ ReadAddress + packetsize <= end

\* The subtraction len - skip of an unaligned start never wraps around, and
\* a packet always yields at least one byte, so the read loop advances.
EveryPacketYields ==
  pc = "reading" /\ available = 0 => skip < PacketLen

\* The memcpy of each iteration reads bytes of the packet in the cache and
\* writes inside the caller's buffer.
CopyInBounds ==
  pc = "reading" /\ nbytes < size /\ available # 0 =>
    /\ CopyFrom \in DOMAIN cache /\ CopyFrom + CopyLen - 1 \in DOMAIN cache
    /\ 0 <= CopyTo /\ CopyTo + CopyLen <= size

(***************************************************************************)
(* The stream implements the walk of RingWalk: what the callers get is the *)
(* ring in walking order whatever the packet size, the alignment of the    *)
(* start address and the sizes asked for, and a failed call loses at most  *)
(* the bytes it had already copied.                                        *)
(***************************************************************************)
Geometry(d, b, e, a) == [forward |-> d = Forward, begin |-> b, end |-> e, start |-> a]

Walk == INSTANCE RingWalk WITH
  Geometries <- [forward : BOOLEAN, begin : Addresses \cup {0},
                 end : Addresses \cup {1}, start : Addresses \cup {0}],
  phase      <- pc,
  ring       <- IF pc = "none" THEN Geometry(Forward, 0, 1, 0)
                ELSE Geometry(direction, begin, end, start),
  position   <- IF pc = "reading" THEN consumed - nbytes ELSE consumed,
  want       <- size,
  result     <- IF pc = "open" /\ nbytes = size THEN data ELSE EmptyBuffer

WalkSpec == Walk!Spec

(***************************************************************************)
(* The inductive invariant behind the properties above.                    *)
(***************************************************************************)

Aligned(x, p) == x % p = 0

\* The checks of dc_rbstream_new hold as long as the stream lives.
GeometryInv ==
  /\ Aligned(packetsize, pagesize) /\ Aligned(begin, pagesize) /\ Aligned(end, pagesize)
  /\ packetsize <= end - begin
  /\ begin <= start /\ start <= end

\* The packet boundary is page aligned and in the ring; skip is only set
\* before the first packet.
PositionInv ==
  /\ begin <= address /\ address <= end /\ Aligned(address, pagesize)
  /\ skip < pagesize
  /\ available > 0 => skip = 0

\* The cache holds the packet next to `address', and its unread part is the
\* tail of the packet (forward) or its head (backward).
CacheInv ==
  available > 0 =>
    IF direction = Forward
      THEN /\ offset + available = packetsize
           /\ begin + available <= address
           /\ cache = [i \in 0 .. packetsize - 1 |-> (address - packetsize) + i]
      ELSE /\ available <= packetsize
           /\ address + available <= end
           /\ cache = [i \in 0 .. packetsize - 1 |-> address + i]

\* The address the next byte handed out lies at (forward) or before (backward).
Cursor ==
  IF direction = Forward THEN (address - available) + skip
                         ELSE (address + available) - skip

\* The stream is where the walk is, up to whole laps.
CursorInv ==
  (Cursor - begin) % ringsize =
    (IF direction = Forward THEN (start - begin) + consumed
                            ELSE (start - begin) - consumed) % ringsize

\* The walk's byte number k, and the part of the caller's buffer filled so far.
RingByte(k) == Walk!WalkByte(Geometry(direction, begin, end, start), k)

DataInv ==
  /\ nbytes <= size /\ nbytes <= consumed
  /\ pc = "none" => nbytes = 0 /\ size = 0 /\ available = 0 /\ consumed = 0
  /\ data = IF direction = Forward
              THEN [i \in 0 .. nbytes - 1 |-> RingByte((consumed - nbytes) + i)]
              ELSE [i \in size - nbytes .. size - 1 |->
                      RingByte((consumed - nbytes) + (size - 1 - i))]

IInv == TypeOK /\ GeometryInv /\ PositionInv /\ CacheInv /\ CursorInv /\ DataInv

\* Every call of dc_rbstream_read returns.
ReadReturns == pc = "reading" ~> pc # "reading"
=============================================================================
