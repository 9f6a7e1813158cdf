------------------------------- MODULE Packet -------------------------------
(***************************************************************************)
(* The packet layer (packet.c): turns a transport that delivers packets    *)
(* (BLE notifications, USB HID reports) into a byte stream.  Reads go      *)
(* through a cache of one packet, writes are cut into packets of at most   *)
(* osize bytes.  With isize = 0 reads are passed on without a cache, with  *)
(* osize = 0 writes are not cut.                                           *)
(*                                                                         *)
(* The transport below is external: a read returns the next packet that    *)
(* has arrived (cut to the size asked for, the rest comes with the next    *)
(* read), or fails; a write takes some of the bytes, or fails.             *)
(***************************************************************************)
EXTENDS Integers, Sequences, SequencesExt

CONSTANTS
  ISizes, OSizes,   \* values of isize and osize
  PacketLens,       \* lengths of the packets that arrive; 0 is an empty one
  Sizes,            \* sizes of the calls
  MaxArrived,       \* bound: number of bytes that arrive
  MaxEmpty,         \* bound: number of empty packets that arrive
  MaxWritten        \* bound: number of bytes the caller writes

PacketAssumption ==
  /\ ISizes \subseteq Nat /\ OSizes \subseteq Nat /\ PacketLens \subseteq Nat
  /\ Sizes \subseteq Nat /\ MaxArrived \in Nat /\ MaxEmpty \in Nat /\ MaxWritten \in Nat

VARIABLES
  isize, osize, cache,      \* cache: the `available' bytes from `offset' on
  pending,                  \* packets that have arrived below
  arrived, empties,         \* numbers of bytes and of empty packets that have arrived
  lost, got,                \* history: the bytes purged and the bytes handed out
  pc, size, nbytes, status, \* the call in progress and what the last one returned
  wire, written             \* packets written below; bytes the caller has written

opened  == <<isize, osize>>
input   == <<cache, pending, arrived, empties, lost, got>>
output  == <<wire, written>>
vars    == <<opened, input, pc, size, nbytes, status, output>>

Init ==
  /\ isize \in ISizes /\ osize \in OSizes
  /\ cache = <<>> /\ pending = <<>> /\ arrived = 0 /\ empties = 0 /\ lost = {} /\ got = <<>>
  /\ pc = "idle" /\ size = 0 /\ nbytes = 0 /\ status = "SUCCESS"
  /\ wire = <<>> /\ written = 0

\* Bytes are numbered in the order in which they arrive.
Arrive(n) ==
  /\ arrived + n <= MaxArrived
  /\ empties' = IF n = 0 THEN empties + 1 ELSE empties
  /\ empties' <= MaxEmpty
  /\ pending' = Append(pending, [i \in 1 .. n |-> arrived + i])
  /\ arrived' = arrived + n
  /\ UNCHANGED <<opened, cache, lost, got, pc, size, nbytes, status, output>>

Read(n) ==
  /\ pc = "idle"
  /\ pc' = "read" /\ size' = n /\ nbytes' = 0 /\ status' = "SUCCESS"
  /\ UNCHANGED <<opened, input, output>>

\* What a read of at most n bytes below returns, and what it leaves.
Below(n)  == SubSeq(Head(pending), 1, IF n < Len(Head(pending)) THEN n ELSE Len(Head(pending)))
Beyond(n) == IF n < Len(Head(pending))
               THEN <<SubSeq(Head(pending), n + 1, Len(Head(pending)))>> \o Tail(pending)
               ELSE Tail(pending)

Looping == pc = "read" /\ nbytes < size

\* Mutant: a packet is read whole, whatever the size of the cache.
Fill_WholePacket ==
  /\ Looping /\ isize # 0 /\ cache = <<>> /\ pending # <<>>
  /\ cache' = Head(pending) /\ pending' = Tail(pending)
  /\ UNCHANGED <<opened, arrived, empties, lost, got, pc, size, nbytes, status, output>>

\* dc_packet_read: a packet into the cache, ...
Fill ==
  /\ Looping /\ isize # 0 /\ cache = <<>> /\ pending # <<>>
  /\ cache' = Below(isize) /\ pending' = Beyond(isize)
  /\ UNCHANGED <<opened, arrived, empties, lost, got, pc, size, nbytes, status, output>>

\* Mutant: the cache is emptied by every copy.
CopyOut_DropsRest ==
  /\ Looping /\ isize # 0 /\ cache # <<>>
  /\ LET n == IF size - nbytes < Len(cache) THEN size - nbytes ELSE Len(cache)
     IN  /\ got' = got \o SubSeq(cache, 1, n)
         /\ cache' = <<>>
         /\ nbytes' = nbytes + n
  /\ UNCHANGED <<opened, pending, arrived, empties, lost, pc, size, status, output>>

\* Mutant: waits for the cache to hold all that is asked for.
CopyOut_AllOrNothing ==
  /\ Looping /\ isize # 0 /\ cache # <<>>
  /\ LET n == IF size - nbytes <= Len(cache) THEN size - nbytes ELSE 0
     IN  /\ got' = got \o SubSeq(cache, 1, n)
         /\ cache' = SubSeq(cache, n + 1, Len(cache))
         /\ nbytes' = nbytes + n
  /\ UNCHANGED <<opened, pending, arrived, empties, lost, pc, size, status, output>>

\* ... from the cache to the caller, ...
CopyOut ==
  /\ Looping /\ isize # 0 /\ cache # <<>>
  /\ LET n == IF size - nbytes < Len(cache) THEN size - nbytes ELSE Len(cache)
     IN  /\ got' = got \o SubSeq(cache, 1, n)
         /\ cache' = SubSeq(cache, n + 1, Len(cache))
         /\ nbytes' = nbytes + n
  /\ UNCHANGED <<opened, pending, arrived, empties, lost, pc, size, status, output>>

\* ... or straight to the caller.
ReadThrough ==
  /\ Looping /\ isize = 0 /\ pending # <<>>
  /\ got' = got \o Below(size - nbytes)
  /\ nbytes' = nbytes + Len(Below(size - nbytes))
  /\ pending' = Beyond(size - nbytes)
  /\ UNCHANGED <<opened, cache, arrived, empties, lost, pc, size, status, output>>

\* The read below times out or fails: the call reports what it has so far.
ReadFails ==
  /\ Looping /\ (isize = 0 \/ cache = <<>>)
  /\ pc' = "idle" /\ status' = "FAILED"
  /\ UNCHANGED <<opened, input, size, nbytes, output>>

Write(n) ==
  /\ pc = "idle" /\ written + n <= MaxWritten
  /\ pc' = "write" /\ size' = n /\ nbytes' = 0 /\ status' = "SUCCESS"
  /\ UNCHANGED <<opened, input, output>>

\* Mutant: the limit is that of the reads.
PacketSize_Isize ==
  IF isize # 0 /\ size - nbytes > isize THEN isize ELSE size - nbytes

PacketSize ==
  IF osize # 0 /\ size - nbytes > osize THEN osize ELSE size - nbytes

\* The transport takes n bytes of the packet.
WritePacket(n) ==
  /\ pc = "write" /\ nbytes < size
  /\ wire' = Append(wire, [i \in 1 .. n |-> written + i])
  /\ written' = written + n /\ nbytes' = nbytes + n
  /\ UNCHANGED <<opened, input, pc, size, status>>

WriteFails ==
  /\ pc = "write" /\ nbytes < size
  /\ pc' = "idle" /\ status' = "FAILED"
  /\ UNCHANGED <<opened, input, size, nbytes, output>>

Return ==
  /\ pc \in {"read", "write"} /\ nbytes >= size
  /\ pc' = "idle"
  /\ UNCHANGED <<opened, input, size, nbytes, status, output>>

\* The bytes that have arrived and nobody has asked for yet.
Held == ToSet(cache) \cup UNION {ToSet(pending[k]) : k \in DOMAIN pending}

\* dc_packet_purge of the input; a purge of the output leaves it alone.
Purge ==
  /\ pc = "idle"
  /\ lost' = lost \cup Held
  /\ cache' = <<>> /\ pending' = <<>>
  /\ UNCHANGED <<opened, arrived, empties, got, pc, size, nbytes, status, output>>

Next ==
  \/ \E n \in PacketLens : Arrive(n)
  \/ \E n \in Sizes : Read(n) \/ Write(n)
  \/ Fill
  \/ CopyOut
  \/ ReadThrough
  \/ ReadFails
  \/ \E n \in 1 .. PacketSize : WritePacket(n)
  \/ WriteFails
  \/ Return
  \/ Purge

Spec == Init /\ [][Next]_vars

(***************************************************************************)
(* The transport answers every call: a read with a packet or a timeout, a  *)
(* write with a number of bytes or an error.  (One that answered every     *)
(* read with an empty packet would keep dc_packet_read in its loop for     *)
(* ever: the bound on empty packets is an assumption on the transport.)    *)
(***************************************************************************)
FairSpec ==
  /\ Spec
  /\ WF_vars(Fill \/ ReadThrough \/ ReadFails)
  /\ WF_vars((\E n \in 1 .. PacketSize : WritePacket(n)) \/ WriteFails)
  /\ WF_vars(CopyOut) /\ WF_vars(Return)

-----------------------------------------------------------------------------

TypeOK ==
  /\ isize \in ISizes /\ osize \in OSizes
  /\ pc \in {"idle", "read", "write"} /\ status \in {"SUCCESS", "FAILED"}
  /\ nbytes \in 0 .. size
  /\ Len(cache) <= isize
  /\ arrived \in 0 .. MaxArrived /\ written \in 0 .. MaxWritten

Increasing(s) == \A i, j \in DOMAIN s : i < j => s[i] < s[j]
Before(A, B)  == \A a \in A, b \in B : a < b

\* The caller gets the bytes in the order in which they arrived, none twice
\* and none skipped but the ones a purge discarded, whatever the packet
\* boundaries, the sizes of the calls and the failures in between; what it
\* has not got is in the cache or below, and nothing a purge discarded, in
\* the cache or below, is ever handed out.
BytesInOrder ==
  /\ Increasing(got \o cache)
  /\ \A k \in DOMAIN pending :
       Increasing(pending[k]) /\ Before(ToSet(got \o cache), ToSet(pending[k]))
  /\ \A k, l \in DOMAIN pending : k < l => Before(ToSet(pending[k]), ToSet(pending[l]))
  /\ ToSet(got) \cup Held = (1 .. arrived) \ lost

\* The last byte of the first k packets.
EndOf(k) == IF k = 0 THEN 0 ELSE wire[k][Len(wire[k])]

\* No packet written is longer than osize, none is empty, every one goes on
\* where the one before has ended, and the last one ends with the last byte
\* of the calls.
PacketsFit ==
  /\ osize # 0 => \A k \in DOMAIN wire : Len(wire[k]) <= osize
  /\ \A k \in DOMAIN wire :
       wire[k] # <<>> /\ \A i \in DOMAIN wire[k] : wire[k][i] = EndOf(k - 1) + i
  /\ EndOf(Len(wire)) = written
=============================================================================
