--------------------------- MODULE Ostc3Download ---------------------------
(***************************************************************************)
(* Downloading the dives of a Heinrichs Weikamp OSTC 3 family computer     *)
(* (hw_ostc3.c, hw_ostc3_device_foreach and the transfers it makes).       *)
(*                                                                         *)
(* The device keeps a table of N logbook headers.  Unless it is an hwOS 4  *)
(* model, the table is a ring and the newest dive is the one with the      *)
(* highest internal number.  The driver reads the compact headers, or the  *)
(* full ones if the firmware does not know the compact ones, walks the     *)
(* table backward from the newest dive up to the fingerprint, adds up the  *)
(* lengths for the progress and then reads the dives one by one.           *)
(*                                                                         *)
(* A transfer is one action: it succeeds, it is not supported, or it fails *)
(* (timeout, unexpected byte, cancelled).  The device is external; a dive  *)
(* may be overwritten or invalidated in the device after the header was    *)
(* written, so what DIVE returns need not match the header.                *)
(***************************************************************************)
EXTENDS Integers, Sequences, SequencesExt

CONSTANTS
  N,          \* RB_LOGBOOK_COUNT
  UsualLen,   \* the length field of a header
  Lengths     \* unusual values of it

OstcAssumption == N \in Nat \ {0} /\ UsualLen \in Nat /\ Lengths \subseteq Nat

SZ_MEMORY == 4194304
SizeCompact == 16
SizeFull == 256

\* An uninitialized header, all 0xFF.
Empty == [number |-> 65535, len |-> 16777215, old |-> FALSE]

VARIABLES
  hwos4, compactSupported,   \* the device
  header,                    \* its logbook headers: [number, len, old], or Empty
  fingerprint,               \* the index of the last seen dive, or N for none
  pc, compact, scanned,      \* the driver: the headers it has looked at,
  dive, plan, next,          \* the dives to read with their sizes, the next of them
  handed,                    \* what the callback got: [dive, reading, bytes, received]
  stopped, info, current, maximum, status

device   == <<hwos4, compactSupported, header, fingerprint>>
report   == <<handed, stopped, info, status>>
progress == <<current, maximum>>
logbook  == <<scanned, dive, plan>>
vars     == <<device, pc, compact, logbook, next, report, progress>>

(***************************************************************************)
(* The device.  A ring of headers with consecutive numbers, some deleted   *)
(* and at most one with an unusual length; an hwOS 4 table has its dives   *)
(* in order from its first entry.                                          *)
(***************************************************************************)
Rings ==
  {[i \in 0 .. N - 1 |->
      LET k == (i - s + N) % N
      IN  IF k < c /\ k # gone
            THEN [number |-> 1 + k, len |-> IF k = odd THEN len ELSE UsualLen, old |-> old]
            ELSE Empty] :
     s \in 0 .. N - 1, c \in 0 .. N, gone \in 1 .. N,
     odd \in 0 .. N - 1, len \in Lengths, old \in BOOLEAN}

Entries == {i \in 0 .. N - 1 : header[i] # Empty}

\* What DIVE sends for a header: the same header and a valid profile, a valid
\* header and a corrupt profile, a header with another version byte, one with
\* another summary or number, or the modified header and short profile of a
\* dive that is no longer valid (valid or not by the checks of the end).
Readings == {"same", "corrupt", "otherVersion", "otherSummary", "invalidated", "invalidatedBad"}

Init ==
  /\ hwos4 \in BOOLEAN /\ compactSupported \in BOOLEAN
  /\ header \in Rings
  /\ hwos4 => \A i, j \in Entries : i < j => header[i].number < header[j].number
  /\ fingerprint \in Entries \cup {N}
  /\ pc = "idle" /\ compact = TRUE /\ next = 1
  /\ scanned = 0 /\ dive = <<>> /\ plan = [size |-> 0, largest |-> 0]
  /\ handed = <<>> /\ stopped = FALSE /\ info = FALSE
  /\ current = 0 /\ maximum = 0 /\ status = "none"

Finish(s) == pc' = "done" /\ status' = s

\* Every call of hw_ostc3_transfer may fail, or find the download cancelled,
\* after a part of the bytes was counted.
Errors == {"IO", "CANCELLED"}

Fails(total) ==
  /\ \E s \in Errors : Finish(s)
  /\ \E part \in {0, total \div 2, total} : current' = current + part

Foreach ==
  /\ pc = "idle"
  /\ pc' = "init" /\ maximum' = SZ_MEMORY
  /\ UNCHANGED <<device, compact, logbook, next, report, current>>

\* hw_ostc3_device_init, then the DEVINFO event.
InitDone ==
  /\ pc = "init"
  /\ \/ pc' = "compact" /\ info' = TRUE /\ UNCHANGED status
     \/ \E s \in Errors : Finish(s) /\ UNCHANGED info
  /\ UNCHANGED <<device, compact, logbook, next, handed, stopped, progress>>

ReadCompact ==
  /\ pc = "compact"
  /\ \/ /\ compactSupported
        /\ pc' = "scan" /\ current' = current + SizeCompact * N
        /\ UNCHANGED <<compact, status>>
     \/ /\ ~compactSupported
        /\ pc' = "header" /\ compact' = FALSE
        /\ UNCHANGED <<current, status>>
     \/ Fails(SizeCompact * N) /\ UNCHANGED compact
  /\ UNCHANGED <<device, logbook, next, handed, stopped, info, maximum>>

ReadHeaders ==
  /\ pc = "header"
  /\ \/ pc' = "scan" /\ current' = current + SizeFull * N /\ UNCHANGED status
     \/ Fails(SizeFull * N)
  /\ UNCHANGED <<device, compact, logbook, next, handed, stopped, info, maximum>>

LogbookSize == IF compact THEN SizeCompact ELSE SizeFull

\* Mutant: the last entry of the table, as on hwOS 4, for every model.
Latest_LastEntry ==
  CHOOSE i \in 0 .. N - 1 : Entries = {} \/ (i \in Entries /\ \A j \in Entries : j <= i)

\* The entry with the highest number, or the last one on hwOS 4; entry 0 if
\* there is none.
Latest ==
  IF Entries = {} THEN 0
  ELSE CHOOSE i \in Entries :
         \A j \in Entries : IF hwos4 THEN j <= i ELSE header[j].number <= header[i].number

Length(i) ==
  SizeFull + header[i].len - 3 - (IF ~compact /\ header[i].old THEN 3 ELSE 0)

Invalid(i) == Length(i) < SizeFull

\* One header of the table, walked backward from the newest dive.  A length
\* that is too small ends the download; the fingerprint, which is looked at
\* after it, ends the walk.
Scan ==
  /\ pc = "scan" /\ scanned < N
  /\ LET i == (Latest + N - scanned) % N
     IN  \/ /\ i \notin Entries
            /\ scanned' = scanned + 1
            /\ UNCHANGED <<pc, dive, plan, status>>
         \/ /\ i \in Entries /\ Invalid(i)
            /\ Finish("DATAFORMAT") /\ UNCHANGED logbook
         \/ /\ i \in Entries /\ ~Invalid(i) /\ i = fingerprint
            /\ pc' = "planned" /\ UNCHANGED <<logbook, status>>
         \/ /\ i \in Entries /\ ~Invalid(i) /\ i # fingerprint
            /\ dive' = Append(dive, i) /\ scanned' = scanned + 1
            /\ plan' = [size    |-> plan.size + Length(i),
                        largest |-> IF Length(i) > plan.largest THEN Length(i) ELSE plan.largest]
            /\ UNCHANGED <<pc, status>>
  /\ UNCHANGED <<device, compact, next, handed, stopped, info, progress>>

\* Mutant: without the early return if there are no dives.
Planned_NoEarlyReturn ==
  /\ pc = "planned" \/ (pc = "scan" /\ scanned = N)
  /\ maximum' = LogbookSize * N + plan.size + Len(dive)
  /\ pc' = "dive"
  /\ UNCHANGED <<device, compact, logbook, next, report, current>>

\* The dives are known: the progress is, and the buffer for the largest one.
Planned ==
  /\ pc = "planned" \/ (pc = "scan" /\ scanned = N)
  /\ maximum' = LogbookSize * N + plan.size + Len(dive)
  /\ pc' = IF dive = <<>> THEN "return" ELSE "dive"
  /\ UNCHANGED <<device, compact, logbook, next, report, current>>

\* Mutant: only the version is compared.
HeaderAccepted_VersionOnly(r) == r # "otherVersion"

\* The test of the header that comes with a dive against the one of the
\* logbook: `a || compact ? b : c' groups as `(a || compact) ? b : c', so the
\* version byte only selects the comparison.  Without compact headers another
\* version leads to a comparison at the offsets of a compact header, taken
\* here to fail.  The bytes an invalidated dive has changed are not compared.
HeaderAccepted(r) ==
  IF r = "otherVersion" \/ compact
    THEN r # "otherSummary" /\ (r = "otherVersion" => compact)
    ELSE r # "otherSummary"

\* The bytes DIVE reads, with the shorter length of an invalidated dive.
Received(i, r) ==
  IF r \in {"invalidated", "invalidatedBad"} /\ Length(i) > SizeFull + 5
    THEN SizeFull + 5 ELSE Length(i)

\* Mutant: the bytes an invalidated dive does not send are not counted.
ReadBytes_Received(i, r) == 1 + Received(i, r)

\* The progress a dive adds: the byte sent, the bytes received, and what an
\* invalidated dive is short of.
ReadBytes(i, r) == 1 + Received(i, r) + (Length(i) - Received(i, r))

\* Mutant: the profile is handed out with the length of the logbook.
HandedBytes_Announced(i, r) == Length(i)

\* The profile is cut off if its end marker or its own header is wrong.
HandedBytes(i, r) ==
  IF \/ Received(i, r) < SizeFull + 2
     \/ r \in {"corrupt", "invalidatedBad"}
     \/ Received(i, r) \in {SizeFull + 3, SizeFull + 4}
    THEN SizeFull ELSE Received(i, r)

\* Reading a dive, verifying its header, and the callback.
ReadDive ==
  /\ pc = "dive"
  /\ \E r \in Readings : LET i == dive[next] IN
       \/ /\ current' = current + ReadBytes(i, r)
          /\ IF ~HeaderAccepted(r)
               THEN Finish("DATAFORMAT") /\ UNCHANGED <<handed, stopped, next>>
               ELSE /\ handed' = Append(handed,
                         [dive |-> i, reading |-> r,
                          bytes |-> HandedBytes(i, r), received |-> Received(i, r)])
                    /\ next' = next + 1
                    /\ stopped' \in BOOLEAN
                    /\ pc' = IF stopped' \/ next = Len(dive) THEN "return" ELSE "dive"
                    /\ UNCHANGED status
       \/ Fails(ReadBytes(i, r)) /\ UNCHANGED <<handed, stopped, next>>
  /\ UNCHANGED <<device, compact, logbook, info, maximum>>

Return ==
  /\ pc = "return"
  /\ Finish("SUCCESS")
  /\ UNCHANGED <<device, compact, logbook, next, handed, stopped, info, progress>>

Done == pc = "done" /\ UNCHANGED vars

Next ==
  \/ Foreach
  \/ InitDone
  \/ ReadCompact
  \/ ReadHeaders
  \/ Scan
  \/ Planned
  \/ ReadDive
  \/ Return
  \/ Done

Spec == Init /\ [][Next]_vars

-----------------------------------------------------------------------------

\* Types; the buffer has room for every dive that is read into it.
TypeOK ==
  /\ pc \in {"idle", "init", "compact", "header", "scan", "planned", "dive", "return", "done"}
  /\ status \in {"none", "SUCCESS", "DATAFORMAT"} \cup Errors
  /\ dive \in Seq(Entries) /\ next \in 1 .. Len(dive) + 1
  /\ scanned \in 0 .. N /\ Len(dive) <= scanned
  /\ pc = "dive" => next <= Len(dive) /\ Length(dive[next]) <= plan.largest
  /\ current \in Nat /\ maximum \in Nat

\* The dives newer than the fingerprint, newest first, by what the numbers
\* say.
Newer ==
  {i \in Entries : fingerprint = N \/ header[i].number > header[fingerprint].number}

Expected == SetToSortSeq(Newer, LAMBDA a, b : header[a].number > header[b].number)

Download == INSTANCE DiveDownload WITH
  phase     <- IF pc \in {"idle", "done"} THEN pc ELSE "running",
  log       <- Expected,
  delivered <- [k \in DOMAIN handed |-> handed[k].dive]

\* The download of hw_ostc3_device_foreach hands out the dives newer than the
\* fingerprint, newest first, wherever the newest one is in the ring and
\* whatever entries are deleted, ends with DC_STATUS_SUCCESS only if none is
\* left out, and reports monotonic progress within its maximum.
DownloadSpec == Download!Spec

\* A download that ran to its end has used up the announced progress: the two
\* passes over the headers agree on every length, and a dive that reads back
\* shorter than announced is made up for.
ProgressComplete ==
  pc = "done" /\ status = "SUCCESS" /\ ~stopped => current = maximum

\* A dive whose summary or number differs from its logbook entry, because
\* the device overwrote it in the meantime, is never handed out.
NoForeignDive ==
  \A k \in DOMAIN handed : handed[k].reading # "otherSummary"

\* The callback never gets bytes of an earlier, longer dive that are still in
\* the buffer the dives share.
NothingLeftOver ==
  \A k \in DOMAIN handed : handed[k].bytes \in SizeFull .. handed[k].received
=============================================================================
