-------------------------- MODULE OceanicDownload --------------------------
(***************************************************************************)
(* Downloading the dives of an Oceanic computer (oceanic_common.c), the    *)
(* pattern of every driver with a logbook ring and a profile ring.  The    *)
(* logbook is read newest entry first up to the fingerprint; a first pass  *)
(* over the entries finds the end of the profiles and how many bytes are   *)
(* needed, a second pass reads the profiles backward from there.           *)
(*                                                                         *)
(* A read of the stream takes the next addresses of the walk of RingWalk,  *)
(* which RbStream implements.  Sizes are in units: one unit of the logbook *)
(* is an entry, one of the profile ring a page.                            *)
(*                                                                         *)
(* The device is external.  Its dives were written one after the other,    *)
(* newer ones over older ones; there may be gaps between two profiles, a   *)
(* corrupt entry, and a corrupt pointer to the end of the logbook the      *)
(* driver does not start from.                                             *)
(***************************************************************************)
EXTENDS Integers, Sequences, SequencesExt, Ringbuffer

CONSTANTS
  LB, L,        \* the logbook ring: its begin and its number of entries
  PB, R,        \* the profile ring: its begin and its size
  EntrySize,    \* rb_logbook_entry_size, in units of the profile ring
  PAGESIZE,
  DiveSizes,    \* sizes a dive may have
  Tops          \* where in the profile ring the newest dive may end

OceanicAssumption ==
  /\ LB \in Nat \ {0} /\ PB \in Nat \ {0} /\ L \in Nat \ {0} /\ R \in Nat \ {0}
  /\ EntrySize \in Nat \ {0} /\ PAGESIZE \in Nat \ {0}
  /\ DiveSizes \subseteq 1 .. R /\ Tops \subseteq 0 .. R

LE == LB + L
PE == PB + R

VARIABLES
  \* the device: sizes of the dives, newest first, the gap before dive `gapAt',
  \* the corrupt entry, where the newest dive ends, and its memory
  size, gapAt, bad, book, first, last, direction,
  fingerprint,
  \* the driver
  pc, begin, count, nread, list, matched,
  plan, entry, remaining, previous, pos, offset, failed,
  handed, stopped, info, current, maximum, status

device  == <<size, gapAt, bad, book, first, last, direction, fingerprint>>
logging == <<begin, count, nread, list, matched>>
reading == <<plan, entry, remaining, previous, pos, offset, failed>>
report  == <<handed, stopped, info, status>>
vars    == <<device, pc, logging, reading, report, current, maximum>>

NoEntry == [id |-> 0, begin |-> 0, end |-> 0]        \* all 0xFF

Gap(k) == IF k = gapAt THEN 1 ELSE 0

\* The entry of dive k, which begins at start[k] of the profile ring.
EntryOf(start, k) ==
  IF k > Len(size) THEN NoEntry
  ELSE IF k = bad THEN [id |-> k, begin |-> PB - 1, end |-> PE + 1]
  ELSE [id |-> k, begin |-> PB + start[k],
        end |-> PB + start[k] + size[k] - (IF start[k] + size[k] > R THEN R ELSE 0)]

\* A dive begins its size, and maybe a gap, before the next newer one; the
\* newest one ends at `top'.
Placed(start, top) ==
  \A k \in DOMAIN size : start[k] = ((IF k = 1 THEN top ELSE start[k - 1]) - size[k] - Gap(k)) % R

Init ==
  /\ size \in UNION {[1 .. c -> DiveSizes] : c \in 0 .. L}
  /\ gapAt \in {0} \cup (2 .. Len(size))
  /\ bad \in 0 .. Len(size)
  /\ bad # 0 => size[bad] + 2 < R
  /\ direction \in {0, 1}
  /\ \E top \in Tops, p \in 0 .. L - 1, start \in [DOMAIN size -> 0 .. R - 1] :
       /\ Placed(start, top)
       /\ book = [a \in LB .. LE - 1 |->
                    EntryOf(start, 1 + (IF direction = 1 THEN (p - 1 - (a - LB)) % L ELSE (a - LB - p) % L))]
       /\ IF direction = 1
            THEN last = LB + p /\ first \in {ringbuffer_decrement(last, Len(size), LB, LE), LE + 1}
            ELSE first = LB + p /\ last \in {ringbuffer_increment(first, Len(size), LB, LE), LB - 1}
  /\ fingerprint \in 0 .. Len(size)
  /\ pc = "idle"
  /\ begin = 0 /\ count = 0 /\ nread = 0 /\ list = <<>> /\ matched = FALSE
  /\ plan = [end |-> 0, size |-> 0] /\ entry = 1 /\ remaining = 0 /\ previous = 0 /\ pos = 0
  /\ offset = 0 /\ failed = FALSE
  /\ handed = <<>> /\ stopped = FALSE /\ info = FALSE /\ status = "none"
  /\ current = 0 /\ maximum = 0

Finish(s) == pc' = "done" /\ status' = s

ReadFails == Finish("IO")

Foreach ==
  /\ pc = "idle"
  /\ pc' = "devinfo" /\ maximum' = L * EntrySize + R
  /\ UNCHANGED <<device, logging, reading, report, current>>

\* oceanic_common_device_devinfo and _pointers: a page each.
DevInfo ==
  /\ pc = "devinfo"
  /\ \/ /\ pc' = "pointers" /\ info' = TRUE
        /\ current' = current + PAGESIZE /\ maximum' = maximum + PAGESIZE
        /\ UNCHANGED status
     \/ ReadFails /\ UNCHANGED <<info, current, maximum>>
  /\ UNCHANGED <<device, logging, reading, handed, stopped>>

Pointers ==
  /\ pc = "pointers"
  /\ \/ /\ pc' = "logbook"
        /\ current' = current + PAGESIZE /\ maximum' = maximum + PAGESIZE
        /\ UNCHANGED status
     \/ ReadFails /\ UNCHANGED <<current, maximum>>
  /\ UNCHANGED <<device, logging, reading, handed, stopped, info>>

-----------------------------------------------------------------------------
(***************************************************************************)
(* oceanic_common_device_logbook                                           *)
(***************************************************************************)

Outside(p) == p < LB \/ p > LE

\* Mutant: equal pointers are an empty logbook.
LogbookSize_Empty(b, e) == ringbuffer_distance(b, e, DC_RINGBUFFER_EMPTY, LB, LE)

\* Equal pointers are a full logbook: an empty one shows in its entries.
LogbookSize(b, e) == ringbuffer_distance(b, e, DC_RINGBUFFER_FULL, LB, LE)

\* The pointer the stream does not start from may be invalid: the whole ring
\* is read then.
Logbook ==
  /\ pc = "logbook"
  /\ LET b == IF Outside(first) THEN last ELSE first
         e == IF Outside(last) THEN b ELSE last
     IN  IF (direction = 0 /\ Outside(first)) \/ (direction # 0 /\ Outside(last))
           THEN Finish("DATAFORMAT") /\ UNCHANGED <<begin, count, maximum>>
           ELSE /\ count' = LogbookSize(b, e)
                /\ begin' = IF direction = 0 THEN b ELSE e
                /\ maximum' = maximum - (L - LogbookSize(b, e)) * EntrySize
                /\ pc' = "entry" /\ UNCHANGED status
  /\ UNCHANGED <<device, nread, list, matched, reading, handed, stopped, info, current>>

\* The address of the next entry on the walk of the stream.
EntryAddress ==
  IF direction = 0 THEN ringbuffer_increment(begin, nread, LB, LE)
                   ELSE ringbuffer_decrement(begin, nread + 1, LB, LE)

ReadEntry ==
  /\ pc = "entry" /\ nread < count /\ ~matched
  /\ \/ LET e == book[EntryAddress] IN
          /\ current' = current + EntrySize
          /\ nread' = nread + 1
          /\ IF e # NoEntry /\ e.id = fingerprint
               THEN matched' = TRUE /\ UNCHANGED list
               ELSE list' = Append(list, e) /\ UNCHANGED matched
          /\ UNCHANGED <<pc, status>>
     \/ ReadFails /\ UNCHANGED <<current, nread, list, matched>>
  /\ UNCHANGED <<device, begin, count, reading, handed, stopped, info, maximum>>

\* Mutant: the entries that were not read stay in the progress.
LogbookDone_KeepsMaximum ==
  /\ pc = "entry" /\ (nread = count \/ matched)
  /\ pc' = IF \E i \in DOMAIN list : list[i] # NoEntry THEN "profile" ELSE "return"
  /\ remaining' = R
  /\ UNCHANGED <<device, logging, plan, entry, previous, pos, offset, failed, report, current, maximum>>

\* The entries that were not read are taken off the progress; without a new
\* dive the download is over, otherwise the whole ring is there to be planned.
LogbookDone ==
  /\ pc = "entry" /\ (nread = count \/ matched)
  /\ maximum' = maximum - (count - nread) * EntrySize
  /\ pc' = IF \E i \in DOMAIN list : list[i] # NoEntry THEN "profile" ELSE "return"
  /\ remaining' = R
  /\ UNCHANGED <<device, logging, plan, entry, previous, pos, offset, failed, report, current>>

-----------------------------------------------------------------------------
(***************************************************************************)
(* oceanic_common_device_profile                                           *)
(***************************************************************************)

\* oceanic_common_device_get_profile and the check of the pointers.
PointersValid(e) ==
  /\ e.begin >= PB /\ e.begin <= PE
  /\ e.end >= PB /\ e.end <= PE

ProfileSize(e) == ringbuffer_distance(e.begin, e.end, DC_RINGBUFFER_FULL, PB, PE)

\* Mutant: the profiles are taken to be continuous.
GapTo_None(e, prev) == 0

\* From the end of the profile of e to the start of the one after it.
GapTo(e, prev) == ringbuffer_distance(e.end, prev, DC_RINGBUFFER_EMPTY, PB, PE)

\* Mutant: the gap is left out of the check.
Fits_WithoutGap(e, prev, rest) == ProfileSize(e) <= rest

Fits(e, prev, rest) == ProfileSize(e) + GapTo(e, prev) <= rest

\* An entry that is skipped, in either pass.
Skip ==
  /\ pc \in {"profile", "dive"} /\ entry <= Len(list)
  /\ list[entry] = NoEntry \/ ~PointersValid(list[entry])
  /\ failed' = (failed \/ list[entry] # NoEntry)
  /\ entry' = entry + 1
  /\ UNCHANGED <<device, pc, logging, plan, remaining, previous, pos, offset, report, current, maximum>>

Usable == entry <= Len(list) /\ list[entry] # NoEntry /\ PointersValid(list[entry])

\* The first pass has not met a dive yet: INVALID is 0.
EndOr(address, e) == IF plan.end = 0 THEN e.end ELSE address

\* One entry of the first pass.
FirstPass ==
  /\ pc = "profile" /\ Usable
  /\ LET e    == list[entry]
         prev == EndOr(previous, e)
         n    == ProfileSize(e) + GapTo(e, prev)
     IN  /\ Fits(e, prev, remaining)
         /\ plan' = [end |-> EndOr(plan.end, e), size |-> plan.size + n]
         /\ remaining' = remaining - n /\ previous' = e.begin
         /\ entry' = entry + 1
  /\ UNCHANGED <<device, pc, logging, pos, offset, failed, report, current, maximum>>

\* The profile of the next entry has been overwritten, or there is none: what
\* the second pass will read is known.
Profile ==
  /\ pc = "profile"
  /\ entry > Len(list) \/ (Usable /\ ~Fits(list[entry], EndOr(previous, list[entry]), remaining))
  /\ remaining' = plan.size /\ previous' = plan.end /\ entry' = 1
  /\ offset' = plan.size + Len(list) * EntrySize
  /\ maximum' = maximum - (R - plan.size)
  /\ pc' = IF plan.size = 0 THEN "return" ELSE "dive"
  /\ UNCHANGED <<device, logging, plan, pos, failed, report, current>>

\* A dive and the gap after it, its logbook entry in front, and the callback.
\* The profile starts where the stream has walked to.
ReadDive ==
  /\ pc = "dive" /\ Usable
  /\ LET e == list[entry]
         n == ProfileSize(e) + GapTo(e, previous)
     IN  /\ Fits(e, previous, remaining)
         /\ \/ /\ pos' = pos + n
               /\ current' = current + n
               /\ remaining' = remaining - n /\ previous' = e.begin
               /\ offset' = offset - n - EntrySize
               /\ handed' = Append(handed,
                    [id |-> e.id, from |-> ringbuffer_decrement(plan.end, pos + n, PB, PE),
                     size |-> ProfileSize(e)])
               /\ entry' = entry + 1
               /\ stopped' \in BOOLEAN
               /\ pc' = IF stopped' THEN "return" ELSE "dive"
               /\ UNCHANGED status
            \/ /\ ReadFails
               /\ offset' = offset - n
               /\ UNCHANGED <<pos, current, remaining, previous, handed, entry, stopped>>
  /\ UNCHANGED <<device, logging, plan, failed, info, maximum>>

\* The profile of the next dive has been overwritten, or there is none.
Profiles ==
  /\ pc = "dive"
  /\ entry > Len(list) \/ (Usable /\ ~Fits(list[entry], previous, remaining))
  /\ pc' = "return"
  /\ UNCHANGED <<device, logging, reading, report, current, maximum>>

Return ==
  /\ pc = "return"
  /\ Finish(IF failed THEN "DATAFORMAT" ELSE "SUCCESS")
  /\ UNCHANGED <<device, logging, reading, handed, stopped, info, current, maximum>>

Done == pc = "done" /\ UNCHANGED vars

Next ==
  \/ Foreach \/ DevInfo \/ Pointers
  \/ Logbook \/ ReadEntry \/ LogbookDone
  \/ FirstPass \/ Profile \/ Skip \/ ReadDive \/ Profiles \/ Return
  \/ Done

Spec == Init /\ [][Next]_vars

-----------------------------------------------------------------------------

\* Types; the buffer of the profiles never runs out, no unsigned count wraps.
TypeOK ==
  /\ status \in {"none", "SUCCESS", "DATAFORMAT", "IO"}
  /\ nread \in 0 .. count /\ count \in 0 .. L
  /\ entry \in 1 .. Len(list) + 1
  /\ remaining \in 0 .. R /\ offset \in 0 .. R + L * EntrySize
  /\ current \in Nat /\ maximum \in Nat

SumTo(F(_), n) == FoldLeft(LAMBDA s, k : s + F(k), 0, [k \in 1 .. n |-> k])

\* Bytes written since dive k began.
Since(k) == SumTo(LAMBDA j : size[j] + Gap(j), k)

\* What was written after the newest dive with a sound entry: a corrupt entry
\* for the newest dive hides how much of the ring it has overwritten.
Hidden == IF bad = 1 THEN size[1] + (IF Len(size) > 1 THEN Gap(2) ELSE 0) ELSE 0

\* The dives that are newer than the fingerprint, have a sound entry, and
\* have not been overwritten by newer ones with a sound entry: at most R
\* bytes were written since they began.
Expected ==
  SelectSeq([k \in 1 .. Len(size) |-> k],
    LAMBDA k : /\ fingerprint = 0 \/ k < fingerprint
               /\ k # bad
               /\ Since(k) - Hidden <= R)

Download == INSTANCE DiveDownload WITH
  phase     <- IF pc \in {"idle", "done"} THEN pc ELSE "running",
  log       <- Expected,
  delivered <- [k \in DOMAIN handed |-> handed[k].id]

\* The download of oceanic_common_device_foreach hands out exactly the dives
\* that are still in the profile ring, newest first up to the fingerprint,
\* with full and empty rings, gaps, wrapped profiles, corrupt entries and
\* corrupt pointers, and never moves its progress backward or past its
\* maximum.
DownloadSpec == Download!Spec

\* A dive is handed out with its own bytes: the stream, which only knows how
\* far it has walked, is at the start of the profile of the logbook entry.
OwnProfile ==
  \A i \in DOMAIN handed :
    /\ handed[i].size = size[handed[i].id]
    /\ \E a \in DOMAIN book :
         /\ book[a].id = handed[i].id
         /\ handed[i].from = ringbuffer_normalize(book[a].begin, PB, PE)

\* The two passes over the logbook agree: a download of dives that is neither
\* stopped nor fails has read all the bytes it has announced.
PassesAgree ==
  pc = "done" /\ status # "IO" /\ ~stopped /\ plan.size > 0 => current = maximum /\ remaining = 0
=============================================================================
