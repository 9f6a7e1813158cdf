--------------------------- MODULE PetrelDownload ---------------------------
(***************************************************************************)
(* Downloading the dives of a Shearwater Petrel family computer            *)
(* (shearwater_petrel.c), and closing it.                                  *)
(*                                                                         *)
(* The device sends its list of dives, newest first, in manifests of       *)
(* RECORD_COUNT records; each time the manifest is read the next page is   *)
(* sent.  A record is live or marked as deleted.  The driver collects the  *)
(* records up to the fingerprint and then downloads the dives they name.   *)
(*                                                                         *)
(* A record is its place in the list: 1 is the newest dive.  Every request *)
(* and every block of a download is a call of shearwater_common_transfer,  *)
(* which asks the cancel callback first, so each action here may find the  *)
(* download cancelled, or fail.                                            *)
(***************************************************************************)
EXTENDS Integers, Sequences, SequencesExt

CONSTANTS
  RECORD_COUNT,      \* the records of a manifest
  MaxRecords,        \* bound: the records of the device
  UINT_MAX,          \* the maximum before anything is known
  DeletedAnywhere    \* FALSE: in no manifest does a live record follow a deleted one

PetrelAssumption ==
  /\ RECORD_COUNT \in Nat \ {0} /\ MaxRecords \in Nat /\ UINT_MAX \in Nat \ {0}
  /\ DeletedAnywhere \in BOOLEAN

NSTEPS == 10000

VARIABLES
  live,               \* the device: which of its records are live
  fingerprint,        \* the record of the last seen dive, or 0
  asleep,             \* the device got the shutdown request
  registered,         \* the cancel callback is set
  cancelled,          \* and has returned non-zero
  pc, page,           \* the driver: the manifests read
  manifests, next,    \* the records collected, and the next dive to download
  steps, total,       \* its variables current and maximum
  handed, stopped, info, current, maximum, status

device   == <<live, fingerprint>>
progress == <<current, maximum>>
work     == <<page, manifests, next, steps, total>>
report   == <<handed, stopped>>
vars     == <<device, asleep, registered, cancelled, pc, work, report, info,
              progress, status>>

Records == DOMAIN live

\* The records of a manifest; the last one may be incomplete, or empty.
Page(p) == SelectSeq([k \in 1 .. RECORD_COUNT |-> p * RECORD_COUNT + k], LAMBDA k : k \in Records)

\* No deleted record in front of a live one of the same manifest.
DeletedLast ==
  \A j, k \in Records :
    (j < k /\ (j - 1) \div RECORD_COUNT = (k - 1) \div RECORD_COUNT /\ live[k]) => live[j]

Init ==
  /\ live \in UNION {[1 .. n -> BOOLEAN] : n \in 0 .. MaxRecords}
  /\ DeletedAnywhere \/ DeletedLast
  /\ fingerprint \in Records \cup {0}
  /\ asleep = FALSE /\ registered \in BOOLEAN /\ cancelled = FALSE
  /\ pc = "idle" /\ page = 0 /\ manifests = <<>> /\ next = 1
  /\ steps = 0 /\ total = 0
  /\ handed = <<>> /\ stopped = FALSE /\ info = FALSE
  /\ current = 0 /\ maximum = 0 /\ status = "none"

\* device_is_cancelled, the first thing every transfer looks at.
IsCancelled == registered /\ cancelled

\* The user may cancel at any time, also in the middle of a download.
MayCancel == registered /\ cancelled' \in {cancelled, TRUE}

Answered == ~IsCancelled /\ (MayCancel \/ (~registered /\ UNCHANGED cancelled))

\* A request fails: nothing is sent once the download is cancelled.
Errors == {"IO", "TIMEOUT", "PROTOCOL"}

Fails(errors) ==
  /\ \/ registered /\ cancelled' = TRUE /\ status' = "CANCELLED"
     \/ ~IsCancelled /\ status' \in errors /\ UNCHANGED cancelled
  /\ pc' = "done"

Foreach ==
  /\ pc = "idle"
  /\ pc' = "identify" /\ maximum' = UINT_MAX
  /\ UNCHANGED <<device, asleep, registered, cancelled, work, report, info, current, status>>

\* The serial number, the firmware and the model, then the DEVINFO event.
Identify ==
  /\ pc = "identify"
  /\ \/ Answered /\ pc' = "logbook" /\ info' = TRUE /\ UNCHANGED status
     \/ Fails(Errors \cup {"UNSUPPORTED", "DATAFORMAT"}) /\ UNCHANGED info
  /\ UNCHANGED <<device, asleep, registered, work, report, progress>>

\* The type of the logbook, which decides on the base address of the dives.
LogbookType ==
  /\ pc = "logbook"
  /\ \/ Answered /\ pc' = "manifest" /\ UNCHANGED status
     \/ Fails(Errors \cup {"UNSUPPORTED", "DATAFORMAT", "NOMEMORY"})
  /\ UNCHANGED <<device, asleep, registered, work, report, info, progress>>

\* The records of a page in front of the fingerprint, which is only looked
\* for among the live ones.
Scanned(p) ==
  LET found == {k \in DOMAIN Page(p) : live[Page(p)[k]] /\ Page(p)[k] = fingerprint}
  IN  IF found = {} THEN Page(p) ELSE SubSeq(Page(p), 1, Min(found) - 1)

Live(k) == live[k]

\* The first `count' records of the page, count being the number of the live
\* ones.
Appended(p) == SubSeq(Page(p), 1, Len(SelectSeq(Scanned(p), Live)))

\* Mutant: deleted records are not counted, a page with one is the last.
IsLast_LiveOnly(p) == Len(SelectSeq(Scanned(p), Live)) # RECORD_COUNT

\* count + deleted != RECORD_COUNT
IsLast(p) == Len(Scanned(p)) # RECORD_COUNT

\* The loop over the records skips the deleted ones.
Dives(records) == SelectSeq(records, Live)

\* Mutant: the loop is entered without a look at the size.
AfterManifests_NoCheck(records) == "dive"

AfterManifests(records) == IF Dives(records) = <<>> THEN "return" ELSE "dive"

\* What the progress of a download can be: none, a part, all of its steps.
Parts == {0, NSTEPS \div 2, NSTEPS}

\* A manifest: the worst case is added to the maximum, and corrected once
\* the records have been counted.
ReadManifest ==
  /\ pc = "manifest"
  /\ maximum' = NSTEPS * (total + 1 + RECORD_COUNT)
  /\ \/ /\ Answered
        /\ current' = NSTEPS * steps + NSTEPS
        /\ page' = page + 1 /\ steps' = steps + 1
        /\ total' = total + 1 + Len(Scanned(page))
        /\ manifests' = manifests \o Appended(page)
        /\ pc' = IF IsLast(page) THEN "collected" ELSE "manifest"
        /\ UNCHANGED status
     \/ /\ Fails(Errors \cup {"NOMEMORY"})
        /\ \E part \in Parts : current' = NSTEPS * steps + part
        /\ UNCHANGED <<page, steps, total, manifests>>
  /\ UNCHANGED <<device, asleep, registered, next, report, info>>

\* A progress event with the corrected maximum.
Collected ==
  /\ pc = "collected"
  /\ current' = NSTEPS * steps /\ maximum' = NSTEPS * total
  /\ pc' = AfterManifests(manifests)
  /\ UNCHANGED <<device, asleep, registered, cancelled, work, report, info, status>>

\* The download of a dive, and the callback.
ReadDive ==
  /\ pc = "dive"
  /\ \E part \in Parts : current' = NSTEPS * steps + part
  /\ maximum' = NSTEPS * total
  /\ \/ /\ Answered
        /\ steps' = steps + 1 /\ next' = next + 1
        /\ handed' = Append(handed, Dives(manifests)[next])
        /\ stopped' \in BOOLEAN
        /\ pc' = IF stopped' \/ next = Len(Dives(manifests)) THEN "return" ELSE "dive"
        /\ UNCHANGED status
     \/ Fails(Errors \cup {"NOMEMORY"}) /\ UNCHANGED <<steps, next, report>>
  /\ UNCHANGED <<device, asleep, registered, page, manifests, total, info>>

Return ==
  /\ pc = "return"
  /\ pc' = "done" /\ status' = "SUCCESS"
  /\ current' = NSTEPS * steps /\ maximum' = NSTEPS * total
  /\ UNCHANGED <<device, asleep, registered, cancelled, work, report, info>>

\* Mutant: the cancel callback stays registered.
DisableCancel_Dropped == UNCHANGED registered

DisableCancel == registered' = FALSE

\* dc_device_close, and the shutdown request, a transfer without an answer,
\* of shearwater_petrel_device_close.
Close ==
  /\ pc = "done"
  /\ pc' = "closed" /\ DisableCancel
  /\ IF registered' /\ cancelled
       THEN status' = "CANCELLED" /\ UNCHANGED asleep
       ELSE \E sent \in BOOLEAN :
              asleep' = sent /\ status' = IF sent THEN "SUCCESS" ELSE "IO"
  /\ UNCHANGED <<device, cancelled, work, report, info, progress>>

Closed == pc = "closed" /\ UNCHANGED vars

Next ==
  \/ Foreach
  \/ Identify
  \/ LogbookType
  \/ ReadManifest
  \/ Collected
  \/ ReadDive
  \/ Return
  \/ Close
  \/ Closed

Spec == Init /\ [][Next]_vars

-----------------------------------------------------------------------------

TypeOK ==
  /\ pc \in {"idle", "identify", "logbook", "manifest", "collected", "dive",
             "return", "done", "closed"}
  /\ manifests \in Seq(Records) /\ page \in 0 .. (MaxRecords \div RECORD_COUNT) + 1
  /\ pc = "dive" => next \in 1 .. Len(Dives(manifests))
  /\ steps \in Nat /\ total \in Nat /\ current \in Nat /\ maximum \in Nat
  /\ status \in {"none", "SUCCESS", "CANCELLED", "UNSUPPORTED", "DATAFORMAT", "NOMEMORY"}
                \cup Errors

\* The live dives in front of the fingerprint, newest first.
Expected ==
  SelectSeq([k \in Records |-> k],
            LAMBDA k : live[k] /\ (fingerprint # 0 /\ live[fingerprint] => k < fingerprint))

Download == INSTANCE DiveDownload WITH
  phase     <- CASE pc = "idle" -> "idle" [] pc \in {"done", "closed"} -> "done"
                 [] OTHER -> "running",
  log       <- Expected,
  delivered <- handed

\* While the device is open, the download of shearwater_petrel_device_foreach
\* hands out the live dives in front of the fingerprint, newest first, however
\* many manifests they fill, whether or not the last one is full, and ends
\* with DC_STATUS_SUCCESS only if none is left out; the progress never runs
\* backward or past the maximum, which is corrected on the way.
DownloadSpec == Download!Init /\ [][pc' # "closed" => Download!Next]_(Download!dlvars)

\* A download that was cancelled leaves a device that dc_device_close still
\* puts to sleep: the shutdown request is not suppressed by the cancellation.
ShutdownSent == pc = "closed" => asleep \/ status = "IO"

\* shearwater_petrel.c:275: "this is a deleted dive; keep looking".  The live
\* dives behind a deleted one are handed out too.
DeletedSkipped ==
  pc = "done" /\ status = "SUCCESS" /\ ~stopped => handed = Expected
=============================================================================
