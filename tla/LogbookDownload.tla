-------------------------- MODULE LogbookDownload --------------------------
(***************************************************************************)
(* xxx_device_foreach of the drivers whose device serves dives by number:  *)
(* a logbook is read first and the dives it lists are asked for one by     *)
(* one, or there is no logbook and the fingerprint is compared when a dive *)
(* (or its header) has been read.  A record describes each driver.         *)
(*                                                                         *)
(* A dive is its number, a higher number is a newer dive.  A dive is read  *)
(* in chunks, the first of which is its header.  A transfer either works   *)
(* or fails for good (CommandTransfer models its retries); the device may  *)
(* answer with another dive than the one asked for, which some drivers     *)
(* detect, and may refuse a dive it no longer has.                         *)
(***************************************************************************)
EXTENDS Integers, Sequences, SequencesExt, FiniteSetsExt

CONSTANTS
  Slots,            \* the places of a logbook
  MaxNumber,        \* bound: the number of the newest dive
  PageLen,          \* NRECORDS of divesoft_freedom.c
  Unreported        \* wrong headers also at drivers that return success then

LogbookAssumption ==
  /\ Slots \in Nat \ {0} /\ MaxNumber \in Nat /\ PageLen \in Nat \ {0}
  /\ Unreported \in BOOLEAN

NSTEPS == 2

\* The share of a dive, in NSTEPS.
STEP(i, n) == (NSTEPS * i) \div n

(***************************************************************************)
(* The drivers.  layout: how the dives lie in the logbook; list: how it is *)
(* read; stop: where the fingerprint is compared; wrong: the status after  *)
(* a header that is not the expected one ("none": it is not verified);     *)
(* skips: a dive that is not available is skipped; unit: what progress     *)
(* counts; first: the units of the logbook.                                *)
(***************************************************************************)
mclean_extreme ==
  [name |-> "mclean_extreme", layout |-> "oldest", list |-> "none", stop |-> "dive",
   wrong |-> "none", skips |-> FALSE, unit |-> "steps", first |-> 1]

deepsix_excursion ==
  [name |-> "deepsix_excursion", layout |-> "oldest", list |-> "none", stop |-> "header",
   wrong |-> "SUCCESS", skips |-> FALSE, unit |-> "steps", first |-> 1]

divesystem_idive ==
  [name |-> "divesystem_idive", layout |-> "oldest", list |-> "none", stop |-> "header",
   wrong |-> "none", skips |-> TRUE, unit |-> "steps", first |-> 0]

atomics_cobalt ==
  [name |-> "atomics_cobalt", layout |-> "newest", list |-> "none", stop |-> "dive",
   wrong |-> "none", skips |-> FALSE, unit |-> "bytes", first |-> 0]

tecdiving_divecomputereu ==
  [name |-> "tecdiving_divecomputereu", layout |-> "newest", list |-> "whole", stop |-> "list",
   wrong |-> "DATAFORMAT", skips |-> FALSE, unit |-> "steps", first |-> 1]

deepblu_cosmiq ==
  [name |-> "deepblu_cosmiq", layout |-> "newest", list |-> "each", stop |-> "list",
   wrong |-> "none", skips |-> FALSE, unit |-> "steps", first |-> 1]

divesoft_freedom ==
  [name |-> "divesoft_freedom", layout |-> "newest", list |-> "pages", stop |-> "list",
   wrong |-> "PROTOCOL", skips |-> FALSE, unit |-> "bytes", first |-> 1]

halcyon_symbios ==
  [name |-> "halcyon_symbios", layout |-> "oldest", list |-> "whole", stop |-> "list",
   wrong |-> "none", skips |-> TRUE, unit |-> "steps", first |-> 1]

cressi_goa ==
  [name |-> "cressi_goa", layout |-> "padded", list |-> "whole", stop |-> "list",
   wrong |-> "DATAFORMAT", skips |-> FALSE, unit |-> "steps", first |-> 1]

hw_frog ==
  [name |-> "hw_frog", layout |-> "ring", list |-> "whole", stop |-> "list",
   wrong |-> "SUCCESS", skips |-> FALSE, unit |-> "bytes", first |-> 1]

oceans_s1 ==
  [name |-> "oceans_s1", layout |-> "any", list |-> "whole", stop |-> "list",
   wrong |-> "none", skips |-> FALSE, unit |-> "dives", first |-> 1]

Drivers ==
  {mclean_extreme, deepsix_excursion, divesystem_idive, atomics_cobalt,
   tecdiving_divecomputereu, deepblu_cosmiq, divesoft_freedom, halcyon_symbios,
   cressi_goa, hw_frog, oceans_s1}

VARIABLES
  p, slots, fingerprint, missing,    \* the driver, and what its device holds
  pc,                                \* "idle", "identify", "list", "read", "done"
  entries,                           \* the dives listed so far, newest first
  index, nchunks, data,              \* the dive asked for, what has been read, and of which dive
  mismatch,                          \* a header was not the expected one
  info, current, maximum,
  delivered, stopped, status

device   == <<p, slots, fingerprint, missing>>
progress == <<current, maximum>>
vars == <<device, pc, entries, index, nchunks, data, mismatch, info, progress,
          delivered, stopped, status>>

-----------------------------------------------------------------------------
Held == {slots[j] : j \in DOMAIN slots} \ {0}

\* The dives of every logbook: some of the numbers, in the layout of the driver.
Dives == {D \in SUBSET (1 .. MaxNumber) : Cardinality(D) <= Slots}

Layouts(layout) ==
  CASE layout = "newest" -> {SetToSortSeq(D, >) : D \in Dives}
    [] layout = "oldest" -> {SetToSortSeq(D, <) : D \in Dives}
    [] layout = "padded" ->
         {[j \in 1 .. Slots - Cardinality(D) |-> 0] \o SetToSortSeq(D, <) : D \in Dives}
    [] layout = "ring"   ->
         {[j \in 1 .. Slots |-> Max({0} \cup {n \in 1 .. t : n % Slots = j % Slots})] :
            t \in 0 .. MaxNumber}
    [] layout = "any"    -> UNION {SetToSeqs(D) : D \in Dives}

Length(d) == 1 + (d % 2)

Memory == FoldSet(LAMBDA d, sum : sum + Length(d), 0, 1 .. MaxNumber)

UNKNOWN == NSTEPS * (Slots + 2) + 2 * Memory

Init ==
  /\ p \in Drivers
  /\ slots \in Layouts(p.layout)
  /\ fingerprint \in 0 .. MaxNumber
  /\ missing \in IF p.skips THEN SUBSET Held ELSE {{}}
  /\ p.list = "none" => fingerprint \notin missing    \* it was downloaded before
  /\ pc = "idle" /\ entries = <<>> /\ index = 1 /\ nchunks = 0 /\ data = 0
  /\ mismatch = FALSE /\ info = FALSE /\ current = 0 /\ maximum = 0
  /\ delivered = <<>> /\ stopped = FALSE /\ status = "none"

-----------------------------------------------------------------------------
\* Mutant: uninitialized entries are not ignored.
RingOrder_Uninitialized(s) ==
  LET latest == CHOOSE j \in DOMAIN s : \A l \in DOMAIN s : s[j] >= s[l]
  IN  [k \in 1 .. Slots |-> s[((latest - 1 + Slots - (k - 1)) % Slots) + 1]]

\* hw_frog: backward from the highest number, modulo the size of the logbook.
RingOrder(s) ==
  LET count  == Cardinality({j \in DOMAIN s : s[j] # 0})
      latest == CHOOSE j \in DOMAIN s : \A l \in DOMAIN s : s[j] >= s[l]
  IN  [k \in 1 .. count |-> s[((latest - 1 + Slots - (k - 1)) % Slots) + 1]]

\* The entries of the logbook in the order the driver takes them.
Order ==
  CASE p.layout = "newest" -> slots
    [] p.layout = "oldest" -> Reverse(slots)
    [] p.layout = "padded" -> SelectSeq(Reverse(slots), LAMBDA d : d # 0)
    [] p.layout = "ring"   -> RingOrder(slots)
    [] p.layout = "any"    -> SetToSortSeq(Held, >)

\* oceans_s1 compares times, the others look for the dive itself.
Known(d) == IF p.layout = "any" THEN d <= fingerprint ELSE d = fingerprint

UpToKnown(s) ==
  LET known == {j \in DOMAIN s : Known(s[j])}
  IN  IF known = {} THEN s ELSE SubSeq(s, 1, Min(known) - 1)

Bytes(s) == FoldSeq(LAMBDA d, sum : sum + Length(d), 0, s)

Units(s) ==
  CASE p.unit = "steps" -> NSTEPS * Len(s)
    [] p.unit = "bytes" -> Bytes(s)
    [] p.unit = "dives" -> Len(s)

FirstUnits ==
  CASE p.unit = "steps" -> NSTEPS * p.first
    [] OTHER            -> p.first

Foreach ==
  /\ pc = "idle" /\ pc' = "identify"
  /\ maximum' = UNKNOWN
  /\ UNCHANGED <<device, entries, index, nchunks, data, mismatch, info, current,
                 delivered, stopped, status>>

Finish(s) == pc' = "done" /\ status' = s

\* The list is complete: what is left to do is known, and so is the maximum.
Listed(s) ==
  /\ entries' = s /\ pc' = "read"
  /\ current' = FirstUnits
  /\ maximum' = IF p.name = "atomics_cobalt" THEN UNKNOWN ELSE FirstUnits + Units(s)

\* divesystem_idive: a device without dives refuses to tell the range of their numbers.
NoRange == p.name = "divesystem_idive" /\ Held = {}

\* The version or the serial number is read, and DC_EVENT_DEVINFO emitted.
Identify ==
  /\ pc = "identify"
  /\ info' = TRUE
  /\ \/ /\ p.list = "none" /\ ~NoRange
        /\ Listed(Order) /\ UNCHANGED status
     \/ NoRange /\ Finish("SUCCESS") /\ UNCHANGED <<entries, progress>>
     \/ p.list # "none" /\ pc' = "list" /\ UNCHANGED <<entries, progress, status>>
  /\ UNCHANGED <<device, index, nchunks, data, mismatch, delivered, stopped>>

\* The whole logbook in one transfer.
ListWhole ==
  /\ pc = "list" /\ p.list = "whole"
  /\ Listed(UpToKnown(Order))
  /\ UNCHANGED <<device, index, nchunks, data, mismatch, info, delivered, stopped, status>>

\* hw_frog: a pointer of an entry, up to the one with the fingerprint, is
\* outside the ring of the profiles.
BadPointers ==
  /\ pc = "list" /\ p.name = "hw_frog" /\ Held # {}
  /\ current' = FirstUnits /\ Finish("DATAFORMAT")
  /\ UNCHANGED <<device, entries, index, nchunks, data, mismatch, info, maximum, delivered, stopped>>

Page(n) == SubSeq(Order, n + 1, IF n + PageLen < Len(Order) THEN n + PageLen ELSE Len(Order))

\* Mutant: a full page is taken for the last one.
LastPage_Full(s) == Len(s) <= PageLen

LastPage(s) == Len(s) < PageLen

\* divesoft_freedom: pages of records, until one of them is not full.
ListPage ==
  LET s == UpToKnown(Page(Len(entries)))
  IN  /\ pc = "list" /\ p.list = "pages"
      /\ IF LastPage(s) THEN Listed(entries \o s)
                        ELSE entries' = entries \o s /\ UNCHANGED <<pc, progress>>
      /\ UNCHANGED <<device, index, nchunks, data, mismatch, info, delivered, stopped, status>>

\* deepblu_cosmiq: one header after the other.
ListEach ==
  LET n == Len(Order)
      d == Order[Len(entries) + 1]
  IN  /\ pc = "list" /\ p.list = "each"
      /\ IF n = Len(entries) \/ Known(d)
           THEN Listed(entries)
           ELSE /\ entries' = Append(entries, d)
                /\ maximum' = (n + 1) * NSTEPS
                /\ current' = STEP(Len(entries) + 1, n)
                /\ UNCHANGED pc
      /\ UNCHANGED <<device, index, nchunks, data, mismatch, info, delivered, stopped, status>>

-----------------------------------------------------------------------------
Wanted == entries[index]

Reading == pc = "read" /\ ~stopped /\ index <= Len(entries)

\* What has been counted before the dive.
Before ==
  FirstUnits + Units(SubSeq(entries, 1, index - 1))

Chunks(n) ==
  CASE p.unit = "steps" -> STEP(n, Length(data'))
    [] p.unit = "bytes" -> n
    [] p.unit = "dives" -> IF n = Length(data') THEN 1 ELSE 0

Verified == p.wrong # "none" => data = Wanted

\* The dives the device may answer with: another one only where that is detected.
Answers ==
  {Wanted} \cup
    (IF p.wrong = "none" \/ (p.wrong = "SUCCESS" /\ ~Unreported) THEN {}
     ELSE {d \in Held : Length(d) = Length(Wanted)})

\* The next chunk of the dive.
ReadChunk ==
  /\ Reading /\ Wanted \notin missing
  /\ nchunks = 0 \/ nchunks < Length(data)
  /\ data' \in IF nchunks = 0 THEN Answers ELSE {data}
  /\ IF nchunks = 0 /\ p.stop = "header" /\ p.wrong # "none" /\ data' # Wanted
       THEN mismatch' = TRUE /\ Finish(p.wrong) /\ UNCHANGED <<nchunks, progress>>
       ELSE IF nchunks = 0 /\ p.stop = "header" /\ Known(data')
              THEN Finish("SUCCESS") /\ UNCHANGED <<nchunks, mismatch, progress>>
              ELSE /\ nchunks' = nchunks + 1
                   /\ current' = Before + Chunks(nchunks + 1)
                   /\ UNCHANGED <<maximum, pc, mismatch, status>>
  /\ UNCHANGED <<device, entries, index, info, delivered, stopped>>

Complete == Reading /\ nchunks > 0 /\ nchunks = Length(data)

\* The header in the dive is not the one in the logbook.
Mismatch ==
  /\ Complete /\ ~Verified
  /\ mismatch' = TRUE /\ Finish(p.wrong)
  /\ UNCHANGED <<device, entries, index, nchunks, data, info, progress, delivered, stopped>>

\* The dive is handed out, unless it is the one with the fingerprint.
HandOut ==
  /\ Complete /\ Verified
  /\ IF p.stop = "dive" /\ Known(data)
       THEN Finish("SUCCESS") /\ UNCHANGED <<index, nchunks, delivered, stopped>>
       ELSE /\ delivered' = Append(delivered, data)
            /\ stopped' \in BOOLEAN
            /\ index' = index + 1 /\ nchunks' = 0 /\ UNCHANGED <<pc, status>>
  /\ UNCHANGED <<device, entries, data, mismatch, info, progress>>

\* Mutant: a dive that is skipped is not counted.
SkipProgress_Not == current

\* halcyon_symbios counts a dive it skips; divesystem_idive does not, but the
\* progress of the next dive is computed from its index.
SkipProgress == IF p.list = "whole" THEN (index + 1) * NSTEPS ELSE current

\* The device refuses the dive: it is not available any more.
Skip ==
  /\ Reading /\ Wanted \in missing
  /\ index' = index + 1 /\ current' = SkipProgress
  /\ UNCHANGED <<device, pc, entries, nchunks, data, mismatch, info, maximum,
                 delivered, stopped, status>>

\* The loop ends: no dive is left, or the callback asked to stop.
Return ==
  /\ pc = "read" /\ (stopped \/ index > Len(entries))
  /\ Finish("SUCCESS")
  /\ UNCHANGED <<device, entries, index, nchunks, data, mismatch, info, progress, delivered, stopped>>

\* A transfer fails, or the application has cancelled the download.
TransferFails ==
  /\ pc \in {"identify", "list"} \/ (Reading /\ ~Complete)
  /\ \E s \in {"TIMEOUT", "CANCELLED"} : Finish(s)
  /\ UNCHANGED <<device, entries, index, nchunks, data, mismatch, info, progress, delivered, stopped>>

Finished == pc = "done" /\ UNCHANGED vars

Next ==
  \/ Foreach
  \/ Identify
  \/ ListWhole
  \/ BadPointers
  \/ ListPage
  \/ ListEach
  \/ ReadChunk
  \/ Mismatch
  \/ HandOut
  \/ Skip
  \/ Return
  \/ TransferFails
  \/ Finished

Spec == Init /\ [][Next]_vars

-----------------------------------------------------------------------------
TypeOK ==
  /\ pc \in {"idle", "identify", "list", "read", "done"}
  /\ entries \in Seq(Held) /\ index \in 1 .. Len(entries) + 1
  /\ nchunks \in 0 .. 2 /\ data \in {0} \cup Held
  /\ current \in Nat /\ maximum \in Nat
  /\ status \in {"none", "SUCCESS", "DATAFORMAT", "PROTOCOL", "TIMEOUT", "CANCELLED"}

\* The dives to hand out: newest first, those newer than the one with the
\* fingerprint if the device still has it, without the missing ones.
Log ==
  LET seen == IF fingerprint \in Held \/ p.layout = "any" THEN fingerprint ELSE 0
  IN  SetToSortSeq({d \in Held : d \notin missing /\ d > seen}, >)

Phase == CASE pc = "idle" -> "idle" [] pc = "done" -> "done" [] OTHER -> "running"

Download == INSTANCE DiveDownload WITH phase <- Phase, log <- Log

\* What an application may expect of every driver: the dives newest first,
\* none twice and none left out, up to the fingerprint; success only when all
\* were handed out; progress that never runs backward or past its maximum.
DownloadSpec == Download!Spec

\* A driver that has read a list first ends a successful download with its
\* progress at the maximum, dives skipped and the fingerprint met or not.
ProgressCompletes ==
  (status = "SUCCESS" /\ ~stopped /\ ~mismatch /\ p.list # "none") => current = maximum
=============================================================================
