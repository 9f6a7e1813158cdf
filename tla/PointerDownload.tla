-------------------------- MODULE PointerDownload --------------------------
(***************************************************************************)
(* xxx_device_foreach of the drivers that get a list of addresses, one for *)
(* the start of each dive in a ring.  A dive reaches up to the start of    *)
(* the next newer one.  A first pass over the list, newest first, adds up  *)
(* the lengths until they exceed the ring, and a second pass reads the     *)
(* dives backward from the end of the newest.  A record describes each     *)
(* driver.                                                                 *)
(*                                                                         *)
(* A read of the stream takes the next addresses of the walk of RingWalk,  *)
(* which RbStream implements.  The device is external.  It has written its *)
(* dives one after the other, newer ones over older ones; or, if Corrupt,  *)
(* its pointers are anything.                                              *)
(***************************************************************************)
EXTENDS Integers, Sequences, SequencesExt, Ringbuffer

CONSTANTS
  PB, R,         \* the profile ring: its begin and its size
  L,             \* the slots of the logbook
  PerPage,       \* the slots of a page of it (liquivision_lynx.c)
  DiveSizes,     \* sizes a dive may have
  Corrupt        \* the pointers of the device are anything

PointerAssumption ==
  /\ PB \in Nat \ {0} /\ R \in Nat \ {0} /\ L \in Nat \ {0}
  /\ PerPage \in Nat \ {0} /\ L % PerPage = 0
  /\ DiveSizes \subseteq 1 .. R /\ Corrupt \in BOOLEAN

PE == PB + R

\* Sizes, in units of the ring.
SZ_HEADER == 2      \* the header of a dive
SZ_LIST == 1        \* the logbook of the Edy and the N2iTiON3, the range of the Screen
SZ_ADDRESS == 1     \* an address of the Screen
SZ_ENTRY == 2       \* an entry of the Lynx
SZ_PADDING == 1     \* the rest of a page of the Lynx
SZ_BOOK == L * SZ_ENTRY + (L \div PerPage) * SZ_PADDING

(***************************************************************************)
(* The drivers.  list: the whole list is read at once, or entry by entry   *)
(* backward, or the addresses are asked for by dive number; stop: where    *)
(* the fingerprint is compared; overflow: a dive that is no longer in the  *)
(* ring ends the list, or comes without a profile; header: the size of a   *)
(* header is required; info: a device info event is emitted.               *)
(***************************************************************************)
cressi_edy ==
  [name |-> "cressi_edy", list |-> "whole", stop |-> "dive", overflow |-> "cut",
   header |-> TRUE, info |-> TRUE]

zeagle_n2ition3 ==
  [name |-> "zeagle_n2ition3", list |-> "whole", stop |-> "dive", overflow |-> "cut",
   header |-> FALSE, info |-> FALSE]

liquivision_lynx ==
  [name |-> "liquivision_lynx", list |-> "entries", stop |-> "list", overflow |-> "empty",
   header |-> FALSE, info |-> TRUE]

seac_screen ==
  [name |-> "seac_screen", list |-> "numbers", stop |-> "list", overflow |-> "cut",
   header |-> TRUE, info |-> TRUE]

Drivers == {cressi_edy, zeagle_n2ition3, liquivision_lynx, seac_screen}

VARIABLES
  \* the device: its driver, the sizes of the dives, newest first, and what is
  \* used of them, where the newest ends, the slot of its entry, and whether
  \* its header is valid
  driver, size, used, eop, last, valid,
  fingerprint,               \* the dive with the fingerprint, 0 for none
  pc,
  list,                      \* the addresses of the driver
  idx, nbytes,               \* the slot to read next, and what was read of the logbook
  begin, count, skip,        \* the first dive to read, their number, those given up
  taken,                     \* the dives read
  total, remaining, previous, pos, top, at, len,
  info, current, maximum, delivered, stopped, status

device   == <<driver, size, used, eop, last, valid, fingerprint>>
progress == <<current, maximum>>
book     == <<list, idx, nbytes>>
plan     == <<begin, count, skip, taken>>
walk     == <<total, remaining, previous, pos, top, at, len>>
report   == <<delivered, stopped>>
vars     == <<device, pc, book, plan, walk, info, progress, report, status>>

-----------------------------------------------------------------------------
Addresses == PB .. PE - 1
Pointers  == Addresses \cup {PB - 1, PE}
InRing(p) == p \in Addresses

n == Len(size)
Known == fingerprint \in 1 .. n

\* The bytes written since dive k began, and where it began.
Behind(k) == FoldLeft(LAMBDA a, b : a + b, 0, SubSeq(size, 1, k))
Start(k) == ringbuffer_decrement(eop, Behind(k), PB, PE)

\* Only the Screen has dives that are padded, and looks at the newest header.
Init ==
  /\ driver \in Drivers
  /\ size \in UNION {[1 .. k -> DiveSizes] : k \in 0 .. L}
  /\ used \in [1 .. n -> DiveSizes]
  /\ \A k \in 1 .. n : used[k] <= size[k] /\ (k = 1 \/ driver.list # "numbers" => used[k] = size[k])
  /\ eop \in Addresses \cup {PE} /\ (eop = PE => driver.list = "entries")
  /\ last \in 0 .. L - 1 /\ (driver.list = "numbers" => last = 0)
  /\ valid \in BOOLEAN /\ (~valid => driver.list = "numbers" /\ n > 0 /\ Behind(n) <= R)
  /\ fingerprint \in 0 .. n
  /\ pc = "idle" /\ list = <<>> /\ idx = 0 /\ nbytes = 0
  /\ begin = 0 /\ count = 0 /\ skip = 0 /\ taken = 0
  /\ total = 0 /\ remaining = 0 /\ previous = 0 /\ pos = 0 /\ top = 0 /\ at = 0 /\ len = 0
  /\ info = FALSE /\ current = 0 /\ maximum = 0
  /\ delivered = <<>> /\ stopped = FALSE /\ status = "none"

\* The dive whose entry is in a slot, 0 if it is empty.
DiveIn(slot) ==
  LET k == ((last - slot) % L) + 1 IN IF k <= n THEN k ELSE 0

\* The address the device has for dive k.
PointerOf(k) == IF Corrupt THEN Pointers ELSE {Start(k)}

-----------------------------------------------------------------------------
Finish(s) == pc' = "done" /\ status' = s

Foreach ==
  /\ pc = "idle" /\ pc' = "list"
  /\ info' = driver.info
  /\ maximum' = CASE driver.list = "whole"   -> SZ_LIST + R
                  [] driver.list = "entries" -> SZ_LIST + SZ_BOOK + R
                  [] driver.list = "numbers" -> R
  /\ UNCHANGED <<device, book, plan, walk, current, report, status>>

\* The first pass starts with e as the end of the newest dive.
StartPlan(e) ==
  pc' = "plan" /\ previous' = e /\ top' = e /\ remaining' = R /\ count' = 0

\* Mutant: the number of entries is off by one.
Entries_Short(first) == ringbuffer_distance(first, last, DC_RINGBUFFER_EMPTY, 0, L)

\* The entries from the first to the last one.
Entries(first) == ringbuffer_distance(first, last, DC_RINGBUFFER_EMPTY, 0, L) + 1

PreviousSlot(i) == IF i = 0 THEN L - 1 ELSE i - 1

\* The addresses of m entries, from the last one backward.
Walked(m) ==
  LET slot[i \in 1 .. m] == IF i = 1 THEN last ELSE PreviousSlot(slot[i - 1])
  IN  IF Corrupt THEN [1 .. m -> Pointers]
      ELSE {[i \in 1 .. m |-> Start(DiveIn(slot[i]))]}

\* cressi_edy and zeagle_n2ition3: one read of the logbook with its pointers.
ReadList ==
  /\ pc = "list" /\ driver.list = "whole"
  /\ \/ n = 0 /\ Finish("SUCCESS") /\ UNCHANGED <<list, count, walk>>
     \/ Corrupt /\ Finish("DATAFORMAT") /\ UNCHANGED <<list, count, walk>>
     \/ /\ n > 0
        /\ list' \in Walked(Entries((last - (n - 1)) % L))
        /\ \E e \in IF Corrupt THEN Addresses ELSE {eop} : StartPlan(e)
        /\ UNCHANGED <<total, pos, at, len, status>>
  /\ UNCHANGED <<device, idx, nbytes, begin, skip, taken, info, progress, report>>

\* liquivision_lynx: the configuration with the pointers to both rings.
ReadConfig ==
  /\ pc = "list" /\ driver.list = "entries"
  /\ \/ Corrupt /\ Finish("DATAFORMAT") /\ UNCHANGED <<idx, current, walk>>
     \/ /\ \E e \in IF Corrupt THEN Addresses \cup {PE} ELSE {eop} : top' = e
        /\ pc' = "book" /\ idx' = last /\ current' = current + SZ_LIST
        /\ UNCHANGED <<status, total, remaining, previous, pos, at, len>>
  /\ UNCHANGED <<device, list, nbytes, plan, info, maximum, report>>

\* Mutant: the padding at the end of a page is not read.
Padding_Not(slot) == 0

\* The padding of a page is read before its last entry.
Padding(slot) == IF (slot + 1) % PerPage = 0 THEN SZ_PADDING ELSE 0

\* One entry of the Lynx, from the last one backward, up to an empty one or the
\* one with the fingerprint.
ReadEntry ==
  /\ pc = "book" /\ nbytes < SZ_BOOK
  /\ LET m == Padding(idx) + SZ_ENTRY
         k == DiveIn(idx)
         ends == k = 0 \/ (Known /\ k = fingerprint)
     IN  /\ nbytes' = nbytes + m /\ current' = current + m
         /\ idx' = PreviousSlot(idx)
         /\ \/ Corrupt /\ k > 0 /\ Finish("DATAFORMAT") /\ UNCHANGED list
            \/ ends /\ pc' = "booked" /\ UNCHANGED <<list, status>>
            \/ /\ ~ends /\ \E p \in PointerOf(k) : list' = Append(list, p)
               /\ UNCHANGED <<pc, status>>
  /\ UNCHANGED <<device, plan, walk, info, maximum, report>>

BookRead ==
  /\ pc = "booked" \/ (pc = "book" /\ nbytes >= SZ_BOOK)
  /\ maximum' = maximum - (SZ_BOOK - nbytes)
  /\ StartPlan(top)
  /\ UNCHANGED <<device, book, begin, skip, taken, total, pos, at, len, info, current, report, status>>

\* The dives with a number above that of the fingerprint.
NewDives == IF Known THEN fingerprint - 1 ELSE n

\* seac_screen: the range of the dive numbers.
ReadRange ==
  /\ pc = "list" /\ driver.list = "numbers"
  /\ IF n = 0
       THEN Finish("DATAFORMAT") /\ UNCHANGED <<count, walk, progress>>
       ELSE /\ current' = current + SZ_LIST
            /\ maximum' = maximum + SZ_LIST + NewDives * SZ_ADDRESS
            /\ IF NewDives = 0
                 THEN Finish("SUCCESS") /\ UNCHANGED <<count, walk>>
                 ELSE StartPlan(0) /\ UNCHANGED <<status, total, pos, at, len>>
  /\ UNCHANGED <<device, book, begin, skip, taken, info, report>>

\* The entries of the first pass that were looked at.
Done == count + skip

\* The address of the next dive is asked for, and with the first one its
\* header: without a valid header the dive is given up.
ReadAddress ==
  /\ pc = "plan" /\ driver.list = "numbers" /\ Len(list) = Done /\ Done < NewDives
  /\ \E p \in PointerOf(Done + 1) :
       /\ list' = Append(list, p)
       /\ \/ /\ ~InRing(p) /\ Finish("DATAFORMAT")
             /\ current' = current + SZ_ADDRESS
             /\ UNCHANGED <<begin, skip, top, previous, maximum>>
          \/ /\ InRing(p) /\ top # 0
             /\ current' = current + SZ_ADDRESS
             /\ UNCHANGED <<begin, skip, top, previous, maximum, pc, status>>
          \/ /\ InRing(p) /\ top = 0
             /\ current' = current + SZ_ADDRESS + SZ_HEADER /\ maximum' = maximum + SZ_HEADER
             /\ IF valid
                  THEN /\ \E m \in IF Corrupt THEN SZ_HEADER .. SZ_HEADER + R ELSE {used[1]} :
                            top' = ringbuffer_increment(p, m, PB, PE)
                       /\ UNCHANGED <<begin, skip>>
                  ELSE top' = p /\ begin' = 1 /\ skip' = skip + 1
             /\ previous' = top' /\ UNCHANGED <<pc, status>>
  /\ UNCHANGED <<device, idx, nbytes, count, taken, total, remaining, pos, at, len, info, report>>

\* The length of the dive at p, and whether it is no longer in the ring.
Length(p) == ringbuffer_distance(p, previous, DC_RINGBUFFER_FULL, PB, PE)

\* Mutant: a dive may exceed what is left of the ring by one.
Overflows_Late(m) == m > remaining + 1

Overflows(m) == m > remaining

\* Mutant: an older dive that fits may follow a lost one.
LeftAfterLost_All == remaining

\* After a dive that is lost, the older ones are lost too.
LeftAfterLost == 0

\* The first pass: one entry of the list.
Plan ==
  /\ pc = "plan" /\ Done < Len(list)
  /\ LET p == list[Done + 1]
         m == Length(p)
     IN  \/ /\ ~InRing(p) /\ Finish("DATAFORMAT")
            /\ UNCHANGED <<count, skip, total, remaining, previous>>
         \/ /\ InRing(p) /\ ~Overflows(m)
            /\ total' = total + m /\ remaining' = remaining - m
            /\ previous' = p /\ count' = count + 1
            /\ UNCHANGED <<pc, status, skip>>
         \/ /\ InRing(p) /\ Overflows(m) /\ driver.overflow = "empty"
            /\ remaining' = LeftAfterLost /\ previous' = p /\ count' = count + 1
            /\ UNCHANGED <<pc, status, skip, total>>
         \/ /\ InRing(p) /\ Overflows(m) /\ driver.overflow = "cut"
            /\ pc' = "planned" /\ skip' = IF driver.list = "numbers" THEN skip + 1 ELSE skip
            /\ UNCHANGED <<status, count, total, remaining, previous>>
  /\ UNCHANGED <<device, book, begin, taken, pos, top, at, len, info, progress, report>>

PlanEnds ==
  pc = "planned" \/ (pc = "plan" /\ Done = IF driver.list = "numbers" THEN NewDives ELSE Len(list))

\* The stream is made, and the second pass begins.
Planned ==
  /\ PlanEnds
  /\ IF driver.list = "whole"
       THEN current' = current + SZ_LIST /\ maximum' = SZ_LIST + total
       ELSE /\ maximum' = maximum - (R - total) -
                 (IF driver.list = "numbers" THEN (NewDives - Done) * SZ_ADDRESS ELSE 0)
            /\ UNCHANGED current
  /\ remaining' = total /\ previous' = top /\ pos' = top
  /\ pc' = "read"
  /\ UNCHANGED <<device, book, plan, total, top, at, len, info, report, status>>

AllRead == taken = count

\* What is used of a dive: the rest of it is padding.
Used(k, m) ==
  IF driver.list # "numbers" THEN {m}
  ELSE IF Corrupt THEN {m, m + 1, SZ_HEADER} ELSE {used[k]}

\* The second pass: one dive is read.  Only the Lynx compares its length with
\* what remains once more.
ReadDive ==
  /\ pc = "read" /\ ~AllRead
  /\ LET p == list[begin + taken + 1]
         lost == driver.overflow = "empty" /\ Overflows(Length(p))
         m == IF lost THEN 0 ELSE Length(p)
     IN  /\ remaining' = (IF lost THEN LeftAfterLost ELSE remaining - m) /\ previous' = p /\ at' = p
         /\ pos' = IF m = 0 THEN pos ELSE ringbuffer_decrement(pos, m, PB, PE)
         /\ current' = current + m
         /\ \E u \in Used(begin + taken + 1, m) :
              /\ len' = u
              /\ IF driver.header /\ (m < SZ_HEADER \/ u > m)
                   THEN Finish("DATAFORMAT") ELSE pc' = "dive" /\ UNCHANGED status
  /\ UNCHANGED <<device, book, plan, total, top, info, maximum, report>>

Matches == driver.stop = "dive" /\ Known /\ begin + taken + 1 = fingerprint

HandOut ==
  /\ pc = "dive"
  /\ IF Matches
       THEN Finish("SUCCESS") /\ UNCHANGED <<taken, report>>
       ELSE /\ delivered' = Append(delivered, [start |-> at, size |-> len])
            /\ stopped' \in BOOLEAN /\ taken' = taken + 1
            /\ pc' = IF stopped' THEN "stop" ELSE "read"
            /\ UNCHANGED status
  /\ UNCHANGED <<device, book, begin, count, skip, walk, info, progress>>

Return ==
  /\ pc = "stop" \/ (pc = "read" /\ AllRead)
  /\ Finish("SUCCESS")
  /\ UNCHANGED <<device, book, plan, walk, info, progress, report>>

\* A transfer fails, or the application has cancelled the download.
ReadFails ==
  /\ \/ pc \in {"list", "book"}
     \/ pc = "plan" /\ driver.list = "numbers" /\ Len(list) = Done
     \/ pc = "read" /\ ~AllRead
  /\ \E s \in {"TIMEOUT", "CANCELLED"} : Finish(s)
  /\ UNCHANGED <<device, book, plan, walk, info, progress, report>>

Finished == pc = "done" /\ UNCHANGED vars

Next ==
  \/ Foreach
  \/ ReadList
  \/ ReadConfig
  \/ ReadEntry
  \/ BookRead
  \/ ReadRange
  \/ ReadAddress
  \/ Plan
  \/ Planned
  \/ ReadDive
  \/ HandOut
  \/ Return
  \/ ReadFails
  \/ Finished

Spec == Init /\ [][Next]_vars

-----------------------------------------------------------------------------
\* The state has its types, no more entries are listed than the logbook has,
\* and no more bytes planned for than the ring has.
TypeOK ==
  /\ driver \in Drivers
  /\ pc \in {"idle", "list", "book", "booked", "plan", "planned", "read", "dive", "stop", "done"}
  /\ Len(list) <= L /\ total \in 0 .. R
  /\ status \in {"none", "SUCCESS", "DATAFORMAT", "TIMEOUT", "CANCELLED"}

\* Whatever the pointers are, both passes agree: the second one never reads
\* more than the first has made room for, and has used all of it in the end;
\* the progress is complete then, and never exceeds its maximum (asserted by
\* device_event_emit).
PassesAgree ==
  /\ remaining >= 0
  /\ pc = "read" /\ AllRead => remaining = 0 /\ current = maximum
  /\ pc # "idle" /\ status # "DATAFORMAT" => current <= maximum

\* Whatever the pointers are, the bytes handed out are those between the
\* pointers: the stream is where the driver thinks it is.
InStep ==
  pc = "dive" /\ len > 0 => ringbuffer_normalize(pos, PB, PE) = at

Phase == CASE pc = "idle" -> "idle" [] pc = "done" -> "done" [] OTHER -> "running"

\* The dives newer than the one with the fingerprint that are still in the
\* ring; the Lynx also hands out the headers of those that are not; the Screen
\* gives up the newest one if its header is not valid.
Log ==
  LET new == 1 .. (IF Known THEN fingerprint - 1 ELSE n)
      ks  == IF driver.overflow = "empty" THEN new ELSE {k \in new : Behind(k) <= R}
      all == [k \in ks |-> [start |-> Start(k), size |-> IF Behind(k) <= R THEN used[k] ELSE 0]]
  IN  IF valid \/ all = <<>> THEN all ELSE Tail(all)

Info == IF driver.info THEN info ELSE pc # "idle"

Download == INSTANCE DiveDownload WITH phase <- Phase, log <- Log, info <- Info

\* With sound pointers each driver hands out what DiveDownload promises: every
\* dive that is still in the ring, newest first, with its own bytes.
DownloadSpec == Download!Spec
=============================================================================
