-------------------------- MODULE PredatorDownload --------------------------
(***************************************************************************)
(* Downloading the dives of a Shearwater Predator, or of a Petrel in the   *)
(* old protocol (shearwater_predator.c).                                   *)
(*                                                                         *)
(* The memory of the device is downloaded as a whole.  It holds a ring of  *)
(* N blocks (addresses are counted in blocks of SZ_BLOCK bytes) and one    *)
(* final block.  A dive is a header block, data blocks and a footer block. *)
(* On the Predator the newest dive may end anywhere, so the driver first   *)
(* searches the ring backward for the dive with the highest number, copies *)
(* the ring so that it ends with that dive, and then walks the copy        *)
(* backward.  The Petrel sends its dives in order, newest first.           *)
(***************************************************************************)
EXTENDS Integers, Sequences, SequencesExt

CONSTANTS
  N,            \* the blocks of the ring, RB_PROFILE_END
  MaxDives,     \* bound: the complete dives of the device
  Lens,         \* the lengths of dives in blocks
  AllLayouts    \* FALSE: only the layouts the search can deal with, see Searchable

PredatorAssumption ==
  /\ N \in Nat \ {0} /\ MaxDives \in Nat /\ Lens \subseteq Nat \ {0, 1}
  /\ AllLayouts \in BOOLEAN

\* A dive has its number from an internal counter: here MaxDives + 1 for the
\* newest, and 1 or more for the oldest.
Empty == [kind |-> "empty", dive |-> 0, part |-> 0]
FinalBlock == [kind |-> "final", dive |-> 0, part |-> 0]

VARIABLES
  petrel,                      \* the model number says Petrel
  mem,                         \* the ring of the device, 0 .. N - 1
  fingerprint,                 \* the number of the last seen dive, or 0
  wrong,                       \* the footer of this dive has another number
  pc, offset, begin,           \* the driver
  mark, marked,                \* footer, have_footer (header, have_header)
  highest, eop, buffer,
  handed,                      \* what the callback got: a dive and the blocks
  stopped, info, current, maximum, status

device == <<petrel, mem, fingerprint, wrong>>
report == <<handed, stopped, info, status>>
scan   == <<offset, begin, mark, marked, highest, eop>>
vars   == <<device, pc, scan, buffer, report, current, maximum>>

(***************************************************************************)
(* The device.  Its n complete dives are counted from the newest one, as   *)
(* are its blocks: dive j has the blocks from at[j] up to at[j + 1]; of    *)
(* the dive before them, which had `oldest' blocks, `cut' are left.        *)
(***************************************************************************)
Block(d, length, part) ==
  [kind |-> IF part = length THEN "footer" ELSE IF part = 1 THEN "header" ELSE "data",
   dive |-> d, part |-> part]

Packed(n, at) ==
  /\ at[1] = 0 /\ \A j \in 1 .. n : at[j + 1] - at[j] \in Lens
  /\ \A j, k \in 1 .. n + 1 : j < k => at[j] < at[k]

\* The dive that has the block, if any.
Holders(n, at, age) == {j \in 1 .. n : age \in at[j] .. at[j + 1] - 1}

BlockOfAge(n, at, oldest, cut, age) ==
  IF Holders(n, at, age) # {}
    THEN LET j == CHOOSE j \in Holders(n, at, age) : TRUE
         IN  Block(MaxDives + 2 - j, at[j + 1] - at[j], at[j + 1] - age)
  ELSE IF age \in at[n + 1] .. at[n + 1] + cut - 1
    THEN Block(MaxDives + 1 - n, oldest, oldest - (age - at[n + 1]))
  ELSE Empty

\* The Predator: the newest dive ends with the block before `end'.
Ring(n, at, oldest, cut, end) ==
  [i \in 0 .. N - 1 |->
     BlockOfAge(n, at, oldest, cut, IF i < end THEN end - 1 - i ELSE end - 1 - i + N)]

\* The Petrel: newest dive first, each with its header in front.
Ordered(n, at) ==
  [i \in 0 .. N - 1 |->
     IF Holders(n, at, i) = {} THEN Empty
     ELSE LET j == CHOOSE j \in Holders(n, at, i) : TRUE
          IN  Block(MaxDives + 2 - j, at[j + 1] - at[j], i - at[j] + 1)]

Dives(memory) == {b.dive : b \in {memory[i] : i \in 0 .. N - 1}} \ {0}

Complete(memory, d) == \E i \in 0 .. N - 1 : memory[i].kind = "header" /\ memory[i].dive = d

\* The first dive the search meets does not end with the last block of the
\* ring, and a dive across the wrap point is not the only complete one.
Searchable(memory) ==
  /\ memory[N - 1].kind = "footer" => ~Complete(memory, memory[N - 1].dive)
  /\ LET complete == {d \in Dives(memory) : Complete(memory, d)}
         across   == {d \in complete : memory[0].dive = d /\ memory[0].kind # "header"}
     IN  complete # {} => complete \ across # {}

Init ==
  /\ petrel \in BOOLEAN
  /\ \E n \in 0 .. MaxDives, oldest \in Lens, end \in 1 .. N :
       \E at \in [1 .. n + 1 -> 0 .. N], cut \in 0 .. oldest - 1 :
         /\ Packed(n, at) /\ at[n + 1] + cut <= N
         /\ petrel => cut = 0 /\ end = N
         /\ mem = IF petrel THEN Ordered(n, at) ELSE Ring(n, at, oldest, cut, end)
  /\ petrel \/ AllLayouts \/ Searchable(mem)
  /\ fingerprint \in {0} \cup {d \in Dives(mem) : Complete(mem, d)}
  /\ wrong \in {0} \cup {d \in Dives(mem) : Complete(mem, d)}
  /\ pc = "idle" /\ offset = N /\ begin = 0 /\ mark = 0 /\ marked = FALSE
  /\ highest = 0 /\ eop = N /\ buffer = <<>>
  /\ handed = <<>> /\ stopped = FALSE /\ info = FALSE
  /\ current = 0 /\ maximum = 0 /\ status = "none"

FooterNumber(b) == IF b.dive = wrong THEN 0 ELSE b.dive

Finish(s) == pc' = "done" /\ status' = s

\* shearwater_predator_device_foreach: the dump, with its progress, and the
\* DEVINFO event, which comes after the download.
NSTEPS == 10000

Foreach ==
  /\ pc = "idle"
  /\ pc' = "dump" /\ maximum' = NSTEPS
  /\ UNCHANGED <<device, scan, buffer, report, current>>

Dump ==
  /\ pc = "dump"
  /\ \/ /\ current' = NSTEPS /\ info' = TRUE
        /\ pc' = IF petrel THEN "petrel" ELSE "search"
        /\ offset' = IF petrel THEN 0 ELSE N
        /\ UNCHANGED status
     \/ /\ current' \in {0, NSTEPS \div 2}
        /\ \E s \in {"IO", "TIMEOUT", "PROTOCOL", "CANCELLED", "NOMEMORY"} : Finish(s)
        /\ UNCHANGED <<info, offset>>
     \/ /\ petrel   \* no memory for the profiles
        /\ current' = NSTEPS /\ info' = TRUE
        /\ Finish("NOMEMORY") /\ UNCHANGED offset
  /\ UNCHANGED <<device, begin, mark, marked, highest, eop, buffer, handed, stopped, maximum>>

\* The block in front of an address, across the wrap point.
Before(address) == (IF address = 0 THEN N ELSE address) - 1

\* Mutant: the begin of the search follows every dive.
Begin_EveryDive == mark + 1

\* Mutant: the search always ends at the begin of the ring.
Begin_Fixed == begin

\* The search ends behind the first dive it found.
Begin == IF begin = 0 THEN mark + 1 ELSE begin

\* One round of the search for the highest number.
Search ==
  /\ pc = "search" /\ offset # begin
  /\ LET o == Before(offset)
         b == mem[o]
     IN  /\ offset' = o
         /\ IF b.kind = "header" /\ marked
              THEN /\ begin' = Begin
                   /\ highest' = IF b.dive > highest THEN b.dive ELSE highest
                   /\ eop' = IF b.dive > highest THEN mark + 1 ELSE eop
                   /\ marked' = FALSE
                   /\ IF b.dive # FooterNumber(mem[mark])
                        THEN Finish("DATAFORMAT") ELSE UNCHANGED <<pc, status>>
                   /\ UNCHANGED mark
              ELSE IF b.kind = "footer"
                THEN mark' = o /\ marked' = TRUE
                     /\ UNCHANGED <<begin, highest, eop, pc, status>>
                ELSE UNCHANGED <<begin, highest, eop, mark, marked, pc, status>>
  /\ UNCHANGED <<device, buffer, handed, stopped, info, current, maximum>>

\* The ring from eop to eop, and room for one more block.
Linear == [i \in 0 .. N |-> IF i < N THEN mem[(eop + i) % N] ELSE FinalBlock]

\* Mutant: the footer marker of the search is not reset.
Linearize_KeepsFooter ==
  /\ pc = "search" /\ offset = begin
  /\ pc' = "extract" /\ buffer' = Linear
  /\ offset' = N
  /\ UNCHANGED <<device, begin, mark, marked, highest, eop, report, current, maximum>>

Linearize ==
  /\ pc = "search" /\ offset = begin
  /\ \/ /\ pc' = "extract" /\ buffer' = Linear
        /\ offset' = N /\ mark' = 0 /\ marked' = FALSE
        /\ UNCHANGED status
     \/ Finish("NOMEMORY") /\ UNCHANGED <<buffer, offset, mark, marked>>
  /\ UNCHANGED <<device, begin, highest, eop, handed, stopped, info, current, maximum>>

\* The blocks given to the callback: the dive and the block behind it.
Data(buf, first, length) == [k \in 1 .. length + 1 |-> buf[first + k - 1]]

\* Mutant: one block less, the footer is overwritten.
Length_NoFooter(first, last) == last - first

Length(first, last) == last + 1 - first

\* The fingerprint ends the download, as does the callback.
HandOut(buf, first, length, continue) ==
  LET d == buf[first].dive
  IN  IF d = fingerprint
        THEN pc' = "return" /\ UNCHANGED <<handed, stopped>>
        ELSE /\ handed' = Append(handed, [dive |-> d, blocks |-> Data(buf, first, length)])
             /\ stopped' \in BOOLEAN
             /\ pc' = IF stopped' THEN "return" ELSE continue

\* One round of the walk through the copy; the final block is put behind the
\* dive, over the newer dive that was there.
Extract ==
  /\ pc = "extract" /\ offset # 0
  /\ LET o == offset - 1
         b == buffer[o]
     IN  /\ offset' = o
         /\ IF b.kind = "empty"
              THEN pc' = "return" /\ UNCHANGED <<mark, marked, buffer, handed, stopped, status>>
            ELSE IF b.kind = "header" /\ marked
              THEN /\ buffer' = [buffer EXCEPT ![o + Length(o, mark)] = FinalBlock]
                   /\ HandOut(buffer', o, Length(o, mark), "extract")
                   /\ marked' = FALSE /\ UNCHANGED <<mark, status>>
            ELSE IF b.kind = "footer"
              THEN mark' = o /\ marked' = TRUE
                   /\ UNCHANGED <<buffer, handed, stopped, pc, status>>
            ELSE UNCHANGED <<mark, marked, buffer, handed, stopped, pc, status>>
  /\ UNCHANGED <<device, begin, highest, eop, info, current, maximum>>

\* The bytes of a dive and the final block, copied to the front of a buffer.
Copied(first, length) ==
  [k \in 0 .. length |-> IF k < length THEN mem[first + k] ELSE FinalBlock]

\* One round of the walk through the memory of a Petrel.
ExtractPetrel ==
  /\ pc = "petrel" /\ offset # N
  /\ LET b == mem[offset]
     IN  /\ offset' = offset + 1
         /\ IF b.kind = "empty"
              THEN pc' = "return" /\ UNCHANGED <<mark, marked, buffer, handed, stopped, status>>
            ELSE IF b.kind = "header"
              THEN mark' = offset /\ marked' = TRUE
                   /\ UNCHANGED <<buffer, handed, stopped, pc, status>>
            ELSE IF b.kind = "footer" /\ marked
              THEN IF FooterNumber(b) # mem[mark].dive
                     THEN Finish("DATAFORMAT") /\ UNCHANGED <<mark, marked, buffer, handed, stopped>>
                     ELSE /\ buffer' = Copied(mark, Length(mark, offset))
                          /\ HandOut(buffer', 0, Length(mark, offset), "petrel")
                          /\ marked' = FALSE /\ UNCHANGED <<mark, status>>
            ELSE UNCHANGED <<mark, marked, buffer, handed, stopped, pc, status>>
  /\ UNCHANGED <<device, begin, highest, eop, info, current, maximum>>

\* The end of the loops, and the return.
Return ==
  /\ \/ pc = "return"
     \/ pc = "extract" /\ offset = 0
     \/ pc = "petrel" /\ offset = N
  /\ Finish("SUCCESS")
  /\ UNCHANGED <<device, scan, buffer, handed, stopped, info, current, maximum>>

Done == pc = "done" /\ UNCHANGED vars

Next ==
  \/ Foreach
  \/ Dump
  \/ Search
  \/ Linearize
  \/ Extract
  \/ ExtractPetrel
  \/ Return
  \/ Done

\* The download is a sequential program: it keeps going until it returns.
Spec == Init /\ [][Next]_vars /\ WF_vars(Next)

-----------------------------------------------------------------------------

TypeOK ==
  /\ pc \in {"idle", "dump", "search", "extract", "petrel", "return", "done"}
  /\ offset \in 0 .. N /\ begin \in 0 .. N /\ eop \in 0 .. N
  /\ mark \in 0 .. N - 1 /\ marked \in BOOLEAN
  /\ pc = "extract" /\ marked => offset <= mark
  /\ status \in {"none", "SUCCESS", "DATAFORMAT", "IO", "TIMEOUT", "PROTOCOL", "CANCELLED",
                "NOMEMORY"}

\* The complete dives in front of the fingerprint, newest first.
Expected ==
  SetToSortSeq({d \in Dives(mem) : Complete(mem, d) /\ d > fingerprint}, LAMBDA a, b : a > b)

Download == INSTANCE DiveDownload WITH
  phase     <- IF pc \in {"idle", "done"} THEN pc ELSE "running",
  log       <- Expected,
  delivered <- [k \in DOMAIN handed |-> handed[k].dive]

\* Wherever the newest dive ends in the ring, and whether or not a dive lies
\* across the wrap point or the oldest one is partly overwritten, the complete
\* dives in front of the fingerprint are handed out, newest first.
DownloadSpec == Download!Spec

\* Every dive is handed out with its own blocks, from its header to its
\* footer, and the final block behind them: the final blocks written into the
\* shared buffer destroy no dive that is still to come.
OwnBlocks ==
  \A k \in DOMAIN handed :
    LET b == handed[k].blocks
        n == Len(b)
    IN  /\ b[1].kind = "header" /\ b[n - 1].kind = "footer" /\ b[n] = FinalBlock
        /\ \A j \in 1 .. n - 1 : b[j].dive = handed[k].dive /\ b[j].part = j
=============================================================================
