--------------------------- MODULE StreamDownload ---------------------------
(***************************************************************************)
(* xxx_device_foreach of the drivers that find the dives in a stream that  *)
(* comes newest first, without a logbook, and do not know in advance where *)
(* a dive ends:                                                            *)
(*                                                                         *)
(* suunto_vyper: the device sends the next dive, backward, in packages;    *)
(*   the end of a dive is a pause, and the end of the ring a null package. *)
(* reefnet_sensusultra: pages are put in front of a buffer, which is       *)
(*   searched for markers after each of them; a marker may be cut by the   *)
(*   end of a page.                                                        *)
(* mares_iconhd, mares_smart: a ring is read backward; the end of a dive   *)
(*   has the number of its samples, its begin the length.  A Smart has     *)
(*   headers of two sizes and is read in one step more.                    *)
(*                                                                         *)
(* mem is the memory in the order it was written: its last cell is the     *)
(* newest.  Of a ring that has come round the oldest dive is cut.  How the *)
(* addresses of a ring follow each other is in RbStream.  A transfer works *)
(* or fails for good.  Cells stand for fields: a marker of four bytes has  *)
(* two cells, so that it can be cut.                                       *)
(***************************************************************************)
EXTENDS Integers, Sequences, SequencesExt, FiniteSetsExt

CONSTANTS
  R,            \* the cells of the memory
  SZ_PACKET,    \* the cells of a page or a package
  Samples,      \* the samples of a dive
  MaxDives,     \* bound: the dives since the memory was erased
  UINT_MAX

StreamAssumption ==
  /\ R \in Nat \ {0} /\ SZ_PACKET \in Nat \ {0} /\ R % SZ_PACKET = 0
  /\ Samples \subseteq Nat /\ MaxDives \in Nat /\ UINT_MAX \in Nat

Drivers == {"suunto_vyper", "reefnet_sensusultra", "mares_iconhd", "mares_smart"}
Mares   == {"mares_iconhd", "mares_smart"}

VARIABLES
  driver, dives, mem,        \* the device: its dives, newest first
  log,                       \* history: the dives this download has to hand out
  pointers,                  \* mares_iconhd: the two pointers to the end of the ring
  fingerprint,
  pc,
  buffer,                    \* the cells received
  offset, previous,          \* where the search is, and the end of the dive
  npackets,
  info, current, maximum, delivered, stopped, status

device   == <<driver, dives, mem, log, pointers, fingerprint>>
search   == <<buffer, offset, previous, npackets>>
progress == <<current, maximum>>
report   == <<delivered, stopped, status>>
vars     == <<device, pc, search, info, progress, report>>

-----------------------------------------------------------------------------
(***************************************************************************)
(* The memory.                                                             *)
(***************************************************************************)
Cell(kind, id, v) == [kind |-> kind, id |-> id, v |-> v]

Blank == Cell("FF", 0, 0)       \* also a byte of a footer
Zero  == Cell("00", 0, 0)

HEADER == 2
FOOTER == 2
MINIMUM == 4                    \* the 16 bytes of a header with its parameters

\* The size of a dive header: a free dive of a Smart has a shorter one.
HeaderSize(free) == IF driver = "mares_smart" /\ ~free THEN 3 ELSE 2

Profile(d) == [k \in 1 .. d.n |-> Cell("sample", d.id, k)]

MaresHeader(d) ==
  LET count == Cell("count", d.id, [n |-> d.n, free |-> d.flag])
      fp    == Cell("fp", d.id, 0)
  IN  CASE driver = "mares_iconhd" -> <<count, fp>>
        [] d.flag                  -> <<fp, count>>
        [] OTHER                   -> <<fp, Cell("more", d.id, 0), count>>

\* A dive as it lies in the memory.  flag: a free dive of the Smart, a time
\* stamp of the Sensus Ultra whose first byte is zero; other: a dive of the
\* Sensus Ultra without a footer.
Image(d) ==
  CASE driver = "suunto_vyper" -> <<Cell("fp", d.id, 0)>> \o Profile(d)
    [] driver = "reefnet_sensusultra" ->
         <<Zero, Zero, IF d.flag THEN Zero ELSE Cell("time", d.id, 0), Cell("time", d.id, 1)>>
           \o Profile(d) \o IF d.other THEN <<>> ELSE <<Blank, Blank>>
    [] driver \in Mares ->
         <<Cell("length", d.id, 1 + d.n + HeaderSize(d.flag))>> \o Profile(d) \o MaresHeader(d)

Size(k) == Len(Image(dives[k]))

\* What the Sensus Ultra has not written of its newest page.
Unwritten ==
  LET used == {k \in 1 .. R : mem[k] # Blank}
  IN  IF driver = "reefnet_sensusultra" /\ used # {} THEN R - FOOTER - Max(used) ELSE 0

\* The cells behind the k-th dive.
Newer(k) == FoldSet(LAMBDA j, sum : sum + Size(j), Unwritten, 1 .. k - 1)

\* The dives that are complete in the memory, and newer than the fingerprint.
Log ==
  LET whole == SelectSeq([k \in DOMAIN dives |-> k], LAMBDA k : Newer(k + 1) <= R)
      new   == SelectSeq(whole, LAMBDA k : dives[k].id > fingerprint /\ ~dives[k].other)
  IN  [k \in DOMAIN new |-> Image(dives[new[k]])]

Chronological(tail) ==
  FoldLeft(LAMBDA acc, d : Image(d) \o acc, tail, dives)

Kept(s, fill) ==
  IF Len(s) >= R THEN SubSeq(s, Len(s) - R + 1, Len(s)) ELSE [k \in 1 .. R - Len(s) |-> fill] \o s

Flags == IF driver \in {"reefnet_sensusultra", "mares_smart"} THEN BOOLEAN ELSE {FALSE}

Histories ==
  {[k \in DOMAIN h |-> [id |-> Len(h) + 1 - k, n |-> h[k].n, flag |-> h[k].flag, other |-> h[k].other]] :
     h \in UNION {[1 .. m -> [n : Samples, flag : Flags,
                              other : IF driver = "reefnet_sensusultra" THEN BOOLEAN ELSE {FALSE}]] :
                    m \in 0 .. MaxDives}}

\* A run of zeros that begins in one page, or before the begin of the memory,
\* and goes on with a whole header: the driver takes the rest of it for the
\* begin of the dive.
RunIsCut ==
  \/ \E k \in 1 .. R - 3 : /\ k % SZ_PACKET = 0
                            /\ mem[k] = Zero /\ mem[k + 1] = Zero /\ mem[k + 2] = Zero
  \/ \E k \in DOMAIN dives : dives[k].flag /\ Newer(k + 1) = R + 1

Init ==
  /\ driver \in Drivers
  /\ dives \in Histories
  /\ dives # <<>> => ~dives[1].other
  /\ \E fill \in IF driver \in Mares THEN {Blank, Cell("old", 0, 0)} ELSE {Blank} :
     \E tail \in IF driver = "reefnet_sensusultra" THEN {0, SZ_PACKET - 1, SZ_PACKET} ELSE {0} :
       mem = Kept(Chronological([k \in 1 .. tail |-> Blank]), fill)
  /\ driver = "reefnet_sensusultra" => ~RunIsCut
  /\ pointers \in IF driver \notin Mares THEN {<<>>}
                  ELSE {<<"valid", "valid">>, <<"bad", "valid">>, <<"bad", "bad">>} \cup
                       IF dives = <<>> THEN {<<"none", "none">>} ELSE {}
  /\ fingerprint \in 0 .. Len(dives)
  /\ log = Log
  /\ pc = "idle" /\ buffer = <<>> /\ offset = 0 /\ previous = 0 /\ npackets = 0
  /\ info = FALSE /\ current = 0 /\ maximum = 0
  /\ delivered = <<>> /\ stopped = FALSE /\ status = "none"

-----------------------------------------------------------------------------
Finish(s) == pc' = "done" /\ status' = s

Foreach ==
  /\ pc = "idle" /\ pc' = "identify"
  /\ maximum' = IF driver \in Mares THEN UINT_MAX ELSE R
  /\ UNCHANGED <<device, search, info, current, report>>

\* The devinfo block of the Vyper, the handshake of the Sensus Ultra, and the
\* serial number of the Icon HD.
Identify ==
  /\ pc = "identify" /\ info' = TRUE
  /\ \/ /\ driver = "suunto_vyper" /\ pc' = "package"
        /\ current' = 1 /\ maximum' = 1 + R
     \/ driver = "reefnet_sensusultra" /\ pc' = "page" /\ UNCHANGED progress
     \/ driver \in Mares /\ pc' = "pointer" /\ current' = 0 /\ maximum' = R
  /\ UNCHANGED <<device, search, report>>

\* The dive goes to the callback, unless it is the one with the fingerprint.
HandOut(dive, known, next) ==
  /\ delivered' = IF known THEN delivered ELSE Append(delivered, dive)
  /\ stopped' \in IF known THEN {FALSE} ELSE BOOLEAN
  /\ IF known THEN Finish("SUCCESS")
     ELSE pc' = (IF stopped' THEN "return" ELSE next) /\ UNCHANGED status

\* The callback has asked to stop.
Return ==
  /\ pc = "return" /\ Finish("SUCCESS")
  /\ UNCHANGED <<device, search, info, progress, delivered, stopped>>

-----------------------------------------------------------------------------
(***************************************************************************)
(* suunto_vyper.                                                           *)
(***************************************************************************)
Current == Len(delivered) + 1

\* What the ring still has of the dive that is sent.
Held ==
  IF Current > Len(dives) THEN 0
  ELSE IF Newer(Current) >= R THEN 0
  ELSE Min({Size(Current), R - Newer(Current)})

Complete == Current <= Len(dives) /\ Held = Size(Current)

\* The next package: the cells follow each other backward.
VyperPackage ==
  LET len == Min({SZ_PACKET, Held - Len(buffer)})
      top == R - Newer(Current) - Len(buffer)
  IN  /\ pc = "package" /\ Len(buffer) < Held
      /\ buffer' = buffer \o [k \in 1 .. len |-> mem[top + 1 - k]]
      /\ npackets' = npackets + 1
      /\ current' = Min({current + len, maximum})
      /\ UNCHANGED <<device, pc, offset, previous, info, maximum, report>>

\* Mutant: what has come before the null package is a dive.
NullPackage_Keeps ==
  IF buffer = <<>> THEN UNCHANGED buffer /\ Finish("SUCCESS")
  ELSE buffer' = Reverse(buffer) /\ pc' = "dive" /\ UNCHANGED status

\* The rest of the dive has been overwritten: what has come of it is dropped.
NullPackage == buffer' = <<>> /\ Finish("SUCCESS")

VyperNull ==
  /\ pc = "package" /\ Len(buffer) = Held /\ ~Complete
  /\ NullPackage
  /\ UNCHANGED <<device, offset, previous, npackets, info, progress, delivered, stopped>>

\* Nothing more comes: the dive is complete.
VyperPause ==
  /\ pc = "package" /\ npackets # 0 /\ Len(buffer) = Held /\ Complete
  /\ buffer' = Reverse(buffer) /\ pc' = "dive"
  /\ UNCHANGED <<device, offset, previous, npackets, info, progress, report>>

\* The cells of the ring the dives so far have left.
Remaining == FoldLeft(LAMBDA sum, dive : sum - Len(dive), R, delivered)

VyperDive ==
  /\ pc = "dive"
  /\ IF Len(buffer) > Remaining THEN Finish("DATAFORMAT") /\ UNCHANGED <<delivered, stopped>>
     ELSE HandOut(buffer, Head(buffer).id = fingerprint, "package")
  /\ buffer' = <<>> /\ npackets' = 0
  /\ UNCHANGED <<device, offset, previous, info, progress>>

-----------------------------------------------------------------------------
(***************************************************************************)
(* reefnet_sensusultra.                                                    *)
(***************************************************************************)
NextPage == SubSeq(mem, R - (npackets + 1) * SZ_PACKET + 1, R - npackets * SZ_PACKET)

SensusPage ==
  /\ pc = "page" /\ npackets * SZ_PACKET < R
  /\ current' = current + SZ_PACKET
  /\ IF Range(NextPage) = {Blank} /\ npackets # 0
       THEN Finish("SUCCESS") /\ UNCHANGED search
       ELSE /\ buffer' = NextPage \o buffer /\ npackets' = npackets + 1
            /\ offset' = offset + SZ_PACKET /\ previous' = previous + SZ_PACKET
            /\ pc' = "parse" /\ UNCHANGED status
  /\ UNCHANGED <<device, info, maximum, delivered, stopped>>

\* The ends of the header markers in the part of the buffer not yet searched.
Headers == {e \in HEADER .. offset : \A k \in e - HEADER + 1 .. e : buffer[k] = Zero}

\* Mutant: the marker is the end of a longer run of zeros.
StartOf_Last(e) == e - HEADER

\* The marker is at the begin of a run of zeros.
StartOf(e) == Max({0} \cup {k \in 1 .. e : buffer[k] # Zero})

\* The begins of the footers between the start of a dive and the next one.
Footers(start) ==
  {k \in start + MINIMUM .. previous - FOOTER : \A j \in 1 .. FOOTER : buffer[k + j] = Blank}

TimeAt(start) == buffer[start + MINIMUM].id

\* One header is found, and the dive is handed out if it has a footer.
SensusDive ==
  LET start == StartOf(Max(Headers))
  IN  /\ pc = "parse" /\ Headers # {}
      /\ offset' = start /\ previous' = start
      /\ IF Footers(start) = {} THEN UNCHANGED <<pc, report>>
         ELSE HandOut(SubSeq(buffer, start + 1, Min(Footers(start)) + FOOTER),
                      TimeAt(start) <= fingerprint, "parse")
      /\ UNCHANGED <<device, buffer, npackets, info, progress>>

\* Mutant: the next search does not look at the begin of the last page again.
Unsearched_None == 0

\* A header may begin in the next page.
Unsearched == Min({HEADER - 1, previous})

\* The page is accepted.
SensusAccept ==
  /\ pc = "parse" /\ Headers = {}
  /\ offset' = Unsearched
  /\ IF npackets * SZ_PACKET < R THEN pc' = "page" /\ UNCHANGED status ELSE Finish("SUCCESS")
  /\ UNCHANGED <<device, buffer, previous, npackets, info, progress, delivered, stopped>>

-----------------------------------------------------------------------------
(***************************************************************************)
(* mares_iconhd.                                                           *)
(***************************************************************************)
SZ_POINTER == 1

\* The first pointer that is inside the ring.
IconPointer ==
  LET p == pointers[npackets + 1]
  IN  /\ pc = "pointer"
      /\ current' = current + SZ_POINTER /\ maximum' = maximum + SZ_POINTER
      /\ npackets' = npackets + 1
      /\ \/ p = "valid" /\ pc' = "first" /\ offset' = R /\ UNCHANGED status
         \/ p # "valid" /\ npackets = 0 /\ UNCHANGED <<pc, offset, status>>
         \/ p # "valid" /\ npackets = 1 /\ UNCHANGED offset
            /\ Finish(IF p = "none" THEN "SUCCESS" ELSE "DATAFORMAT")
      /\ UNCHANGED <<device, buffer, previous, info, delivered, stopped>>

\* A Smart tells the type and the number of samples first.
FirstPart == IF driver = "mares_smart" THEN 1 ELSE 2

CountCell == mem[offset - FirstPart + 1]

IsDive == CountCell.kind # "FF"

\* Mutant: the room for the second part of the header is not checked.
HeaderFits_Any == TRUE

HeaderFits == offset >= HeaderSize(CountCell.kind = "count" /\ CountCell.v.free)

\* The first part of the header, unless too little of the ring is left.
IconFirst ==
  /\ pc = "first"
  /\ IF offset < FirstPart + 1 THEN Finish("SUCCESS") /\ UNCHANGED current
     ELSE /\ current' = current + FirstPart
          /\ IF IsDive /\ HeaderFits THEN pc' = "second" /\ UNCHANGED status ELSE Finish("SUCCESS")
  /\ UNCHANGED <<device, search, info, maximum, delivered, stopped>>

DiveHeader == HeaderSize(CountCell.kind = "count" /\ CountCell.v.free)
NSamples   == IF CountCell.kind = "count" THEN CountCell.v.n ELSE 0
NBytes     == 1 + DiveHeader + NSamples

\* Mutant: a dive that fills the rest of the ring is taken for incomplete.
DiveFits_More == offset > NBytes

\* Otherwise the dive is incomplete, and the last one.
DiveFits == offset >= NBytes

IconSecond ==
  /\ pc = "second"
  /\ current' = current + DiveHeader - FirstPart
  /\ IF DiveFits THEN pc' = "rest" /\ UNCHANGED status ELSE Finish("SUCCESS")
  /\ UNCHANGED <<device, search, info, maximum, delivered, stopped>>

LengthAgrees == mem[offset - NBytes + 1].kind = "length" /\ mem[offset - NBytes + 1].v = NBytes

IconRest ==
  /\ pc = "rest"
  /\ current' = current + NBytes - DiveHeader
  /\ offset' = offset - NBytes
  /\ IF LengthAgrees
       THEN HandOut(SubSeq(mem, offset - NBytes + 1, offset), CountCell.id = fingerprint, "first")
       ELSE Finish("SUCCESS") /\ UNCHANGED <<delivered, stopped>>
  /\ UNCHANGED <<device, buffer, previous, npackets, info, maximum>>

-----------------------------------------------------------------------------
Transfers == {"identify", "package", "page", "pointer", "first", "second", "rest"}

\* A transfer fails, or the application has cancelled the download.
TransferFails ==
  /\ \/ pc \in Transfers
     \/ pc = "parse" /\ Headers = {}
  /\ \E s \in {"TIMEOUT", "CANCELLED"} : Finish(s)
  /\ UNCHANGED <<device, search, info, progress, delivered, stopped>>

Finished == pc = "done" /\ UNCHANGED vars

Next ==
  \/ Foreach
  \/ Identify
  \/ VyperPackage
  \/ VyperNull
  \/ VyperPause
  \/ VyperDive
  \/ SensusPage
  \/ SensusDive
  \/ SensusAccept
  \/ IconPointer
  \/ IconFirst
  \/ IconSecond
  \/ IconRest
  \/ Return
  \/ TransferFails
  \/ Finished

Spec == Init /\ [][Next]_vars /\ WF_vars(Next)

-----------------------------------------------------------------------------
TypeOK ==
  /\ pc \in Transfers \cup {"idle", "parse", "dive", "return", "done"}
  /\ offset \in 0 .. R /\ previous \in 0 .. R /\ Len(buffer) <= R
  /\ npackets \in 0 .. R
  /\ status \in {"none", "SUCCESS", "DATAFORMAT", "TIMEOUT", "CANCELLED"}

Phase == CASE pc = "idle" -> "idle" [] pc = "done" -> "done" [] OTHER -> "running"

Download == INSTANCE DiveDownload WITH phase <- Phase
=============================================================================
