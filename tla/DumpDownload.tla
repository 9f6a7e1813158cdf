---------------------------- MODULE DumpDownload ----------------------------
(***************************************************************************)
(* The drivers that read the whole memory of the device first and then     *)
(* look for the dives in it (xxx_device_dump and xxx_extract_dives),       *)
(* newest first, up to the fingerprint.  They know where the newest dive   *)
(* ends and find the older ones by a marker, by a length, or with a        *)
(* logbook.                                                                *)
(*                                                                         *)
(* A cell of the memory is a field of a dive: a marker, a number, or bytes *)
(* that belong to the dive whose number is v, however many bytes it has.   *)
(* What a driver hands out is a sequence of cells, so that it can be seen  *)
(* whether a dive is handed out whole and with nothing of another.         *)
(*                                                                         *)
(* The device is external.  The dives it has recorded lie one after the    *)
(* other; in a ring the oldest are overwritten.  No byte of a dive is      *)
(* mistaken for a marker.                                                  *)
(***************************************************************************)
EXTENDS Integers, Sequences, SequencesExt, FiniteSets, FiniteSetsExt, Ringbuffer

CONSTANTS
  R,          \* the cells of the memory for the profiles
  LB,         \* the entries of a logbook
  Samples,    \* the numbers of samples of a dive
  PuckSamples,  \* and of a dive of a Puck, which has more in every sample
  MaxDives,   \* bound: the dives the device has recorded
  Tops,       \* where in a ring the newest dive ends
  UINT_MAX    \* the maximum of a progress event that is not known yet

DumpAssumption ==
  /\ R \in Nat /\ R > 4 /\ LB \in Nat \ {0} /\ MaxDives \in Nat
  /\ Samples \subseteq Nat \ {0} /\ PuckSamples \subseteq Nat \ {0}
  /\ Tops \subseteq 0 .. R - 1 /\ UINT_MAX \in Nat

VARIABLES
  driver,
  dives,         \* the device: all dives recorded, newest first
  mem, eop,      \* its memory, and where the next dive will be written
  book, eol,     \* its logbook, and the newest entry in it
  fingerprint,   \* the number of the dive with the fingerprint, 0 for none
  log,           \* the dives this download has to hand out (history)
  pc, step,      \* the driver, and the step of its dump
  at,            \* its position in the memory
  info, current, maximum, delivered, stopped, status

device   == <<driver, dives, mem, eop, book, eol, fingerprint, log>>
progress == <<current, maximum>>
report   == <<info, delivered, stopped>>
vars     == <<device, pc, step, at, progress, report, status>>

Size == Cardinality(DOMAIN mem)

(***************************************************************************)
(* The dumps: what each step adds to the progress, and how it can fail     *)
(* before that; the step after which the device information is emitted;    *)
(* the step that announces the maximum, and the maximum until then.        *)
(***************************************************************************)
Dump(steps, fails, informs, announces, guess) ==
  [steps |-> steps, fails |-> fails, informs |-> informs, announces |-> announces, guess |-> guess]

Failure == {"TIMEOUT", "PROTOCOL"}
Cancel  == {"CANCELLED"}

\* The last step is the verification of the checksum.
suunto_eon_device_dump ==
  Dump(<<Size + 1, 0>>, <<{"TIMEOUT"}, {"PROTOCOL"}>>, 2, 0, 0)

\* A wrong answer is only logged.
suunto_solution_device_dump ==
  Dump(<<1, Size - 1, 1>>, <<{"TIMEOUT"}, {"TIMEOUT"}, {"TIMEOUT"}>>, 3, 0, 0)

\* The first step is the handshake.
reefnet_sensus_device_dump ==
  Dump(<<0, 4 + Size + 2 + 3, 0>>, <<Failure, {"TIMEOUT"}, {"PROTOCOL"}>>, 1, 0, 0)

reefnet_sensuspro_device_dump ==
  Dump(<<0, Size + 2, 0>>, <<Failure, {"TIMEOUT"}, {"PROTOCOL"}>>, 1, 0, 0)

\* With nothing to download the second half is left out.
uwatec_smart_device_dump ==
  Dump(IF Size = 0 THEN <<11, 4>> ELSE <<11, 4, 4, Size>>, <<Failure, Failure, Failure, Failure>>, 1, 2, UINT_MAX)

\* The first packet, the request for the dives, their first packet, the rest
\* and its checksum.  The device information comes with the dives.
uwatec_memomouse_device_dump ==
  Dump(<<0, 2, Size + 1, 0>>,
       <<Failure \cup Cancel, Failure \cup Cancel, {"TIMEOUT"}, {"PROTOCOL", "IO"}>>, 5, 2, UINT_MAX)

\* The driver waits for the diver to start the transfer.
uwatec_aladin_device_dump ==
  Dump(<<4, Size + 2 - 4, 0>>, <<{"IO"} \cup Cancel, {"TIMEOUT"}, {"PROTOCOL"}>>, 3, 0, 0)

\* The firmware tells the size of the memory, half of what was announced.
hw_ostc_device_dump ==
  Dump(<<2, Size>>, <<{"TIMEOUT", "DATAFORMAT"}, {"TIMEOUT"}>>, 2, 1, 2 + 2 * Size)

\* The serial number is known since the device was opened.
diverite_nitekq_device_dump ==
  Dump(<<0, 1, Size>>, <<{}, Failure \cup Cancel, Failure \cup Cancel>>, 1, 0, 0)

mares_device_dump ==
  Dump(<<Size, Size, 0>>, <<Failure \cup Cancel, Failure \cup Cancel, {}>>, 3, 0, 0)

TheDump ==
  CASE driver = "suunto_eon"        -> suunto_eon_device_dump
    [] driver = "suunto_solution"   -> suunto_solution_device_dump
    [] driver = "reefnet_sensus"    -> reefnet_sensus_device_dump
    [] driver = "reefnet_sensuspro" -> reefnet_sensuspro_device_dump
    [] driver = "uwatec_smart"      -> uwatec_smart_device_dump
    [] driver = "uwatec_memomouse"  -> uwatec_memomouse_device_dump
    [] driver = "uwatec_aladin"     -> uwatec_aladin_device_dump
    [] driver = "hw_ostc"           -> hw_ostc_device_dump
    [] driver = "diverite_nitekq"   -> diverite_nitekq_device_dump
    [] OTHER                        -> mares_device_dump

Total(d)      == FoldLeft(LAMBDA a, b : a + b, 0, d.steps)

\* Mutant: the maximum is never corrected.
Maximum_Guess(d, s) == IF d.announces > 0 THEN d.guess ELSE Total(d)

Maximum(d, s) == IF s < d.announces THEN d.guess ELSE Total(d)

Suunto == {"suunto_eon", "suunto_solution"}
Mares  == {"mares_puck", "mares_darwin"}
Rings  == Suunto \cup Mares \cup {"uwatec_aladin", "diverite_nitekq"}
Lines  == {"reefnet_sensus", "reefnet_sensuspro", "uwatec_smart", "uwatec_memomouse", "hw_ostc"}

\* The Solution knows no fingerprint; two devices send only the dives after it.
NoFingerprint == {"suunto_solution"}
DeviceChooses == {"uwatec_smart", "uwatec_memomouse"}

-----------------------------------------------------------------------------
(***************************************************************************)
(* The device.                                                             *)
(***************************************************************************)
Cell(t, v) == [t |-> t, v |-> v]
Own(d, n)  == [i \in 1 .. n |-> Cell("x", d.id)]
Id(d)      == Cell("id", d.id)
Num(n)     == Cell("number", n)

Blank   == Cell("blank", 0)
End     == Cell("end", 0)
Mark    == Cell("mark", 0)
Start   == Cell("start", 0)
Stop    == Cell("stop", 0)
Deep    == Cell("deep", 0)
Shallow == Cell("shallow", 0)
Zero    == Cell("zero", 0)

\* From the start of a dive back to the marker in the end of its predecessor.
PEEK == 2

\* A Sensus ends a dive after 17 shallow samples, and has a temperature with
\* every sixth sample.
SHALLOW == 2
EVERY   == 2

\* The samples of a Sensus: every other one is shallow before the end.
SensusSamples(d) ==
  LET depths == [i \in 1 .. d.n + SHALLOW |-> IF i <= d.n /\ (d.n - i) % 2 = 0 THEN Deep ELSE Shallow]
      kept   == IF d.kind = "cut" THEN SubSeq(depths, 1, d.n) ELSE depths
  IN  FlattenSeq([i \in DOMAIN kept |->
        IF (i - 1) % EVERY = 0 THEN <<kept[i], Cell("x", d.id)>> ELSE <<kept[i]>>])

Footer(d) == IF d.kind = "cut" THEN <<>> ELSE <<Stop>>

\* The fields of a Puck dive: its length, the samples, the header backward and,
\* in the newer format, a trailer.
PuckSampleSize(kind) == IF kind = "plain" THEN 1 ELSE 2
PuckHeader(d) == (IF d.kind = "free" THEN <<>> ELSE Own(d, 1)) \o <<Id(d), Num(d.n), Cell(d.kind, 0)>>
PuckTrailer(d) == IF d.kind = "extra" THEN <<Mark>> ELSE <<>>
PuckDive(d) ==
  LET rest == Own(d, d.n * PuckSampleSize(d.kind)) \o PuckHeader(d) \o PuckTrailer(d)
  IN  <<Num(1 + Len(rest))>> \o rest

Body(d) ==
  CASE driver \in Suunto -> <<Id(d)>> \o Own(d, d.n) \o <<Mark, Cell("x", d.id)>>
    [] driver = "reefnet_sensus"    -> <<Start, Id(d), Stop>> \o SensusSamples(d)
    [] driver = "reefnet_sensuspro" -> <<Start, Id(d)>> \o Own(d, d.n) \o Footer(d)
    [] driver = "uwatec_smart"      -> <<Start, Num(3 + d.n), Id(d)>> \o Own(d, d.n)
    [] driver = "uwatec_memomouse"  -> <<Id(d), Num(d.n)>> \o Own(d, d.n)
    [] driver = "uwatec_aladin"     -> <<Start>> \o Own(d, d.n)
    [] driver = "hw_ostc"           -> <<Start, Id(d)>> \o Own(d, d.n) \o Footer(d)
    [] driver = "mares_puck"        -> PuckDive(d)
    [] OTHER                        -> Own(d, d.n)

\* A Puck may be used for free dives and has two formats for the others; the
\* end of a dive may be missing in three memories.
DiveKinds ==
  CASE driver = "mares_puck" -> {"plain", "extra", "free"}
    [] driver \in {"hw_ostc", "reefnet_sensus", "reefnet_sensuspro"} -> {"plain", "cut"}
    [] OTHER -> {"plain"}

\* A dive of a NiTek Q may fill its ring.
SampleCounts ==
  CASE driver = "mares_puck"      -> PuckSamples
    [] driver = "diverite_nitekq" -> Samples \cup {R}
    [] OTHER                      -> Samples

Most == IF driver = "mares_puck" THEN MaxDives - 2 ELSE MaxDives

Histories ==
  {h \in UNION {[1 .. k -> [n : SampleCounts, kind : DiveKinds]] : k \in 0 .. Most} :
     Cardinality({i \in DOMAIN h : h[i].kind = "cut"}) <= 1}

\* Newest first; the newest has the highest number.
Numbered(h) ==
  [i \in DOMAIN h |-> [id |-> Len(h) + 1 - i, n |-> h[i].n, kind |-> h[i].kind]]

\* What was written to the memory, oldest dive first.
Written(ds) == FlattenSeq([i \in DOMAIN ds |-> Body(ds[Len(ds) + 1 - i])])

\* A ring in which w was written up to address e.  A Solution writes it
\* backward, and the Suunto devices keep a marker behind the newest dive.  A
\* pointer eop that is not an address of the ring is invalid.
Capacity == IF driver \in Suunto THEN R - 1 ELSE R

Ring(w, e) ==
  LET Behind(a) == IF driver = "suunto_solution" THEN (a - e - 1) % R ELSE (e - 1 - a) % R
  IN  [a \in 0 .. R - 1 |->
         IF Behind(a) < Len(w) /\ Behind(a) < Capacity THEN w[Len(w) - Behind(a)]
         ELSE IF driver \in Suunto /\ a = eop THEN End ELSE Blank]

\* A memory that is sent in order.  An OSTC sends its ring that way.
Line(w) == [a \in 0 .. Len(w) - 1 |-> w[a + 1]]
Sent(ds) ==
  LET w   == Written(ds)
      new == SelectSeq(ds, LAMBDA d : d.id > fingerprint)
  IN  CASE driver = "uwatec_smart"     -> Written(new)
        [] driver = "uwatec_memomouse" -> <<Blank>> \o Written(new) \o Written(Reverse(new))
        [] driver = "hw_ostc"          -> IF Len(w) > R THEN SubSeq(w, Len(w) - R + 1, Len(w)) ELSE w
        [] OTHER                       -> w \o <<Blank, Blank>>

Used(k) == FoldLeft(LAMBDA s, d : s + Len(Body(d)), 0, SubSeq(dives, 1, k))

\* Where the profile of dive k starts.
AddressOf(k) == ringbuffer_decrement(eop, Used(k), 0, R)

\* The logbooks: a ring with the numbers of samples (or the times), or a list
\* with the addresses of the profiles, or the samples of the newest free dive.
NoEntry == [id |-> 0, v |-> 0]
BookRing ==
  [j \in 0 .. LB - 1 |->
     LET k == ((eol - j) % LB) + 1
     IN  IF k <= Len(dives) THEN [id |-> dives[k].id, v |-> dives[k].n] ELSE NoEntry]
BookList ==
  [j \in 0 .. LB - 1 |->
     IF j < Len(dives) THEN [id |-> dives[j + 1].id, v |-> AddressOf(j + 1)] ELSE NoEntry]
FreeDives == {k \in DOMAIN dives : dives[k].kind = "free"}
FreeArea ==
  IF FreeDives = {} THEN <<>>
  ELSE LET d == dives[Min(FreeDives)] IN FlattenSeq([i \in 1 .. d.n |-> <<Cell("x", d.id), Zero>>])

\* The memories devices can have: the ring of a Suunto has been written round
\* once; no dive fills the ring of an Aladin; a NiTek Q lists only dives whose
\* profiles it still has.
Possible(w) ==
  CASE driver \in Suunto          -> Len(w) >= Capacity
    [] driver = "uwatec_aladin"   -> \A k \in DOMAIN dives : Len(Body(dives[k])) < R
    [] driver = "diverite_nitekq" -> Len(w) <= R /\ Len(dives) <= LB
    [] OTHER -> TRUE

\* The dives the device still has whole, or at least the logbook entry where
\* the format can do without a profile.
Held(k) ==
  CASE driver \in Suunto        -> Used(k) + PEEK <= Capacity
    [] driver = "uwatec_aladin" -> k <= LB
    [] driver = "mares_darwin"  -> k <= LB /\ Used(k) <= R
    [] driver = "mares_puck"    -> Used(k) <= R
    [] driver = "hw_ostc"       -> dives[k].kind # "cut" /\ Used(k) <= R
    [] OTHER                    -> TRUE

\* What has to be handed out for dive k.
Handed(k) ==
  LET entry == <<Id(dives[k])>>
  IN  CASE driver = "uwatec_aladin" -> entry \o (IF Used(k) <= R THEN Tail(Body(dives[k])) ELSE <<>>)
        [] driver \in {"mares_darwin", "diverite_nitekq"} -> entry \o Body(dives[k])
        [] driver = "mares_puck" /\ k \in FreeDives /\ k = Min(FreeDives) -> Body(dives[k]) \o book
        [] OTHER -> Body(dives[k])

Log ==
  LET new == SetToSortSeq({k \in DOMAIN dives : Held(k) /\ dives[k].id > fingerprint}, LAMBDA j, k : j < k)
  IN  [i \in DOMAIN new |-> Handed(new[i])]

Init ==
  /\ driver \in Rings \cup Lines
  /\ \E h \in Histories : dives = Numbered(h)
  /\ Possible(Written(dives))
  /\ fingerprint \in (IF driver \in NoFingerprint THEN {0} ELSE 0 .. Len(dives))
  /\ \A k \in DOMAIN dives : dives[k].id = fingerprint => dives[k].kind # "cut"
  /\ IF driver \in Rings
       THEN /\ eop \in Tops \cup (IF driver = "uwatec_aladin" THEN {} ELSE {R})
            /\ mem = Ring(Written(dives), eop % R)
       ELSE eop = 0 /\ \E s \in {Sent(dives)} : mem = Line(s)
  /\ eol \in (CASE driver = "uwatec_aladin" -> 0 .. LB - 1
                 [] driver = "mares_darwin"  -> 0 .. LB
                 [] OTHER                    -> {0})
  /\ \/ driver \in {"uwatec_aladin", "mares_darwin"} /\ book = BookRing
     \/ driver = "diverite_nitekq" /\ book = BookList
     \/ driver = "mares_puck" /\ book \in {<<>>, FreeArea}
     \/ driver \in Suunto \cup Lines /\ book = <<>>
  /\ log = Log
  /\ pc = "idle" /\ step = 0 /\ at = 0
  /\ info = FALSE /\ current = 0 /\ maximum = 0
  /\ delivered = <<>> /\ stopped = FALSE /\ status = "none"

-----------------------------------------------------------------------------
(***************************************************************************)
(* The extraction.  A walk looks once from the position c: it finds the    *)
(* next dive, or something that is none, or the end.  The position is the  *)
(* current address, the start of the dive found before, the dives so far,  *)
(* and what is left of the ring, or whether profiles are left at all.      *)
(***************************************************************************)
Position(cur, prev, i, left) == [cur |-> cur, prev |-> prev, i |-> i, left |-> left]

Walked(what, data, id, next, st) == [what |-> what, data |-> data, id |-> id, next |-> next, status |-> st]

Found(data, id, next) == Walked("dive", data, id, next, "none")
Skip(next)            == Walked("skip", <<>>, 0, next, "none")
Finish(st)            == Walked("end", <<>>, 0, Position(0, 0, 0, 0), st)

\* n cells of the ring from address a on, and the cells from a up to b.
FromRing(a, n) == [j \in 1 .. n |-> mem[ringbuffer_increment(a, j - 1, 0, R)]]
FromTo(a, b)   == [j \in 1 .. b - a |-> mem[a + j - 1]]

\* The end marker is searched from the beginning of the ring.
SuuntoEop == LET ends == {a \in 0 .. R - 1 : mem[a] = End} IN IF ends = {} THEN R ELSE Min(ends)

\* Backward until the end marker; a dive starts behind the marker that is in
\* the end of the one before it.
suunto_common_extract_dives(c) ==
  LET Back(k) == ringbuffer_decrement(c.cur, k, 0, R)
      stops   == {k \in 1 .. R : \/ mem[Back(k)] = End
                                 \/ mem[ringbuffer_decrement(Back(k), PEEK, 0, R)] = Mark}
      a       == Back(Min(stops))
      len     == ringbuffer_distance(a, c.prev, DC_RINGBUFFER_EMPTY, 0, R)
  IN  IF c.cur >= R \/ stops = {} THEN Finish("DATAFORMAT")
      ELSE IF mem[a] = End THEN Finish("SUCCESS")
      ELSE Found(FromRing(a, len), mem[a].v, Position(a, a, c.i + 1, 0))

\* The same forward; the bytes of a dive are in reverse order.
suunto_solution_extract_dives(c) ==
  LET On(k) == ringbuffer_increment(c.cur, k, 0, R)
      stops == {k \in 1 .. R : \/ mem[On(k)] = End
                               \/ mem[ringbuffer_increment(On(k), 2, 0, R)] = Mark}
      a     == On(Min(stops))
      len   == ringbuffer_distance(c.prev, a, DC_RINGBUFFER_EMPTY, 0, R)
  IN  IF eop >= R \/ mem[eop] # End \/ stops = {} THEN Finish("DATAFORMAT")
      ELSE IF mem[a] = End THEN Finish("SUCCESS")
      ELSE Found(Reverse(FromRing(ringbuffer_increment(c.prev, 1, 0, R), len)), mem[a].v,
                 Position(a, a, c.i + 1, 0))

\* The addresses below cur where a header may start.
Below(cur) == 0 .. cur - 1

\* size >= 7 ? size - 7 : 0, with the cells of a header.
Under(a, n) == IF a >= n THEN a - n ELSE 0

\* Mutant: the samples are searched past the dive found before.
SensusEnd_Unbounded(h, previous) ==
  LET SampleAt(j) == h + 3 + j + (j + EVERY - 1) \div EVERY
      ends == {j \in SHALLOW - 1 .. Size :
                 /\ SampleAt(j + 1) <= Size
                 /\ \A k \in j - SHALLOW + 1 .. j : mem[SampleAt(k)] = Shallow}
  IN  IF ends = {} THEN 0 ELSE SampleAt(Min(ends) + 1)

\* The end of the samples behind the header at h, 0 if there is none before
\* the next dive.
SensusEnd(h, previous) ==
  LET SampleAt(j) == h + 3 + j + (j + EVERY - 1) \div EVERY
      ends == {j \in SHALLOW - 1 .. previous :
                 /\ SampleAt(j + 1) <= previous
                 /\ \A k \in j - SHALLOW + 1 .. j : mem[SampleAt(k)] = Shallow}
  IN  IF ends = {} THEN 0 ELSE SampleAt(Min(ends) + 1)

reefnet_sensus_extract_dives(c) ==
  LET headers == {h \in Below(c.cur) : mem[h] = Start /\ mem[h + 2] = Stop}
      h       == Max(headers)
      end     == SensusEnd(h, c.prev)
  IN  IF headers = {} THEN Finish("SUCCESS")
      ELSE IF end = 0 THEN Finish("DATAFORMAT")
      ELSE Found(FromTo(h, end), mem[h + 1].v, Position(Under(h, 3), h, c.i + 1, 0))

\* The first footer from address a on, before b.
Footers(a, b) == {f \in a .. b - 1 : mem[f] = Stop}

reefnet_sensuspro_extract_dives(c) ==
  LET headers == {h \in Below(c.cur) : mem[h] = Start}
      h       == Max(headers)
      footers == Footers(h + 2, c.prev)
  IN  IF headers = {} THEN Finish("SUCCESS")
      ELSE IF footers = {} THEN Finish("DATAFORMAT")
      ELSE Found(FromTo(h, Min(footers) + 1), mem[h + 1].v, Position(Under(h, 1), h, c.i + 1, 0))

uwatec_smart_extract_dives(c) ==
  LET headers == {h \in Below(c.cur) : mem[h] = Start}
      h       == Max(headers)
      len     == mem[h + 1].v
  IN  IF headers = {} THEN Finish("SUCCESS")
      ELSE IF h + len > c.prev THEN Finish("DATAFORMAT")
      ELSE Found(FromTo(h, h + len), mem[h + 2].v, Position(Under(h, 1), h, c.i + 1, 0))

\* A dive without an end is skipped.
hw_ostc_extract_dives(c) ==
  LET headers == {h \in Below(c.cur) : mem[h] = Start}
      h       == Max(headers)
      footers == Footers(h, c.prev)
  IN  IF headers = {} THEN Finish("SUCCESS")
      ELSE IF footers = {} THEN Skip(Position(h, h, c.i, 0))
      ELSE Found(FromTo(h, Min(footers) + 1), mem[h + 1].v, Position(h, h, c.i + 1, 0))

\* The number of the dive in a logbook entry identifies it.
EntryCells(e) == <<Cell("id", e.id)>>

\* Mutant: the markers of lost profiles are searched again.
ProfilesLeft_Kept(a, left) == left

\* No profiles are left once the walk is back at its beginning.
ProfilesLeft(a, left) == IF a = eop THEN 0 ELSE left

\* The profiles are walked along with the logbook; the oldest dives may
\* have none any more.
uwatec_aladin_extract_dives(c) ==
  LET Back(k) == ringbuffer_decrement(c.cur, k, 0, R)
      round   == ringbuffer_distance(eop, c.cur, DC_RINGBUFFER_FULL, 0, R)
      marks   == IF c.left = 1 THEN {k \in 1 .. round : mem[Back(k)] = Start} ELSE {}
      a       == IF marks = {} THEN eop ELSE Back(Min(marks))
      len     == IF marks = {} THEN 0 ELSE ringbuffer_distance(a, c.prev, DC_RINGBUFFER_EMPTY, 0, R) - 1
      entry   == book[(eol + LB - c.i) % LB]
      profile == IF len > 0 THEN FromRing(ringbuffer_increment(a, 1, 0, R), len) ELSE <<>>
  IN  IF c.i = Min({Len(dives), LB}) THEN Finish("SUCCESS")
      ELSE Found(EntryCells(entry) \o profile, entry.id,
                 Position(a, IF marks = {} THEN c.prev ELSE a, c.i + 1, ProfilesLeft(a, c.left)))

\* Mutant: a dive that fills the ring has no profile.
NitekqLength_Empty(address, previous) ==
  IF previous >= address THEN previous - address ELSE R - address + previous

NitekqLength(address, previous) ==
  IF previous > address THEN previous - address ELSE R - address + previous

\* Each entry has the address of its profile, which ends where the newer one
\* starts.
diverite_nitekq_extract_dives(c) ==
  LET entry == book[c.i]
      len   == NitekqLength(entry.v, c.prev)
  IN  IF eop >= R THEN Finish("DATAFORMAT")
      ELSE IF c.i = LB THEN Finish("SUCCESS")
      ELSE IF entry = NoEntry THEN Finish("SUCCESS")
      ELSE IF entry.v >= R THEN Finish("DATAFORMAT")
      ELSE Found(EntryCells(entry) \o FromRing(entry.v, len), entry.id, Position(entry.v, entry.v, c.i + 1, 0))

\* Each entry has the length of its profile; a dive that is longer than what
\* is left of the ring is lost.
mares_darwin_extract_dives(c) ==
  LET entry == book[(LB + eol - c.i) % LB]
      a     == ringbuffer_decrement(c.cur, entry.v, 0, R)
  IN  IF eop >= R \/ eol >= LB THEN Finish("DATAFORMAT")
      ELSE IF c.i = LB THEN Finish("SUCCESS")
      ELSE IF entry = NoEntry \/ entry.v > c.left THEN Finish("SUCCESS")
      ELSE Found(EntryCells(entry) \o FromRing(a, entry.v), entry.id,
                 Position(a, a, c.i + 1, c.left - entry.v))

\* The cells of the free dive area up to the end of its n-th sample, 0 for none.
FreeEnd(n) ==
  LET ends == {j \in 1 .. Len(book) : book[j] = Zero /\ Cardinality({k \in 1 .. j : book[k] = Zero}) = n}
  IN  IF ends = {} THEN 0 ELSE Min(ends)

\* Mutant: every free dive gets the samples.
HasSamples_All(mode, nfreedives) == mode = "free"

HasSamples(mode, nfreedives) == mode = "free" /\ nfreedives = 0

\* The ring is copied in order first; from its end on, each dive has its
\* length at both ends.  Only the newest free dive has its samples.
mares_common_extract_dives(c) ==
  LET At(j)   == mem[ringbuffer_increment(eop, j, 0, R)]
      extra   == IF At(c.cur - 1) = Mark THEN 1 ELSE 0
      mode    == At(c.cur - extra - 1).t
      n       == At(c.cur - extra - 2).v
      nbytes  == 1 + n * (IF mode = "free" THEN 2 ELSE 1 + extra) + (IF mode = "free" THEN 3 ELSE 4) + extra
      offset  == c.cur - nbytes
      newest  == HasSamples(mode, c.left)
      id      == At(c.cur - extra - 3).v
      samples == IF newest THEN SubSeq(book, 1, FreeEnd(n)) ELSE <<>>
      data    == FromRing(ringbuffer_increment(eop, offset, 0, R), nbytes) \o samples
  IN  IF eop >= R THEN Finish("DATAFORMAT")
      ELSE IF c.cur < 2 THEN Finish("SUCCESS")
      ELSE IF c.cur < extra + 2 THEN Finish("SUCCESS")
      ELSE IF mode = "blank" \/ c.cur < nbytes THEN Finish("SUCCESS")
      ELSE IF At(offset) # Num(nbytes) \/ (newest /\ FreeEnd(n) = 0) THEN Finish("DATAFORMAT")
      ELSE Found(data, id, Position(offset, offset, c.i + 1, IF mode = "free" THEN c.left + 1 ELSE c.left))

\* The dives of a Memomouse start at BASE with a header of two cells.
BASE == 1
MemomouseNext(a) == a + 2 + mem[a + 1].v

\* Skip the older dives: the address of dive number n, oldest first.
MemomouseAddress(n) ==
  LET A[k \in 0 .. n] == IF k = 0 THEN BASE ELSE MemomouseNext(A[k - 1]) IN A[n]

\* The second pass, over the c.i dives that are left.
uwatec_memomouse_extract_dives(c) ==
  LET a == MemomouseAddress(c.i - 1)
  IN  IF c.i = 0 THEN Finish("SUCCESS")
      ELSE Found(FromTo(a, MemomouseNext(a)), mem[a].v, Position(a, a, c.i - 1, c.left))

Walk(c) ==
  CASE driver = "suunto_eon"        -> suunto_common_extract_dives(c)
    [] driver = "suunto_solution"   -> suunto_solution_extract_dives(c)
    [] driver = "reefnet_sensus"    -> reefnet_sensus_extract_dives(c)
    [] driver = "reefnet_sensuspro" -> reefnet_sensuspro_extract_dives(c)
    [] driver = "uwatec_smart"      -> uwatec_smart_extract_dives(c)
    [] driver = "uwatec_memomouse"  -> uwatec_memomouse_extract_dives(c)
    [] driver = "uwatec_aladin"     -> uwatec_aladin_extract_dives(c)
    [] driver = "hw_ostc"           -> hw_ostc_extract_dives(c)
    [] driver = "diverite_nitekq"   -> diverite_nitekq_extract_dives(c)
    [] driver = "mares_puck"        -> mares_common_extract_dives(c)
    [] driver = "mares_darwin"      -> mares_darwin_extract_dives(c)

\* Where the walks begin.
FirstPosition ==
  CASE driver = "suunto_eon"        -> Position(SuuntoEop, SuuntoEop, 0, 0)
    [] driver = "reefnet_sensus"    -> Position(Under(Size, 3), Size, 0, 0)
    [] driver \in {"reefnet_sensuspro", "uwatec_smart"} -> Position(Under(Size, 1), Size, 0, 0)
    [] driver = "hw_ostc"           -> Position(Size, Size, 0, 0)
    [] driver = "uwatec_memomouse"  -> Position(BASE, 0, 0, 0)
    [] driver = "uwatec_aladin"     -> Position(eop, eop, 0, 1)
    [] driver = "mares_puck"        -> Position(R, R, 0, 0)
    [] OTHER                        -> Position(eop, eop, 0, R)

\* How a dive is compared with the fingerprint: by its time, or its bytes.
Known(id) ==
  CASE driver \in {"reefnet_sensus", "reefnet_sensuspro", "uwatec_aladin"} -> id <= fingerprint
    [] driver \in NoFingerprint \cup DeviceChooses -> FALSE
    [] OTHER -> id = fingerprint

-----------------------------------------------------------------------------
Foreach ==
  /\ pc = "idle"
  /\ pc' = "dump" /\ step' = 1 /\ maximum' = Maximum(TheDump, 0)
  /\ UNCHANGED <<device, at, current, report, status>>

DumpStep ==
  /\ pc = "dump"
  /\ \E d \in {TheDump} :
       /\ current' = current + d.steps[step]
       /\ maximum' = Maximum(d, step)
       /\ info' = (info \/ step = d.informs)
       /\ IF step < Len(d.steps)
            THEN step' = step + 1 /\ UNCHANGED <<pc, at>>
            ELSE /\ pc' = IF driver = "uwatec_memomouse" THEN "count" ELSE "extract"
                 /\ at' = FirstPosition /\ UNCHANGED step
  /\ UNCHANGED <<device, delivered, stopped, status>>

DumpFails ==
  /\ pc = "dump"
  /\ status' \in TheDump.fails[step] /\ pc' = "done"
  /\ UNCHANGED <<device, step, at, progress, report>>

\* Mutant: the second copy of the dives is counted too.
IsDuplicate_Never(c) == FALSE

\* Memomouse sends all the data twice; the first duplicate ends the first copy.
IsDuplicate(c) ==
  c.prev # 0 /\ SubSeq(FromTo(c.prev, Size), 1, 2) = SubSeq(FromTo(c.cur, Size), 1, 2)

\* The first pass over the data of a Memomouse: how many dives there are.
CountDives ==
  /\ pc = "count"
  /\ IF at.cur + 2 > Size \/ IsDuplicate(at)
       THEN pc' = "extract" /\ at' = Position(0, 0, at.i, at.i) /\ UNCHANGED <<info, status>>
       ELSE IF MemomouseNext(at.cur) > Size
         THEN pc' = "done" /\ status' = "DATAFORMAT" /\ UNCHANGED <<at, info>>
         ELSE /\ info' = TRUE
              /\ at' = Position(MemomouseNext(at.cur), at.cur, at.i + 1, 0)
              /\ UNCHANGED <<pc, status>>
  /\ UNCHANGED <<device, step, progress, delivered, stopped>>

ExtractDive ==
  /\ pc = "extract"
  /\ \E w \in {Walk(at)} :
       /\ w.what = "dive" /\ ~Known(w.id)
       /\ delivered' = Append(delivered, w.data)
       /\ stopped' \in BOOLEAN
       /\ pc' = IF stopped' THEN "stop" ELSE "extract"
       /\ at' = w.next
  /\ UNCHANGED <<device, step, progress, info, status>>

SkipDive ==
  /\ pc = "extract"
  /\ \E w \in {Walk(at)} : w.what = "skip" /\ at' = w.next
  /\ UNCHANGED <<device, pc, step, progress, report, status>>

Return ==
  /\ pc' = "done"
  /\ \/ pc = "stop" /\ status' = "SUCCESS"
     \/ /\ pc = "extract"
        /\ \E w \in {Walk(at)} :
             \/ w.what = "end" /\ status' = w.status
             \/ w.what = "dive" /\ Known(w.id) /\ status' = "SUCCESS"
  /\ UNCHANGED <<device, step, at, progress, report>>

Finished == pc = "done" /\ UNCHANGED vars

Next ==
  \/ Foreach
  \/ DumpStep
  \/ DumpFails
  \/ CountDives
  \/ ExtractDive
  \/ SkipDive
  \/ Return
  \/ Finished

-----------------------------------------------------------------------------
TypeOK ==
  /\ pc \in {"idle", "dump", "count", "extract", "stop", "done"}
  /\ step \in 0 .. 4 /\ current \in Nat /\ maximum \in Nat
  /\ pc = "extract" => at.i \in 0 .. MaxDives + 1
  /\ Len(delivered) <= Len(dives)
  /\ status \in Failure \cup Cancel \cup {"none", "SUCCESS", "DATAFORMAT", "IO"}

Phase == CASE pc = "idle" -> "idle" [] pc = "done" -> "done" [] OTHER -> "running"

Download == INSTANCE DiveDownload WITH phase <- Phase

\* A dump that succeeds has used up the progress it announced.
ProgressComplete ==
  /\ current <= maximum
  /\ pc \in {"count", "extract", "stop"} => current = maximum
=============================================================================
