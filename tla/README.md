# A verification project for libdivecomputer

libdivecomputer downloads the dives a diver's computer has recorded, over a
serial line, USB, Bluetooth or infrared, and parses them. This directory holds
TLA+ models of the library's own logic, the TLC configurations that check them
on small instances, and theorems that TLAPS proves for every size.

Everything here is translated from the C code under `src/`. `PROJECT.json` maps each
definition to the lines it models, lists the runs with their properties, a mutant
of the code for each property, the hazards the properties are aimed at, and the
theorems. A helper whose lines lie within those of the definition that uses it is not
listed a second time in the map. File names below are relative to `src/src/` of the repository.

Contents: 1 the system, 2 modules and code, 3 runs, 4 bounds, 5 fairness,
6 proofs, 7 abstractions, 8 findings, 9 what is not modelled, 10 plan.

## 1. The system

    application
       |  dc_device_open / foreach / dump / close, events, dive callback, cancel callback
    device layer (device.c)  ----  parser layer (parser.c) -- one parser per family
       |  vtable: foreach, read, write, dump, timesync, close
    driver of a family (suunto_*, oceanic_*, hw_*, shearwater_*, ...)
       |  xxx_foreach -> rbstream.c, ringbuffer.c, buffer.c -> xxx_read -> xxx_transfer -> xxx_packet
    I/O stream (iostream.c)
       |  framing: packet.c (BLE, USB HID), hdlc.c (Divesoft, EON Steel over BLE)
    transport (serial, usb, usbhid, bluetooth, ble, irda, socket, custom)

| Component | State it keeps | Operations | What makes it correct |
|---|---|---|---|
| Device layer (`device.c`, `parser.c`) | event mask and callbacks, cancel callback, the last devinfo and clock events | open, set_events, set_cancel, set_fingerprint, read, write, dump, foreach, timesync, close; parser new/destroy | a parser outlives the callback's memory and knows its device; a dump is the memory; the link is released; a cancellation ends the call |
| Ring stream (`rbstream.c`) | ring geometry, position, a packet cache | new, read, free | callers get the bytes of the ring in walking order, whatever the packet size and alignment; no read leaves the ring |
| Ring arithmetic (`ringbuffer.c`) | none | distance, increment, decrement, normalize | arithmetic modulo the ring size, with full and empty told apart |
| Buffer (`buffer.c`) | block, offset, size, capacity | clear, reserve, resize, append, prepend, insert, slice | behaves as a string of bytes; never exposes memory nobody wrote |
| Packet layer (`packet.c`) | read cache | read, write, purge | bytes in order, none lost but by a purge |
| HDLC layer (`hdlc.c`) | read and write buffers | read, write, purge | the n-th read returns the n-th frame |
| Transfers (`xxx_packet`, `xxx_transfer`, `xxx_read`) | retries, sequence numbers, a cache of pages | send, receive, verify, retry, purge | data stored for an address was read from it; a fault a retry is meant for is recovered from |
| Drivers' `foreach` | fingerprint, progress, layout | walk a logbook and a profile ring, search a dump or a stream, or ask for dives by number | `DiveDownload`: each dive once, newest first, up to the fingerprint, success only if complete |
| OSTC 3 session (`hw_ostc3.c`) | mode of the link | version, config, text, clock, firmware, close | the device programs itself only with a complete firmware |
| Parsers (`*_parser.c`, one per family) | a cache of what an earlier pass over the dive found: mixes, tanks, dive time, layout | create, get_datetime, get_field, samples_foreach | no byte outside the dive is read where lengths are checked; times never go back; the passes agree on mixes, tanks and dive time; asking again gives the same answer; every walk ends |
| Transports on `select` (`serial_posix.c`, `socket.c`) | timeout | read, write, poll, purge | bytes in order, all of them on success; a serial read ends within its timeout |
| Other transports, utilities | see section 9 | | |

How they interact: the driver runs inside one call of the application. It calls back
into the application for events, for every dive, and (before every transfer) to ask
whether it is cancelled; the cancel callback usually reads a flag that another thread
or a signal handler sets, so it may change between any two steps. The device is a
concurrent actor of its own: it answers late, in part, or not at all.

What is hard here, and hard to test without hundreds of devices:

* **rings**: equal pointers mean empty or full, an entry that wraps, a ring that
  overflows before its logbook, a dive that is half overwritten;
* **two passes** over a logbook that must agree on the number of bytes, because the
  buffer and the announced progress were computed by the first;
* **late answers**: a retry (or the next command) that reads the answer to an earlier one;
* **cuts**: packets and frames cut at any byte, also in the middle of an escape;
* **partial failures**: some of the dives are delivered, one is not;
* **cancellation** between any two steps, and what closing must still send;
* **liveness**: walks along pointers that come from the device, and along lengths that
  come from a dive;
* **two passes of a parser**: `get_field` computes its answers in a pass of its own (or
  in the pass of an earlier call), often with other code than `samples_foreach`; the
  pass may fail halfway and leave something behind;
* **cut dives**: a dive may end anywhere, in the middle of a record or of the header.

Every one of these is listed in `PROJECT.json` under `hazards`, at its line.

## 2. Modules and code

Abstract specifications:

* `RingWalk`: what a ring stream promises: the bytes of the ring in walking order.
* `ByteString`: what a dynamic buffer promises.
* `DiveDownload`: what `dc_device_foreach` promises, whatever the driver. Its
  variables are the ones an application can observe: the dives handed out, the device
  info and progress events, the stop request, and the status.

Components:

| Module | Code | State | Actions |
|---|---|---|---|
| `RbStream` | `rbstream.c` | fields of `dc_rbstream_t`, the buffer of the caller | `New`, `Read`, `Fill`, `FillFails`, `Copy`, `Return`, `Free` |
| `Ringbuffer` | `ringbuffer.c` | none | the four functions as operators |
| `DcBuffer` | `buffer.c` | the block with its contents | one per function, allocation may fail |
| `Packet` | `packet.c` | cache, arrived packets, written bytes | read (fill, copy, return), write per packet, purge |
| `Hdlc` | `hdlc.c` | both buffers, the escape state, the line | write byte by byte with flushes, read byte by byte, purge |
| `Transport` | the loops of `serial_posix.c` and `socket.c` as `iostream.c` calls them | the input, the call, its clock, its interruptions | call, `select`, transfer, interruption, end of file, drain, return, purge |
| `Device` | `device.c`, `parser.c`, `mares_nemo.c` dump | callbacks, events, cancel flag, parsers, dump buffer | one per call of the API and per step of a driver |
| `CommandTransfer` | packet and transfer functions of 13 drivers | the line, the attempt, the stored blocks | send, read parts, scan, fail, retry, purge, late arrivals |
| `Ostc3Download` | `hw_ostc3_device_foreach` | headers, logbook, plan, progress | headers (compact or full), one header of the walk per step, plan, one dive per step |
| `Ostc3Session` | `hw_ostc3_transfer` and all operations | mode, script position, bytes on the line, flash | one per protocol step of driver and device |
| `OceanicDownload` | `oceanic_common.c` | both rings, both passes | pointers, logbook entries, first pass, second pass |
| `PetrelDownload` | `shearwater_petrel.c` | manifests, records, shutdown | identify, manifest, dive, close |
| `PredatorDownload` | `shearwater_predator.c` | the dump, the search | dump, search, copy, extract |
| `ShearwaterDownload` | `shearwater_common.c` | request, answers in the line, decompression | request, answer, verify, block, late answer |
| `EonSteelDownload` | `suunto_eonsteel.c` | the directory and the open file, packets in the line, sequence number, list of files | send, transfer, rest of the data, late answer, next entry, cancel |
| `Atom2Pages` | `oceanic_atom2_device_read`, `_write` | the memory, the page in the cache | read and write calls, page, copy, failure |
| `LogbookDownload` | `foreach` of 11 drivers that serve dives by number | logbook, plan, chunks | logbook entry, select, read chunk, hand out |
| `SuuntoDownload` | `suunto_common2.c` | ring with linked dives | header, dive, skip, hand out |
| `DumpDownload` | `foreach` of 11 drivers that dump the memory first: `suunto_eon`, `suunto_solution`, `reefnet_sensus`, `reefnet_sensuspro`, `uwatec_smart`, `uwatec_memomouse`, `uwatec_aladin`, `hw_ostc`, `diverite_nitekq`, `mares_darwin`, `mares_puck` (and the Nemo) | the memory, the steps of the dump, the position of the search | `Foreach`, `DumpStep`, `DumpFails`, `CountDives`, `ExtractDive`, `SkipDive`, `Return` |
| `StreamDownload` | `foreach` of `suunto_vyper`, `reefnet_sensusultra`, `mares_iconhd` (ring) | the cells received, where the search is, the end of the dive | packages, the null package, the pause (Vyper); page, dive, accept (Sensus Ultra); pointer, first and second part of a header, rest (Icon HD) |
| `PointerDownload` | `foreach` of Cressi Edy, Zeagle N2iTiON3, Liquivision, Seac Screen | list of start addresses, both passes | read the list, plan, read, hand out |

The parsers of all 36 families, each as the walk it makes over a dive:

| Module | Parsers |
|---|---|
| `DiveParser` | the object of `parser.c`: calls in progress, the callback, the bytes looked at, the answers given; the properties of all parsers |
| `SuuntoParsers` | Solution, Eon, Vyper, D9 |
| `SmallParsers` | Sensus, Sensus Pro, Sensus Ultra, Tecdiving, Sporasub, Deepblu, Citizen, Oceans, McLean |
| `RecordParsers` | Leonardo, Edy, Goa, Dive Rite, Memomouse, Cobalt, Seac Screen |
| `MaresParsers` | Darwin, Nemo, Icon HD and Genius |
| `OceanicParsers` | Veo 250, VT Pro, Atom 2 |
| `StreamParsers` | Uwatec Smart and Galileo, Liquivision, Cochran |
| `TechParsers` | OSTC, Shearwater, Ratio/DiveSystem |
| `TaggedParsers` | Halcyon Symbios, Deep Six, Divesoft, EON Steel |

In `DiveParser` the bytes of a dive are not chosen in advance. Where the code looks at
bytes to decide something, the model picks the class the code tells apart (`Look`)
and remembers it in `mem`, so that a later pass, or a later call, sees the same. Offsets
and lengths are the real ones, and every read says how far it reads (`Read`, `Skim`). `cache`
is what the parser object keeps between calls, `r` the local variables of the call, `ans` the
last answer of `get_field` (numbers of mixes and tanks, dive time) and of an enumeration.

`CommandTransfer`, `LogbookDownload` and `PointerDownload` describe each driver by a
record (what it reads in which order, verifies, retries, purges; where it compares the
fingerprint; what it does with a refused dive). The record is the translation of the
driver, the actions are what the drivers have in common; the map names the lines of
each driver at its record.

Composition: the download modules read the ring through the walk of `RingWalk`, which
`RbStreamProofs` proves `RbStream` implements, and with the operators of `Ringbuffer`,
about which it proves that they are modular arithmetic. Each is shown to
implement `DiveDownload` (`Download == INSTANCE DiveDownload WITH phase <- ..., log <- ...`;
property `DownloadSpec`). The refinement mapping says, from the contents of the device
alone, which dives the download owes: `Log`. `Device` is the layer above, with any
driver under it.

The modules of the runs:

* `MCRbStream` extends one component, `Device` and `Ostc3Session` are run as they are, `MCParsers` extends all
  the parsers: the variable `parser` says which of them a behaviour is about.
* `MCLayers` (buffer, packet layer, HDLC layer, transports), `MCTransfers` (`CommandTransfer`,
  `ShearwaterDownload`, `EonSteelDownload`, `Atom2Pages`) and `MCDownloads` (the nine download modules) hold one instance of
  each component and a variable that says which of them a behaviour is about. The
  variables an application can observe are shared; the others of each component are
  substituted by `v1`, `v2`, ... in its `INSTANCE`, so that a state does not carry the
  variables of all of them (`MCLayers` extends `DcBuffer`, whose variables are its own). A property is the conjunction of what each component
  promises under that name: `OwnBytes` of `MCDownloads` is `OwnProfile` of the Oceanic
  driver, `OwnBlocks` of the Predator, `InStep` of the Suunto and the pointer drivers,
  `NoForeignDive` and `NothingLeftOver` of the OSTC 3.

A definition whose name contains an underscore and a capital after the name of another
one (`Overflows_Late`) is a mutant of it: `PROJECT.json` says for each property which
mutants of the code violate it, at least one for each component the property is about
where the component can break it.

## 3. Runs

| Run | Shows |
|---|---|
| `rbstream` | packets stay in the ring, copies in their buffers, every packet yields a byte; the stream implements `RingWalk`; `IInv` (section 6) holds; every call returns |
| `device` | a parser keeps its dive though the driver reuses its memory, and knows its device; a finished dump is the memory; close releases the link whatever happened; a raised cancel flag ends a dump, also one that waits for the user |
| `layers` | buffer: used part inside the block, no fresh memory exposed, implements `ByteString` under failing allocation; packet layer: byte order and packet sizes; HDLC: frames arrive whole and in order over any cut, failure and purge; transports: bytes keep their order through interruptions and partial transfers, a success is complete, a serial read ends in time; every call of these layers returns |
| `transfers` | no driver stores the answer to another request; every driver recovers from the faults its retries are meant for; without faults every Shearwater and EON Steel download succeeds; an EON Steel dive has the contents of its own file though sequence numbers are used again after a failure; a read of the Atom 2 returns what the memory holds now, in spite of the cache |
| `ostc3_session` | the programming command is only sent when the flash holds the file; success means updated (an OSTC 3 whatever happened before, a hwOS 4 on a line without faults: the answer to `S_FWINFO` does not say which blob it is about, and a driver that is one answer behind, after a late one and enough failed retries, compares the wrong versions); driver and device agree on the mode |
| `downloads` | `DiveDownload` for the drivers that read backward from a ring (`OceanicDownload`, `PredatorDownload`, `SuuntoDownload`, `PointerDownload`), for those that search a dump or a stream (`DumpDownload`, `StreamDownload`), and for those that ask for dives by number (`PetrelDownload`, `LogbookDownload`, `Ostc3Download`): each dive with its own bytes, nothing foreign or left over; the pass that plans and the pass that reads agree, the progress is complete; the Petrel is shut down also after a cancelled download |
| `parsers` | for every parser, dives of several lengths and any sequence of calls: reads stay inside the dive where the code compares lengths with its size (`ReadsInsideDive`, with `Unchecked` empty; section 7 lists the reads it does not check); no table of mixes or tanks outgrows its array (`TypeOK`); the first value delivered is a time and times never go back (`SamplesOrdered`); mixes and tanks of samples are ones `get_field` knows, and a dive time computed from the samples is that of the last one (`PassesAgree`); asking again gives the same answer (`AnswersStable`); every call returns (`CallsReturn`) |
| `corrupt_memory` | with any pointers in the memory of the device the walks of `SuuntoDownload` and `PointerDownload` end, stay in step, and exceed neither buffer nor progress; the search of the Predator ring ends |

Four more runs expect a violation (`petrel_deleted`, `predator_search`, `corrupt_echo`,
`parsers_unchecked`); they are the findings of section 8.

Run one with `tlc -config MCRbStream.cfg MCRbStream`, a proof with `tlapm RbStreamProofs.tla`.

## 4. Bounds

Each bound is a constant of its module, with its value in the `.cfg` or in the `INSTANCE` (the sizes of
`MCLayers` are constants of its own, because `LayersProofs` proves for all of them). They are chosen so that the
cases that matter happen:

* rings (`R`, `N`, `L`) of four to eight units: large enough for two dives and a gap,
  small enough that every start address, a wrap inside a dive, an exactly full ring and
  an overwritten dive occur. In `OceanicDownload` a dive may fill the ring; in
  `PointerDownload` the logbook has more room than the ring, so that it overflows first;
* `RbStream`: pages of 0 (refused), 1 and 2 bytes, packets of up to four pages, all addresses, reads
  longer than the ring (`MaxConsumed` ends a behaviour after more than a lap);
* messages: up to three faults per session (`MaxFaults`), so that a fault can hit a retry
  of a retry; `ShearwaterDownload` makes five downloads because a block number (a byte,
  `BlockMod` here) must come around once for a stale block to fit again;
* buffers (`MaxCapacity`) of five bytes: growth by doubling happens twice;
* numbers of dives: three to five, a manifest holds two, a page two;
* `DumpDownload`: a memory of twelve cells, a logbook of three entries, up to four dives (two for the
  Puck) of one or five samples, newest-end addresses 0, 1, 6 and 11 (each side of the wrap and the middle), and an
  invalid pointer; `SHALLOW` and `EVERY` stand for 17 and 6 samples of the Sensus;
* `StreamDownload`: twelve cells in packages of four, up to three dives of zero or four samples: the
  oldest is complete, fills the rest exactly, or is cut; a marker is in one page or cut by its end;
* `EonSteelDownload`: directories of up to four files, with a subdirectory or a bad name, three faults,
  two downloads, a sequence number modulo 8; `Atom2Pages`: pages of two bytes, big pages of two, eight
  bytes of low and four of high memory, three calls;
* `Transport`: calls of one and three bytes, four bytes that arrive, timeouts of −1 (none), 0 and 2, two
  interruptions per call;
* parsers: for each family the lengths at and next to every length the code compares with, and
  room for up to three records, so that a table fills, a dive is cut in
  each kind of record, and a value carried from one record to the next is used. The
  lengths of the tables (`VyperMixes`, `OstcMixes`, `StreamMixes`, `PredatorMixes`, `IdiveMixes`, `IdiveTanks`, `SymbiosGases`, `SymbiosTanks`, `ExcursionGases`,
  `FreedomGases`, `EonMaxGases`, `NitekqMixes`) are small, so that a short dive exceeds them;
  `SurfaceCount` stands for the 17 surface samples that end a dive of the Sensus.

Counters that the code does not bound (bytes arrived, calls, events) are capped by
guards, each with its constant.

## 5. Fairness

* `RbStream`, `Packet`, `Hdlc`: weak fairness of the steps inside a call (`Fill \/ FillFails`,
  `Copy`, `Return`, ...). A call runs to its end in the thread of its caller, and the
  transports return: with data, or with a timeout, which the failing action is. No
  fairness of the calls themselves, of arriving packets or of purges.
* `Device`: weak fairness of `Driver`, the steps of the driver inside a call, for the
  same reason. Nothing makes the application call, or raise its flag. The `device` run
  does not check deadlock: an application that has closed everything may stop.
* `Transport`: weak fairness of `Step`: the operating system answers, and time passes while `select`
  waits. Interruptions are finite in a call (`MaxSignals`); no fairness of arriving bytes.
* `MCLayers` states the fairness of `Packet`, `Hdlc` and `Transport` for its instances.
* `MCDownloads`: weak fairness of `Next`: each of its behaviours is one call of `foreach`,
  without any other actor.

* `MCParsers`: weak fairness of the steps while a call is in progress: a parser computes in the
  thread of its caller and waits for nothing. No fairness of the calls themselves.

`MCTransfers` and `Ostc3Session` are checked for safety only.

## 6. Proofs

`RbStreamProofs` proves, for every page size, packet size, ring, start address, direction
and sequence of calls (assumption `ConstantsAssumption`: the constants are sets of
natural numbers; that sizes are positive and aligned is what `dc_rbstream_new` checks):

* `InvariantTheorem`: `Spec => []IInv`;
* `TypeCorrect`, `ReadsStayInRingTheorem`, `EveryPacketYieldsTheorem`, `CopyInBoundsTheorem`;
* `StreamImplementsWalk`: `Spec => WalkSpec`, the refinement of `RingWalk`.

None of the checked invariants is inductive: that a packet stays in the ring depends
on the alignment of the position (`PositionInv`), that the copied bytes are the next
ones of the walk on what the cache holds (`CacheInv`), and where the position is
relative to what was handed out (`CursorInv`: congruent to the cursor of the walk modulo the ring
size, which is what survives a wrap); `DataInv` says that the part of the caller's buffer
already filled is the walk so far, from the front or from the back. `IInv` is their
conjunction with `TypeOK` and `GeometryInv`. The step proof has one lemma per
action; the arithmetic is the first part of the module (`Shift`, `ModLap`, `AlignedSum`, `AlignedGap`: what a whole number of laps
or pages does to a remainder), stated once because SMT does not find it alone.

The same module proves about `Ringbuffer`, for every ring: `DistanceIsModular`, `NormalizeInRing`,
`DecrementUndoesIncrement`, `DistanceArrives`. The code compares first because its operands are
unsigned; the theorems say that it computes the remainder nevertheless, and which of
0 and n it returns for equal addresses.

Its last three parts are about downloads that walk along the ring, for every ring, with failures, cancellation and a fingerprint. The pointers of
the device are sound ones, or anything if `Corrupt`, in the first two; in the third they are those a device writes, one logbook pointer and one entry corrupt:

* `SuuntoInStep`: `TypeOK` and `InStep` of `SuuntoDownload`. `SuuntoInv` says that the bytes read and the bytes left are together what
  was announced, and that the stream is where the next dive ends. `BackArrives` is the reason: a dive's size is the distance between two
  pointers in the full mode, and going back by it from the end, even from an end outside the ring, arrives at the start;
* `PointerTypeCorrect`, `PointerPassesAgree` and `PointerInStep`: `TypeOK`, `PassesAgree` and `InStep` of `PointerDownload`, for its four drivers.
  The total of the first pass is a sum over a list of any length. Its value is not computed: the invariant says that
  partial sums exist (`Adds`: a function that starts with 0, grows by the length of each dive and ends with what was added so far), each step of
  the plan extends it by one, and the pass that reads goes down along it. `NumbersInv` says which part of the list has been filled, in which order and with which
  numbers, `BookSize` how many bytes the pages of the Lynx logbook add to the progress, `PlanInv` and `ReadInv` where each pass is,
  which dives at the end are lost to the ring included, `ProgressInv` how far the progress is;
* `OceanicTypeCorrect`, `OceanicOwnProfile` and `OceanicPassesAgree`: `TypeOK`, `OwnProfile` and `PassesAgree` of `OceanicDownload`. What the first
  pass has found behind each entry (the end of the newest profile, the begin of the last one, the bytes so far) is a `Trail`; it exists, each
  entry extends it (`TrailSkip`, `TrailMore`), and the second pass goes along the same one (`OnTrail`) and stops where it ends (`TrailCounts`, `TrailEnd`: in front of
  its end the next profile always fits, behind it never). `Back` says of each point of a trail that so many bytes back from the end is the begin of that profile, up to
  whole `Laps` of the ring; they add up along gaps and wraps (`NeedFacts`), and `OceanicBack` turns the sum into the address of the stream. `Recorded` says what a
  sound entry is worth: the distance of its pointers in the full mode is the size the device has written. `StagesInv` is the progress at each stage,
  and the room in the buffer is the bytes left and the entries left (`SecondPassInv`).

`DeviceProofs` proves, for every size of the memory and of a block and any number of dives,
parsers and events (`DeviceAssumption`): `ParsersKeepTheirDives`, `ParsersKnowTheDevice`,
`DumpsAreMemory`, `ClosingReleasesTheLink`. The invariant says of every parser that it has a copy
and the events of its time (`ParserInv`), of the driver that what `device_event_emit` keeps
is what was said last (`EventInv`), and of a dump how much of it is in place: the first
`nbytes` units of the buffer for `device_dump_read` (`BlocksInv`), the packets so far and a progress that is one
ahead for the Mares Nemo (`PacketsInv`). `LinkReleased` needs `CallInv`: while the device is being
closed there is no cancel callback any more. `ClosingShutsDown` is the same promise of one driver (`ShutdownSent` of `PetrelDownload`), for every number of records:
the shutdown request is a transfer like any other, and only the removal of the callback before it lets it through after a cancelled download.

Its second part is about `PredatorDownload`, for every ring, wrap point and length of dives (`PredatorAssumption`): `PredatorTypeCorrect` and `PredatorOwnBlocks`
(`OwnBlocks`). All that is needed of the device is local: in front of a block that is not a header is the block before it of the same dive, unless
the dive is cut off there (`Chained`); on a Petrel behind a block that is not a footer is the next one (`InOrder`). `AgesFollow` derives it
from the layout of the dives, which `Init` gives by their places (`at`), so that no induction is needed; `RingChained` turns it round the wrap
point, and `PredatorLinearize` along the copy, wherever the search lets it begin. The invariant of the walk (`CopyInv`) is that what is
below `offset` is still as it was in the ring, the final block of a dive going behind its footer, and that from the last footer on there are the blocks of
one dive in order. Whether the search finds the newest dive does not matter for it; that is part of `DownloadSpec`, which TLC checks.

`LayersProofs` begins with the buffer. It proves, for operations with blocks of any bytes and length and any limit of `malloc`
(`BufferAssumption`), `BufferCorrect` (`Spec => []BufferInv`) and `BufferImplementsString` (`Spec => StringSpec`, the
refinement of `ByteString`). `BufferInv` is inductive. The lemmas say what the internal functions
produce: a block with room in which the used part is in its place (`Holds`: `ExpandAppendFacts`,
`ExpandPrependFacts`, whether the block is kept, moved or doubled), a block with a gap in the right place (`Opened`:
`GapsFacts`, for each of the four ways `dc_buffer_insert` makes one), and the contents once the gap is filled (`Inserted`). Every operation
then has a lemma that gives both the invariant and the step of `ByteString` it implements; `dc_buffer_expand_calc`
enters only through `CalcFacts` (what it returns is large enough).

Then it proves the properties of the run `layers` about the other three components, for every value of the constants of `MCLayers`: `LayersCorrect`,
`LayersTypes` (`TypeOK`), `LayersInOrder` (`BytesInOrder`), `LayersFit` (`PacketsFit`), `LayersDeliver` (`FramesArrive`) and `LayersInTime`. They
follow from the theorems of `PacketProofs`, `HdlcProofs` and `TransportProofs`, which are about the same modules with their own
variables; the `Same...` lemmas say, definition by definition, that the instance proved about is the one that is composed.

`PacketProofs` proves, for all sizes of cache, packets and calls and any number of bytes (`PacketAssumption`):
`TypeCorrect`, `ReadsInOrder` (`BytesInOrder`) and `WritesFit` (`PacketsFit`). The invariant has the bytes handed out, the cache and
the packets below as three increasing parts, one before the other (`Ordered`), that together are what has
arrived and was not purged (`Complete`); `SplitFacts` and `JoinFacts` are the two `memcpy`s, `TakeFacts` a read of the transport that may cut a
packet. Without a cache (`isize` = 0) it needs that the cache is empty, which is the bound of `TypeInv`. `WritesFit` needs the room
that a call in progress has left, and where the last packet has ended (`EndOf`).

`TransportProofs` proves, for all timeouts, sizes and numbers of interruptions (`TransportAssumption`): `TypeCorrect`,
`TransfersInOrder` (`BytesInOrder`) and `CallsInTime` (`InTime`, the safety part of `CallsReturn`). `OrderInv` says which
consecutive bytes (`Counts`) the input and the call have, `ControlInv` what the program counter tells about the call,
`DeadlineInv` that the time left until the target and the time spent are the timeout however many rounds a serial read takes,
`RoundsInv` that a socket has waited for at most one timeout per piece and interruption, `ExpiryInv` that
nobody gives up early.

`HdlcProofs` proves, for payloads of any bytes and any length, any number of frames and all sizes of the two buffers
(`HdlcAssumption`): `TypeCorrect` and `FramesDelivered` (`FramesArrive`). What the writer has sent is a fold over payloads that are cut anywhere, so the
invariant does not say what the chunks on the line contain. It says how they connect: a place is a position in a frame, escape sequences
included; a byte leads from a place to the one that follows (`Follows`), a chunk from one place to another if there are places in between for
each of its bytes (`Leads`), and the chunks under way form a `Chain` from the place where the reader is to the place where the writer is. Writing a byte
extends the last chunk, a flush starts a new one, reading shortens the first: each changes one end of the chain, and no induction is needed.

`TransfersProofs` is about `CommandTransfer` first, for all thirteen drivers and any number of blocks, downloads in a session and
faults (`TransferAssumption`): `TypeCorrect`, `BlocksIntact` (`DataIntact`) and `RetriesRecover` (`Recovers`).

* For `BlocksIntact` the invariant says what can be in the line when a command is sent. `CountInv` counts what was asked and answered; a driver that rejects
  an answer has read all of it (`Whole`, `Fresh`) or purges; where an answer carries the address, what is stored is what was asked for, whatever is in the line
  (`Valid`). The two drivers without a checksum are in between two answers only at the end of one (`Between`), and the Edy
  may leave the end of an answer behind when it gives up (`Stale`). What is excluded by `Hazards` in the property is exactly what
  breaks this.
* For `RetriesRecover`, `CreditInv` says that every retry was made because of a fault and that the attempt under way succeeds unless there is
  another. Drivers without a purge must be in step with the device when they retry: VT Pro, Veo 250 and D9 because they stay so (`Lockstep`), most others because
  they purge or have read everything (`Free`), the iDive because each start without its data in the line was paid for by a
  fault (`IdiveInv`, which counts with cardinalities, `Debt`).

Its second part is about `Atom2Pages`, for every size of a page, a big page and the two memories (`PagesAssumption`: the memories are
whole numbers of big pages) and any sequence of reads and writes, failed ones included: `PagesTypeCorrect` (in particular no
call leaves the memory) and `ReadsIntact` (`DataIntact`). The invariant says that a page in the cache is what the memory holds there now
(`CacheInv`), which a write keeps by invalidating it first (`WriteInv`), and that a read so far is the memory from its first address on
(`DataInv`). `AskedFacts` is the arithmetic: the page of an address, computed by the code separately for the low and the
high memory and numbered differently on the wire, contains the address and lies in the memory.

`Ostc3SessionProofs` proves, for any number of blocks, operations and faults (`SessionAssumption`):

* `TypeCorrect`;
* `ModesAgree` (`StateAgrees`) and `SessionInStep` (`InStep`), with answers lost, late and refused;
* `CleanUpdate`: as long as the line has had no fault, `FirmwareComplete` and `SuccessMeansUpdated`.

The invariant has four parts. `DriverInv` says which script the driver can still have in front of it: the opening of a mode, the body of an
operation, or the closing; the scripts are defined by position (`EachBlock`), so that what is left of one is known without induction
(`Fwupdate3Facts`, `Fwupdate4Facts`, `ScriptTail`). `DeviceInv` types the device. `EchoInv` is what makes `StateAgrees` inductive: an echo of a mode
change that is on the line comes from a device that made the change (`Tells`), and only EXIT, which is sent only when closing, undoes it; hence
the driver, which believes an echo, is right even if the echo is an old one. `CleanInv` holds while there was no fault: the device is
where the driver thinks (`StepInv`), the descriptor the driver keeps is that of the device (`KnownInv`), and a block of the image is still to be
written or read back or is the new one for good, the blob is still to be uploaded or is there (`FirmwareInv`).

Its second part is about `Ostc3Download`, for every size of the table of headers and every length in them (`OstcAssumption`; proofs about
`Table == INSTANCE Ostc3Download`): `TableTypeCorrect` (in particular the buffer has room for every dive), `TableOwnBytes` (`NoForeignDive` and
`NothingLeftOver`) and `TableProgress` (`ProgressComplete`). The invariant `TableInv` adds to the types that every dive of the plan has at least a
header and at most the size of the buffer (`PlanInv`), and what the progress is (`CountInv`): there are partial sums of the lengths in the list
(`Sums`), the last of which is the size in the plan; the progress is the logbook, the sum up to the next dive and a byte for each. The sums
are a function that the walk extends by one value per header, so no induction is needed. `DiveBytes` is the fact about one dive: whatever the
device sends, it adds the length of its header.

The assumptions on constants are named in the module that declares them; the module of a run
evaluates them for its instance. Beyond what is said above they ask only that sizes are natural numbers, positive
where the code divides by them, and that fresh memory (`Junk`) is told apart from bytes.

Only model-checked, and why:

* liveness (`ReadReturns`, `CallsReturn`, `CancelEndsDump`, `Returns`) is out of the prover's reach;
* `FirmwareComplete` and `SuccessMeansUpdated` of `Ostc3Session` with faults on the line are checked for up to two faults. They are proved
  for a clean line only, and cannot be proved for any number of faults: an answer does not say which transfer it belongs to, so with many
  lost and late answers (some twenty) those of an earlier attempt can pass for those of this one;
* `DataIntact` of `ShearwaterDownload` and `EonSteelDownload`: block and sequence numbers come around, so the property
  depends on the number of faults and cannot be proved for all; it is checked for the bounds of section 4;
* the refinements of `DiveDownload`: the dives a device owes are folds over the contents of its memory, and that the search finds
  them is an induction over data;
* `ProgressComplete` of `LogbookDownload` and `DumpDownload`: the maximum they announce is a fold over the lengths of the dives, or over
  the steps of a dump. The conjuncts of `OwnBytes` are all proved, and those of `ProgressComplete` for the other families;
* the parsers: 36 walks with an invariant each.

## 7. Abstractions

* Bytes are tokens or the address they came from; a checksum detects every corruption
  and every mixture of two answers.
* The device is external: modelled from how the driver uses it. Answers come in order.
  A late answer comes after the driver gave up on it, in a pause or after it.
* In the download modules a transfer works, fails, or is cancelled: its retries are in
  `CommandTransfer`, `ShearwaterDownload` and `Ostc3Session`.
* Cases that are findings are excluded from the passing runs by a constant
  (`DeletedAnywhere`, `AllLayouts`, `Unreported`, `Unchecked`): the passing run says what holds otherwise.
* `CommandTransfer`: mares_iconhd with fixed packets, oceanic_atom2 over serial; divesystem_idive
  is excepted from late answers (a hazard with a note).
* `LogbookDownload`: a wrong dive is answered only to drivers that verify it; the dive with the
  fingerprint is one the Ratio/DiveSystem device still has.
* `PointerDownload`: the Screen with an invalid newest header only on a ring that has not
  overflowed, and with a fingerprint that is not ahead of the device.
* `DumpDownload`: a cell is a field; the markers a driver searches for do not occur in the samples; the Suunto ring
  is written round at most once; no single dive fills the ring of an Aladin; the logbook of a NiTek Q lists only dives
  whose profiles are still there (`diverite_nitekq.c:405` does not check it); the second copy a Memomouse sends has the same dives. `log`
  is a history variable: the dives to hand out, from the contents of the device.
* `StreamDownload`: no pause within a dive of a Vyper (the comment at `suunto_vyper.c:337` says that it is not
  100% reliable); the addresses of a ring are in `RbStream`; the extra lengths of the Icon HD Net and the Smart Apnea are
  part of the number of samples; `RunIsCut` excludes the case of section 8.
* `EonSteelDownload`: the device receives every command (section 8), never answers a read with fewer bytes than it has, and the magic value is that of the session.
  `Atom2Pages`: the repeated handshake has no effect on the memory.
* `Transport`: time passes only while `select` waits.
* `SuuntoDownload`, `OceanicDownload`: logbook and pointers aligned to their units. `OceanicDownload` always has both rings (a
  layout without them is a success at once, `oceanic_common.c:672-678`) and hands out whole profiles (a high-memory layout
  then cuts the padding off the last page, `oceanic_common.c:633-646`).
* `Device`: the failure of a transfer is one status; the driver is any driver.
* `malloc` failing is modelled in `DcBuffer` only.
* Parsers: depths, temperatures, deco and the like are delivered as values without
  contents; `get_field` is one call that asks for the counts and the dive time. The setters of the clock,
  the atmospheric pressure and the density only scale values.

The parsers trust the device in places. Where a read is not checked, or behind a check that is too weak, the
dives at which it leaves the data are left out, unless `Unchecked` names the parser. `ReadsInsideDive` is violated with any one
of these names in `Unchecked`; `parsers_unchecked` is the run for the Lynx:

| Name in `Unchecked` | The read that is not checked |
|---|---|
| `liquivision_lynx` | the time stamp of an event, two bytes beyond the four compared (`liquivision_lynx_parser.c:374-380`) |
| `uwatec_smart` | the subtype of a MISC record of one byte at the end (`uwatec_smart_parser.c:1090-1095`); the fields of a short header (`:478-544`) |
| `mares_iconhd` | the dives of a Smart Apnea, whose times nothing bounds (`mares_iconhd_parser.c:944-957`) |
| `suunto_d9` | the identifier (`suunto_d9_parser.c:137`) and the table of parameters (`:442`) |
| `cressi_leonardo` | the interval of a Drake (`cressi_leonardo_parser.c:115`, `:167`) |
| `cressi_edy` | the gas mixes and the interval in the header (`cressi_edy_parser.c:126`, `:249`) |
| `tecdiving_divecomputereu` | the interval (`tecdiving_divecomputereu_parser.c:145`) |
| `atomics_cobalt` | the gas records in `get_field` (`atomics_cobalt_parser.c:152`) |
| `divesystem_idive` | the number of samples and the firmware, in `samples_foreach` (`divesystem_idive_parser.c:435-453`) |
| `cochran_commander` | the first two samples of a Commander TM (`cochran_commander_parser.c:572`), the stop time of a ceiling event (`:770`) |
| `oceanic_atom2` | the date behind the eight bytes compared (`oceanic_atom2_parser.c:276-302`) |

What remains assumed is that a dive has the form the device gives it where the code does not check:

* the length word of a `mares_nemo` dive is at least 5: `create` looks for a marker three bytes before the end it
  gives (`mares_nemo_parser.c:113`) and returns no parser for a smaller one, so that there is no call to state the property of;
* the order of records: Reefnet dives start with their header, Shearwater's opening records
  come before the samples and its extensions and events after one, a CNS record of a Deep Six comes after
  a sample, a Solution dive starts with a sample and ends with 0x80 and a byte;
* numbers that agree with each other: the gas of a Goa sample is one of the header, a gauge dive of a Vyper has no gas
  change, the cylinders of an EON Steel are
  among its gases, its types are described before they are used, and a custom set point has its value;
* numbers the code divides or shifts by: the sample rates of the OSTC and of I330R and DSX
  (`oceanic_atom2_parser.c:822`) are not zero, an OSTC sample has at most four bytes of event flags
  (`hw_ostc_parser.c:911`), and its bailout and manual mixes differ.

## 8. Findings

Each is a run that expects a violation, with the quoted comment in `PROJECT.json`:

* `petrel_deleted`: a deleted record in front of a live one cuts the last live dives off a manifest (`shearwater_petrel.c:296`).
* `predator_search`: the search does not end if the first dive found ends with the last block (`shearwater_predator.c:213`).
* `corrupt_echo`: a corrupt echo of a Suunto D9 is not discarded, the retries are used up out of step (`suunto_common2.c:71`).
* `parsers_unchecked`: a Lynx dive that ends within an event is read beyond its end, in spite of the check (`liquivision_lynx_parser.c:380`);
  the table of section 7 has the other parsers, each violated with its name in `Unchecked` of `MCParsersUnchecked.cfg`.

More were met while modelling and have no run of their own. An operator precedence slip in `hw_ostc3.c:902`
skips the version comparison of compact headers (`HeaderAccepted` of `Ostc3Download` does what the code does). The header size of a Galileo changes
from 152 to 84 once a trimix dive has been cached, so that the same dive of 84 to 151 bytes has a date only then
(`uwatec_smart_parser.c:722`). The dive time of an Icon HD is the number of samples less three minutes, an unsigned number that
wraps for a shorter dive (`mares_iconhd_parser.c:778`; `Wrapped` in the model). The custom set point of an EON Steel survives
the call that read it (`suunto_eonsteel_parser.c:836`). A dive across the wrap
point of the Predator ring that is the only complete one is not found
(`shearwater_predator.c:212`; left out by `Searchable` of `PredatorDownload`). A dive header
that is not the listed one ends the downloads of the Frog and the Excursion with
`DC_STATUS_SUCCESS` (`hw_frog.c:458`, `deepsix_excursion.c`; left out by `Unreported` of
`LogbookDownload`). A run of zeros in front of a Sensus Ultra time stamp that begins in one page and goes on with four zeros
in the next is found too early: the dive starts in the wrong place (`reefnet_sensusultra.c:593`; left out by
`RunIsCut` of `StreamDownload`). A socket starts its timeout again with every `select` (`socket.c:245`), so that a read on a line that
trickles takes longer than the documented timeout (`include/libdivecomputer/iostream.h`); `dc_serial_write` returns `DC_STATUS_SUCCESS` with
fewer bytes than it was given if the system accepts none (`serial_posix.c:821`; `CutShort`). The EON Steel uses a sequence
number again after a command that failed (`suunto_eonsteel.c:392`): if the answer to an OPEN is late and the next
OPEN does not reach the device, the late answer is accepted and the next dive is delivered with the contents of the one before. A device that
receives every command answers in between, and then `DataIntact` holds.

## 9. Not modelled

* Transports: `usb.c`, `usbhid.c`, `ble.c`, `custom.c` call a library or the application once per operation;
  `serial_win32.c` leaves the timeouts to the system; the discovery of `bluetooth.c` and `irda.c` and everything that opens and
  configures a line are system calls.
* Utilities (checksums, AES, hex, calendar, byte order): pure functions; AES and checksums
  say nothing on a small instance.
* `context.c`, `descriptor.c`, `iterator.c`: a logger, a table, an iterator.
* Drivers: `citizen_aqualand` (a single dump handed out without events), `cochran_commander` (six layouts of its memory),
  `pelagic_i330r` (its packets are its own; its download is that of `oceanic_common`), the objects of the Mares Genius
  (`mares_iconhd_device_foreach_object`), the settings, clocks and screenshots of most drivers.
* The SLIP framing of Shearwater: the answers of `ShearwaterDownload` are whole.
* `examples/`, `contrib/`: applications.

## 10. Plan

1. Done: `RbStream` and its proofs; `DcBuffer`, `Packet`, `Hdlc`, `Transport`; `CommandTransfer`,
   `ShearwaterDownload`, `EonSteelDownload`, `Atom2Pages`; `DiveDownload` and nine modules of drivers;
   `Ostc3Session`; `Device`; the parsers as walks over records.
2. Left to model: the SLIP framing of Shearwater, `cochran_commander`, the objects of the Mares Genius, `pelagic_i330r`.
3. Proofs: done for `RbStream`, `Ringbuffer`, `Device`, `DcBuffer`, `Packet`, `Hdlc`, `Transport` and their composition `MCLayers`, `CommandTransfer`,
   `Atom2Pages`, `Ostc3Session`, `SuuntoDownload` (`InStep`), `PointerDownload` (`PassesAgree`, `InStep`), `OceanicDownload` (`OwnProfile`, `PassesAgree`),
   `Ostc3Download` (`NoForeignDive`, `NothingLeftOver`, `ProgressComplete`), `PredatorDownload` (`OwnBlocks`) and the close of `PetrelDownload`
   (`ShutdownSent`). Next: `ProgressComplete` of `LogbookDownload` and `DumpDownload`.
