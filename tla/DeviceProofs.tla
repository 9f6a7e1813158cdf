---------------------------- MODULE DeviceProofs ----------------------------
(***************************************************************************)
(* Proofs about the device layer, for every size of the memory and of a    *)
(* block, every number of dives, events and parsers; that a driver whose   *)
(* close needs a transfer, the Petrel, can rely on it; and, for every ring *)
(* of blocks, that the dives of a Predator are handed out with their own.  *)
(***************************************************************************)
EXTENDS Device, TLAPS

USE DeviceAssumption

-----------------------------------------------------------------------------
(* The inductive invariant *)

\* A call is only in progress on an open device, and the cancel callback is
\* gone while the device is being closed (dc_device_close).
CallInv ==
  /\ handle \in {"none", "open", "closed"}
  /\ call \in {"none", "callback", "close"} \cup Calls
  /\ call # "none" => handle = "open"
  /\ status \in {"none", "SUCCESS", "UNSUPPORTED", "CANCELLED", "FAILED"}
  /\ asks \in BOOLEAN
  /\ call = "close" => ~asks

\* What device_event_emit keeps is what the driver has said last.
EventInv ==
  /\ told \in [Cached -> 0 .. MaxValue] /\ seen \in [Cached -> 0 .. MaxValue]
  /\ cached = told

\* A parser has a copy of its own, and the events of its time.
ParserInv ==
  \A p \in parsers : ~p.data.pointer /\ p.data.copy = p.dive /\ p.event = p.told

\* device_dump_read: the first nbytes units are in their places.
BlocksInv ==
  /\ ~waiting
  /\ buffer \in [1 .. Size -> Nat] /\ \A k \in 1 .. nbytes : buffer[k] = k
  /\ current = nbytes /\ maximum = Size

\* mares_nemo_device_dump: the buffer holds the packets so far, and the
\* progress is one ahead once the device has begun to send.
PacketsInv ==
  /\ buffer \in Seq(Nat) /\ Len(buffer) = nbytes /\ \A k \in 1 .. nbytes : buffer[k] = k
  /\ waiting => nbytes = 0
  /\ current = (IF waiting THEN 0 ELSE nbytes + 1) /\ maximum = Size + 1

DumpInv ==
  /\ appends \in BOOLEAN /\ waiting \in BOOLEAN
  /\ call = "dump" => /\ nbytes \in 0 .. Size
                      /\ IF appends THEN PacketsInv ELSE BlocksInv

IInv == CallInv /\ EventInv /\ ParserInv /\ DumpInv /\ LinkReleased

-----------------------------------------------------------------------------
(* One lemma for every part of the invariant *)

\* The invariant holds initially.
LEMMA InitInv == Init => IInv
<1> SUFFICES ASSUME Init PROVE IInv
  OBVIOUS
<1>1. CallInv
  BY DEF Init, CallInv
<1>2. EventInv
  BY DEF Init, EventInv, Nothing
<1>3. ParserInv /\ DumpInv
  BY DEF Init, ParserInv, DumpInv
<1>4. LinkReleased
  BY DEF Init, LinkReleased
<1> QED BY <1>1, <1>2, <1>3, <1>4 DEF IInv

\* Calls begin on an open device and end, and dc_device_close takes the
\* cancel callback away before it calls the driver.
LEMMA CallStep == CallInv /\ [Next]_vars => CallInv'
<1> SUFFICES ASSUME CallInv, [Next]_vars PROVE CallInv'
  OBVIOUS
<1> USE DEF CallInv, Calls, options, driver, dump, events
<1>1. CASE SetEvents \/ SetCancel \/ RaiseFlag \/ LowerFlag
  BY <1>1 DEF SetEvents, SetCancel, RaiseFlag, LowerFlag, Application
<1>9. CASE Open
  BY <1>9 DEF Open
<1>2. ASSUME NEW c \in Calls, Enter(c) PROVE CallInv'
  BY <1>2 DEF Enter, Return
<1>3. CASE Transfer \/ ReadDive \/ CallbackReturns
  BY <1>3 DEF Transfer, ReadDive, CallbackReturns, Return
<1>4. CASE EmitEvent \/ NewParser \/ DestroyParser \/ DataArrives
  BY <1>4 DEF EmitEvent, NewParser, DestroyParser, DataArrives
<1>5. CASE Dump \/ PollTimesOut
  BY <1>5 DEF Dump, PollTimesOut, ReturnDump, Return
<1>6. CASE ReadBlock \/ ReceivePacket \/ DumpReturns
  BY <1>6 DEF ReadBlock, ReceivePacket, DumpReturns, ReturnDump, Return
<1>7. CASE Close \/ CloseReturns
  BY <1>7 DEF Close, CloseReturns, DisableCancel, Return
<1>8. CASE UNCHANGED vars
  BY <1>8 DEF vars
<1> QED BY <1>1, <1>2, <1>3, <1>4, <1>5, <1>6, <1>7, <1>8, <1>9 DEF Next, Driver

\* An event the driver emits, wherever it does, is kept.
LEMMA EmitKeeps ==
  ASSUME EventInv, NEW e \in Cached, NEW v \in 1 .. MaxValue, Emit(e, v)
  PROVE  EventInv'
BY DEF EventInv, Emit

\* Every action that touches the events emits one or opens the device.
LEMMA EventStep == EventInv /\ [Next]_vars => EventInv'
<1> SUFFICES ASSUME EventInv, [Next]_vars PROVE EventInv'
  OBVIOUS
<1>0. CASE UNCHANGED events
  BY <1>0 DEF EventInv, events
<1>1. CASE Open
  BY <1>1, <1>0 DEF Open, EventInv, Nothing
<1>2. CASE EmitEvent
  BY <1>2, EmitKeeps DEF EmitEvent
<1>3. CASE DumpReturns
  BY <1>3, <1>0, EmitKeeps DEF DumpReturns, Cached
<1>4. ASSUME NEW c \in Calls, Enter(c) PROVE UNCHANGED events
  BY <1>4 DEF Enter
<1>5. CASE SetEvents \/ SetCancel \/ RaiseFlag \/ LowerFlag \/ NewParser \/ DestroyParser
  BY <1>5, <1>0 DEF SetEvents, SetCancel, RaiseFlag, LowerFlag, NewParser, DestroyParser
<1>6. CASE Transfer \/ ReadDive \/ CallbackReturns \/ Close \/ CloseReturns
  BY <1>6, <1>0 DEF Transfer, ReadDive, CallbackReturns, Close, CloseReturns
<1>7. CASE Dump \/ PollTimesOut \/ DataArrives \/ ReadBlock \/ ReceivePacket
  BY <1>7, <1>0 DEF Dump, PollTimesOut, DataArrives, ReadBlock, ReceivePacket
<1>8. CASE UNCHANGED vars
  BY <1>8, <1>0 DEF vars
<1> QED BY <1>0, <1>1, <1>2, <1>3, <1>4, <1>5, <1>6, <1>7, <1>8 DEF Next, Driver

\* A new parser copies the dive that is in the driver's memory, and takes the
\* events that are kept, which are those the driver has emitted.
LEMMA ParserStep == EventInv /\ ParserInv /\ [Next]_vars => ParserInv'
<1> SUFFICES ASSUME EventInv, ParserInv, [Next]_vars PROVE ParserInv'
  OBVIOUS
<1>0. CASE UNCHANGED parsers
  BY <1>0 DEF ParserInv
<1>1. CASE NewParser
  BY <1>1 DEF NewParser, Allocate, ParserInv, EventInv
<1>2. CASE DestroyParser
  BY <1>2 DEF DestroyParser, ParserInv
<1>3. ASSUME NEW c \in Calls, Enter(c) PROVE UNCHANGED parsers
  BY <1>3 DEF Enter
<1>4. CASE Open \/ SetEvents \/ SetCancel \/ RaiseFlag \/ LowerFlag \/ EmitEvent
  BY <1>4, <1>0 DEF Open, SetEvents, SetCancel, RaiseFlag, LowerFlag, EmitEvent
<1>5. CASE Transfer \/ ReadDive \/ CallbackReturns \/ Close \/ CloseReturns
  BY <1>5, <1>0 DEF Transfer, ReadDive, CallbackReturns, Close, CloseReturns
<1>6. CASE Dump \/ PollTimesOut \/ DataArrives \/ ReadBlock \/ ReceivePacket \/ DumpReturns
  BY <1>6, <1>0 DEF Dump, PollTimesOut, DataArrives, ReadBlock, ReceivePacket, DumpReturns
<1>7. CASE UNCHANGED vars
  BY <1>7, <1>0 DEF vars
<1> QED BY <1>0, <1>1, <1>2, <1>3, <1>4, <1>5, <1>6, <1>7 DEF Next, Driver

\* The driver makes room for its memory, or clears the buffer: whatever an
\* earlier dump has left there is gone.
LEMMA DumpBegins ==
  ASSUME DumpInv, Dump PROVE DumpInv'
<1>1. CASE "dump" \notin supports
  BY <1>1 DEF DumpInv, Dump, Return, driver, dump
<1>2. CASE "dump" \in supports /\ appends
  <2>1. buffer' = <<>> /\ nbytes' = 0 /\ current' = 0 /\ maximum' = Size + 1
        /\ waiting' = TRUE /\ appends' = TRUE
    BY <1>2 DEF Dump, Cleared, driver
  <2>2. PacketsInv'
    BY <2>1 DEF PacketsInv
  <2> QED BY <2>1, <2>2 DEF DumpInv
<1>3. CASE "dump" \in supports /\ ~appends
  <2>1. buffer' = [k \in 1 .. Size |-> 0] /\ nbytes' = 0 /\ current' = 0 /\ maximum' = Size
        /\ waiting' = FALSE /\ appends' = FALSE
    BY <1>3 DEF Dump, DumpInv, driver
  <2>2. BlocksInv'
    BY <2>1 DEF BlocksInv
  <2>3. nbytes' \in 0 .. Size
    BY <2>1
  <2> QED BY <2>1, <2>2, <2>3, Zenon DEF DumpInv
<1> QED BY <1>1, <1>2, <1>3

\* A block goes behind the blocks before it and does not pass the end of the
\* memory, also when the block size does not divide its size.
LEMMA BlockAdvances ==
  ASSUME DumpInv, ReadBlock PROVE DumpInv'
<1>0. call = "dump" /\ appends = FALSE /\ appends' = FALSE /\ nbytes \in 0 .. Size
      /\ nbytes < Size /\ BlocksInv /\ waiting = FALSE
  BY DEF DumpInv, ReadBlock, BlocksInv, driver
<1>1. CASE call' = "none"
  BY <1>1, <1>0 DEF DumpInv, ReadBlock, ReturnDump, Return, BlocksInv
<1>2. CASE call' # "none"
  <2>1. /\ buffer' = [k \in DOMAIN buffer |-> IF k \in Block THEN k ELSE buffer[k]]
        /\ nbytes' = nbytes + BlockLength /\ current' = current + BlockLength
        /\ UNCHANGED <<call, status, waiting, maximum>>
    BY <1>2 DEF ReadBlock, ReturnDump, Return
  <2>2. BlockLength \in Nat /\ nbytes + BlockLength <= Size
    BY <1>0 DEF BlockLength
  <2>3. buffer' \in [1 .. Size -> Nat] /\ \A k \in 1 .. nbytes' : buffer'[k] = k
    BY <1>0, <2>1, <2>2 DEF BlocksInv, Block
  <2>4. waiting' = FALSE /\ current' = nbytes' /\ nbytes' \in 0 .. Size /\ maximum' = Size
    BY <1>0, <2>1, <2>2 DEF BlocksInv
  <2>5. BlocksInv'
    BY <1>0, <2>3, <2>4 DEF BlocksInv
  <2> QED BY <1>0, <2>4, <2>5, Zenon DEF DumpInv
<1> QED BY <1>1, <1>2

\* A packet of mares_nemo is appended to those before it.
LEMMA PacketAdvances ==
  ASSUME DumpInv, ReceivePacket PROVE DumpInv'
<1>0. call = "dump" /\ appends = TRUE /\ appends' = TRUE /\ nbytes \in 0 .. Size
      /\ nbytes < Size /\ PacketsInv /\ waiting = FALSE
  BY DEF DumpInv, ReceivePacket, driver
<1>1. CASE call' = "none"
  BY <1>1, <1>0 DEF DumpInv, ReceivePacket, ReturnDump, Return
<1>2. CASE call' # "none"
  <2>1. /\ buffer' = Append(buffer, nbytes + 1)
        /\ nbytes' = nbytes + 1 /\ current' = current + 1
        /\ UNCHANGED <<call, status, waiting, maximum>>
    BY <1>2 DEF ReceivePacket, ReturnDump, Return
  <2>2. buffer' \in Seq(Nat) /\ Len(buffer') = nbytes' /\ \A k \in 1 .. nbytes' : buffer'[k] = k
    BY <1>0, <2>1 DEF PacketsInv
  <2>3. waiting' = FALSE /\ current' = nbytes' + 1 /\ nbytes' \in 0 .. Size /\ maximum' = Size + 1
    BY <1>0, <2>1 DEF PacketsInv
  <2>4. PacketsInv'
    BY <2>2, <2>3 DEF PacketsInv
  <2> QED BY <1>0, <2>3, <2>4, Zenon DEF DumpInv
<1> QED BY <1>1, <1>2

\* Every other action leaves the dump alone or ends it.
LEMMA DumpStep == CallInv /\ DumpInv /\ [Next]_vars => DumpInv'
<1> SUFFICES ASSUME CallInv, DumpInv, [Next]_vars PROVE DumpInv'
  OBVIOUS
<1>0. CASE UNCHANGED <<dump, driver>> /\ (call' = "dump" => call = "dump")
  BY <1>0 DEF DumpInv, BlocksInv, PacketsInv, dump, driver
<1>1. CASE Dump
  BY <1>1, DumpBegins
<1>2. CASE ReadBlock
  BY <1>2, BlockAdvances
<1>3. CASE ReceivePacket
  BY <1>3, PacketAdvances
<1>4. CASE DataArrives
  BY <1>4 DEF DataArrives, DumpInv, BlocksInv, PacketsInv, driver
<1>5. CASE PollTimesOut \/ DumpReturns
  <2>1. CASE call' = "none"
    BY <2>1, <1>5 DEF PollTimesOut, DumpReturns, ReturnDump, DumpInv, driver
  <2>2. CASE call' # "none"
    BY <2>2, <1>5, <1>0 DEF PollTimesOut, DumpReturns, ReturnDump, Return
  <2> QED BY <2>1, <2>2
<1>6. ASSUME NEW c \in Calls, Enter(c) PROVE DumpInv'
  BY <1>6, <1>0 DEF Enter, Return
<1>7. CASE Open \/ SetEvents \/ SetCancel \/ RaiseFlag \/ LowerFlag \/ EmitEvent
           \/ NewParser \/ DestroyParser
  BY <1>7, <1>0 DEF Open, SetEvents, SetCancel, RaiseFlag, LowerFlag, EmitEvent, NewParser,
     DestroyParser
<1>8. CASE Transfer \/ ReadDive \/ CallbackReturns \/ Close \/ CloseReturns
  BY <1>8, <1>0 DEF Transfer, ReadDive, CallbackReturns, Close, CloseReturns, Return
<1>9. CASE UNCHANGED vars
  BY <1>9, <1>0 DEF vars
<1> QED BY <1>1, <1>2, <1>3, <1>4, <1>5, <1>6, <1>7, <1>8, <1>9 DEF Next, Driver

\* Nothing happens to a closed device, and the driver's last command is sent
\* without asking the application: the cancel callback is gone.
LEMMA LinkStep == CallInv /\ LinkReleased /\ [Next]_vars => LinkReleased'
<1> SUFFICES ASSUME CallInv, LinkReleased, [Next]_vars PROVE LinkReleased'
  OBVIOUS
<1>0. CASE handle' # "closed"
  BY <1>0 DEF LinkReleased
<1>1. CASE UNCHANGED <<handle, supports, status, call, linked>>
  BY <1>1 DEF LinkReleased
<1>2. CASE handle = "closed"
  <2>1. call = "none"
    BY <1>2 DEF CallInv
  <2>2. UNCHANGED <<handle, supports, status, call, linked>>
    <3>1. CASE RaiseFlag \/ LowerFlag \/ DestroyParser \/ UNCHANGED vars
      BY <3>1 DEF RaiseFlag, LowerFlag, DestroyParser, vars, driver
    <3>2. ~(\E c \in Calls : Enter(c)) /\ ~Open /\ ~SetEvents /\ ~SetCancel /\ ~Close /\ ~Dump
      BY <1>2 DEF Enter, Open, SetEvents, SetCancel, Application, Close, Dump
    <3>3. ~EmitEvent /\ ~NewParser /\ ~CallbackReturns /\ ~DataArrives /\ ~Driver
      BY <2>1 DEF EmitEvent, NewParser, CallbackReturns, DataArrives, Driver, Transfer, ReadDive,
         PollTimesOut, ReadBlock, ReceivePacket, DumpReturns, CloseReturns
    <3> QED BY <3>1, <3>2, <3>3 DEF Next
  <2> QED BY <2>2, <1>1
<1>3. CASE CloseReturns
  BY <1>3 DEF CloseReturns, CallInv, LinkReleased, device_is_cancelled, Return, driver
<1>4. ASSUME handle # "closed", ~CloseReturns PROVE handle' # "closed"
  <2>1. CASE Open \/ SetEvents \/ SetCancel \/ RaiseFlag \/ LowerFlag \/ EmitEvent
             \/ NewParser \/ DestroyParser \/ CallbackReturns
    BY <2>1, <1>4 DEF Open, SetEvents, SetCancel, RaiseFlag, LowerFlag, EmitEvent, NewParser,
       DestroyParser, CallbackReturns
  <2>2. CASE Dump \/ DataArrives \/ Close \/ \E c \in Calls : Enter(c)
    BY <2>2, <1>4 DEF Dump, DataArrives, Close, Enter
  <2>3. CASE Transfer \/ ReadDive \/ PollTimesOut \/ ReadBlock \/ ReceivePacket \/ DumpReturns
    BY <2>3, <1>4 DEF Transfer, ReadDive, PollTimesOut, ReadBlock, ReceivePacket, DumpReturns
  <2>4. CASE UNCHANGED vars
    BY <2>4, <1>4 DEF vars
  <2> QED BY <1>4, <2>1, <2>2, <2>3, <2>4 DEF Next, Driver
<1> QED BY <1>0, <1>2, <1>3, <1>4

-----------------------------------------------------------------------------
(* The theorems *)

\* The parts of IInv, each kept by every step, together.
THEOREM Invariance == Spec => []IInv
<1>1. Init => IInv
  BY InitInv
<1>2. IInv /\ [Next]_vars => IInv'
  BY CallStep, EventStep, ParserStep, DumpStep, LinkStep DEF IInv
<1> QED BY <1>1, <1>2, PTL DEF Spec

\* Types: a call is only in progress on an open device.
THEOREM TypeCorrect == Spec => []TypeOK
<1>1. IInv => TypeOK
  BY DEF IInv, CallInv, EventInv, TypeOK
<1> QED BY <1>1, Invariance, PTL

\* A parser keeps the bytes of its dive (dc_parser_allocate copies them),
\* whatever the driver reads into its memory afterwards.
THEOREM ParsersKeepTheirDives == Spec => []ParserKeepsDive
<1>1. IInv => ParserKeepsDive
  BY DEF IInv, ParserInv, ParserKeepsDive, DataOf
<1> QED BY <1>1, Invariance, PTL

\* A parser has the model and the clock the driver had announced, whatever
\* the application has asked for (device_event_emit keeps the events before
\* it looks at the mask).
THEOREM ParsersKnowTheDevice == Spec => []ParserKnowsDevice
<1>1. IInv => ParserKnowsDevice
  BY DEF IInv, ParserInv, ParserKnowsDevice
<1> QED BY <1>1, Invariance, PTL

\* A dump that comes to its end has the memory of the device in the buffer,
\* for every size of the memory and of a block (device_dump_read,
\* mares_nemo_device_dump), and its progress ends at its maximum.
THEOREM DumpsAreMemory == Spec => []DumpIsMemory
<1>1. IInv => DumpIsMemory
  <2> SUFFICES ASSUME IInv, call = "dump"
               PROVE  /\ current <= maximum
                      /\ ~waiting /\ nbytes >= Size => buffer = Memory /\ current = maximum
    BY DEF DumpIsMemory
  <2>0. nbytes \in 0 .. Size /\ (IF appends THEN PacketsInv ELSE BlocksInv)
    BY DEF IInv, DumpInv
  <2>1. CASE appends
    <3>1. PacketsInv
      BY <2>0, <2>1
    <3>2. ASSUME ~waiting, nbytes >= Size PROVE buffer = Memory
      BY <3>1, <3>2, <2>0 DEF PacketsInv, Memory
    <3> QED BY <2>0, <3>1, <3>2 DEF PacketsInv
  <2>2. CASE ~appends
    <3>1. BlocksInv
      BY <2>0, <2>2
    <3>2. ASSUME nbytes >= Size PROVE buffer = Memory
      BY <3>1, <3>2, <2>0 DEF BlocksInv, Memory
    <3> QED BY <2>0, <3>1, <3>2 DEF BlocksInv
  <2> QED BY <2>1, <2>2
<1> QED BY <1>1, Invariance, PTL

\* A driver that is closed without an error has released the link, and no
\* cancellation gets in its way (dc_device_close).
THEOREM ClosingReleasesTheLink == Spec => []LinkReleased
<1>1. IInv => LinkReleased
  BY DEF IInv
<1> QED BY <1>1, Invariance, PTL

-----------------------------------------------------------------------------
(* The same promise of a driver: closing a Shearwater Petrel *)

CONSTANTS RECORD_COUNT, MaxRecords, UINT_MAX, DeletedAnywhere

VARIABLES
  live, fingerprint, asleep, registered, cancelled, pc, page, manifests, next,
  steps, total, handed, stopped, info

Petrel == INSTANCE PetrelDownload

\* However the download has ended, cancelled or not, dc_device_close removes
\* the cancel callback before shearwater_petrel_device_close asks for a
\* transfer, so that the shutdown request is sent unless the line fails; for
\* every number of records and of records in a manifest.
THEOREM ClosingShutsDown == Petrel!Spec => []Petrel!ShutdownSent
<1>1. Petrel!Init => Petrel!ShutdownSent
  BY DEF Petrel!Init, Petrel!ShutdownSent
<1>2. Petrel!ShutdownSent /\ [Petrel!Next]_Petrel!vars => Petrel!ShutdownSent'
  <2> SUFFICES ASSUME Petrel!ShutdownSent, [Petrel!Next]_Petrel!vars, pc' = "closed"
               PROVE  asleep' \/ status' = "IO"
    BY DEF Petrel!ShutdownSent
  <2>1. CASE Petrel!Close
    <3>1. ~registered'
      BY <2>1 DEF Petrel!Close, Petrel!DisableCancel
    <3>2. PICK sent \in BOOLEAN : asleep' = sent /\ status' = IF sent THEN "SUCCESS" ELSE "IO"
      BY <2>1, <3>1, Zenon DEF Petrel!Close
    <3> QED BY <3>2
  <2>2. CASE Petrel!Closed \/ UNCHANGED Petrel!vars
    <3>1. pc = "closed" /\ UNCHANGED <<asleep, status>>
      BY <2>2 DEF Petrel!Closed, Petrel!vars
    <3> QED BY <3>1 DEF Petrel!ShutdownSent
  <2>3. CASE Petrel!ReadManifest
    BY <2>3 DEF Petrel!ReadManifest, Petrel!Fails
  <2>4. CASE Petrel!Collected
    BY <2>4 DEF Petrel!Collected, Petrel!AfterManifests
  <2>5. CASE Petrel!ReadDive
    BY <2>5 DEF Petrel!ReadDive, Petrel!Fails
  <2>6. CASE Petrel!Foreach \/ Petrel!Identify \/ Petrel!LogbookType \/ Petrel!Return
    BY <2>6 DEF Petrel!Foreach, Petrel!Identify, Petrel!LogbookType, Petrel!Return, Petrel!Fails
  <2> QED BY <2>1, <2>2, <2>3, <2>4, <2>5, <2>6 DEF Petrel!Next
<1> QED BY <1>1, <1>2, PTL DEF Petrel!Spec

-----------------------------------------------------------------------------
(* The dives of a Shearwater Predator, for every ring *)

CONSTANTS N, Lens, AllLayouts

VARIABLES petrel, mem, wrong, offset, begin, mark, marked, highest, eop

Predator == INSTANCE PredatorDownload

\* A block of a dive, or none; a header is the first of its dive.
Cells ==
  {b \in [kind : {"empty", "final", "header", "data", "footer"}, dive : Int, part : Nat] :
     b.kind = "header" => b.part = 1}

\* In the ring of a Predator: in front of a block that is not a header is the
\* block before it of the same dive, unless that dive is cut off there.
Follows(b, c) ==
  c.kind \in {"data", "footer"} =>
    \/ b.kind \in {"empty", "footer"}
    \/ b.kind \in {"header", "data"} /\ b.dive = c.dive /\ b.part = c.part - 1

Chained == \A i \in 0 .. N - 1 : Follows(mem[IF i = 0 THEN N - 1 ELSE i - 1], mem[i])

\* In the memory of a Petrel: behind a block that is not a footer is the next
\* one of the same dive.
InOrder ==
  \A i \in 0 .. N - 1 : mem[i].kind \in {"header", "data"} =>
    /\ i + 1 < N /\ mem[i + 1].kind \in {"data", "footer"}
    /\ mem[i + 1].dive = mem[i].dive /\ mem[i + 1].part = mem[i].part + 1

MemInv == mem \in [0 .. N - 1 -> Cells] /\ (IF petrel THEN InOrder ELSE Chained)

Own(h) ==
  LET b == h.blocks
      n == Len(b)
  IN  /\ b[1].kind = "header" /\ b[n - 1].kind = "footer" /\ b[n] = Predator!FinalBlock
      /\ \A j \in 1 .. n - 1 : b[j].dive = h.dive /\ b[j].part = j

Handed == {h \in [dive : Int, blocks : Seq(Cells)] : Own(h)}

PredatorTypes ==
  /\ pc \in {"idle", "dump", "search", "extract", "petrel", "return", "done"}
  /\ petrel \in BOOLEAN
  /\ offset \in 0 .. N /\ begin \in 0 .. N /\ eop \in 0 .. N
  /\ mark \in 0 .. N - 1 /\ marked \in BOOLEAN
  /\ pc \in {"idle", "dump"} => ~marked
  /\ pc = "search" => ~petrel
  /\ status \in {"none", "SUCCESS", "DATAFORMAT", "IO", "TIMEOUT", "PROTOCOL", "CANCELLED",
                 "NOMEMORY"}
  /\ handed \in Seq(Handed)

\* The walk through the copy: what is still to be read is as it was in the
\* ring, and from the last footer on the blocks are those of one dive.
CopyInv ==
  pc = "extract" =>
    /\ buffer \in [0 .. N -> Cells]
    /\ \A i \in 1 .. offset : i < N => Follows(buffer[i - 1], buffer[i])
    /\ marked => /\ offset <= mark /\ buffer[mark].kind = "footer"
                 /\ buffer[offset].kind \in {"data", "footer"}
                 /\ \A j \in offset .. mark :
                      buffer[j].dive = buffer[mark].dive /\ buffer[j].part = buffer[mark].part - (mark - j)

\* The walk through the memory of a Petrel: from the last header on the
\* blocks are those of one dive.
WalkInv ==
  pc = "petrel" =>
    /\ petrel
    /\ marked => /\ mark < offset /\ mem[mark].kind = "header"
                 /\ mem[offset - 1].kind \in {"header", "data"}
                 /\ \A j \in mark .. offset - 1 :
                      mem[j].dive = mem[mark].dive /\ mem[j].part = j - mark + 1

PredatorInv == MemInv /\ PredatorTypes /\ CopyInv /\ WalkInv

\* A block of a dive of two blocks or more.
LEMMA BlockFacts ==
  ASSUME NEW d \in Int, NEW length \in Nat \ {0, 1}, NEW part \in 1 .. length
  PROVE  LET b == Predator!Block(d, length, part)
         IN  /\ b \in Cells /\ b.dive = d /\ b.part = part
             /\ b.kind \in {"header", "data", "footer"}
             /\ (b.kind = "header" <=> part = 1) /\ (b.kind = "footer" <=> part = length)
BY DEF Predator!Block, Cells

\* A place of a Packed layout is in one dive at most.
LEMMA HolderUnique ==
  ASSUME Predator!PredatorAssumption, NEW n \in 0 .. MaxDives, NEW at \in [1 .. n + 1 -> 0 .. N],
         Predator!Packed(n, at), NEW age \in Int
  PROVE  /\ \A j \in Predator!Holders(n, at, age) :
              /\ j \in 1 .. n /\ at[j] \in Nat /\ at[j + 1] \in Nat /\ at[j + 1] <= N
              /\ at[j + 1] - at[j] \in Nat \ {0, 1} /\ age \in at[j] .. at[j + 1] - 1
              /\ at[j + 1] <= at[n + 1]
         /\ \A j, k \in Predator!Holders(n, at, age) : j = k
<1>1. N \in Nat /\ MaxDives \in Nat /\ n \in Nat /\ Lens \subseteq Nat \ {0, 1}
  BY DEF Predator!PredatorAssumption
<1>2. \A j \in 1 .. n + 1 : at[j] \in 0 .. N
  OBVIOUS
<1>3. \A j, k \in 1 .. n + 1 : j < k => at[j] < at[k]
  BY DEF Predator!Packed
<1>4. ASSUME NEW j \in Predator!Holders(n, at, age)
      PROVE  /\ j \in 1 .. n /\ at[j] \in Nat /\ at[j + 1] \in Nat /\ at[j + 1] <= N
             /\ at[j + 1] - at[j] \in Nat \ {0, 1} /\ age \in at[j] .. at[j + 1] - 1
             /\ at[j + 1] <= at[n + 1]
  <2>1. j \in 1 .. n /\ age \in at[j] .. at[j + 1] - 1
    BY <1>4 DEF Predator!Holders
  <2>2. j \in 1 .. n + 1 /\ j + 1 \in 1 .. n + 1 /\ n + 1 \in 1 .. n + 1
    BY <1>1, <2>1
  <2>3. at[j + 1] - at[j] \in Nat \ {0, 1}
    BY <1>1, <2>1 DEF Predator!Packed
  <2>4. j + 1 = n + 1 \/ j + 1 < n + 1
    BY <1>1, <2>1
  <2> QED BY <1>1, <1>2, <1>3, <2>1, <2>2, <2>3, <2>4
<1>5. ASSUME NEW j \in Predator!Holders(n, at, age), NEW k \in Predator!Holders(n, at, age), j < k
      PROVE  FALSE
  <2>1. j \in 1 .. n /\ k \in 1 .. n /\ age < at[j + 1] /\ at[k] <= age /\ at[j + 1] \in Nat /\ at[k] \in Nat
    BY <1>4
  <2>2. j + 1 = k \/ j + 1 < k
    BY <1>5, <2>1
  <2>3. j + 1 \in 1 .. n + 1 /\ k \in 1 .. n + 1
    BY <1>1, <2>1
  <2>4. at[j + 1] <= at[k]
    BY <1>3, <2>1, <2>2, <2>3
  <2> QED BY <2>1, <2>4
<1>6. \A j, k \in Predator!Holders(n, at, age) : j = k
  <2> SUFFICES ASSUME NEW j \in Predator!Holders(n, at, age), NEW k \in Predator!Holders(n, at, age), j # k
               PROVE  FALSE
    OBVIOUS
  <2>1. j < k \/ k < j
    BY <1>1, <1>4
  <2> QED BY <1>5, <2>1
<1> QED BY <1>4, <1>6

\* From a place in the ring to the next older one, and from the oldest to the
\* newest.
LEMMA AgesFollow ==
  ASSUME Predator!PredatorAssumption, NEW n \in 0 .. MaxDives, NEW at \in [1 .. n + 1 -> 0 .. N],
         Predator!Packed(n, at), NEW oldest \in Lens, NEW cut \in 0 .. oldest - 1,
         NEW age \in 0 .. N - 1, NEW b, NEW c, NEW f,
         b = Predator!BlockOfAge(n, at, oldest, cut, age + 1),
         c = Predator!BlockOfAge(n, at, oldest, cut, age),
         f = Predator!BlockOfAge(n, at, oldest, cut, 0)
  PROVE  c \in Cells /\ Follows(b, c) /\ f.kind \in {"empty", "footer"}
<1>1. /\ N \in Nat \ {0} /\ MaxDives \in Nat /\ n \in Nat /\ n <= MaxDives /\ age \in Nat
      /\ oldest \in Nat \ {0, 1} /\ cut \in Nat /\ cut < oldest /\ at[n + 1] \in Nat
  BY DEF Predator!PredatorAssumption
<1>2. /\ Predator!Empty \in Cells /\ Predator!Empty.kind = "empty"
      /\ age + 1 \in Int /\ 0 \in Int /\ age \in Int /\ MaxDives + 1 - n \in Int
  BY <1>1 DEF Predator!Empty, Cells
<1>3. ASSUME NEW j \in Predator!Holders(n, at, age) PROVE c \in Cells /\ Follows(b, c)
  <2>1. /\ j \in 1 .. n /\ at[j] \in Nat /\ at[j + 1] \in Nat
        /\ at[j + 1] - at[j] \in Nat \ {0, 1} /\ age \in at[j] .. at[j + 1] - 1
    BY <1>2, HolderUnique
  <2>2. PICK lo \in Nat, hi \in Nat : lo = at[j] /\ hi = at[j + 1]
    BY <2>1
  <2>3. PICK d, length, part : d = MaxDives + 2 - j /\ length = hi - lo /\ part = hi - age
    OBVIOUS
  <2>4. /\ hi - lo \in Nat \ {0, 1} /\ age \in lo .. hi - 1
        /\ d \in Int /\ length \in Nat \ {0, 1} /\ part \in 1 .. length
    <3>1. hi - lo \in Nat \ {0, 1} /\ age \in lo .. hi - 1
      BY <2>1, <2>2
    <3> QED BY <1>1, <2>1, <2>3, <3>1
  <2>5. c = Predator!Block(d, length, part)
    <3>1. (CHOOSE k \in Predator!Holders(n, at, age) : TRUE) = j
      <4>1. \A k, m \in Predator!Holders(n, at, age) : k = m
        BY <1>2, HolderUnique
      <4> QED BY <4>1
    <3>2. d = MaxDives + 2 - j /\ length = at[j + 1] - at[j] /\ part = at[j + 1] - age
      BY <2>2, <2>3
    <3> QED BY <3>1, <3>2 DEF Predator!BlockOfAge
  <2>6. c \in Cells /\ c.dive = d /\ c.part = part /\ (part = 1 => c.kind = "header")
    BY <2>4, <2>5, BlockFacts
  <2>7. ASSUME part # 1 PROVE b.kind \in {"header", "data", "footer"} /\ b.dive = d /\ b.part = part - 1
    <3>1. hi - (age + 1) = part - 1 /\ part - 1 \in 1 .. length /\ age + 1 \in lo .. hi - 1
      BY <1>1, <2>3, <2>4, <2>7
    <3>2. j \in Predator!Holders(n, at, age + 1)
      BY <2>1, <2>2, <3>1 DEF Predator!Holders
    <3>3. (CHOOSE k \in Predator!Holders(n, at, age + 1) : TRUE) = j
      <4>1. \A k, m \in Predator!Holders(n, at, age + 1) : k = m
        BY <1>2, HolderUnique
      <4> QED BY <3>2, <4>1
    <3>4. b = Predator!Block(d, length, part - 1)
      <4>1. d = MaxDives + 2 - j /\ length = at[j + 1] - at[j] /\ part - 1 = at[j + 1] - (age + 1)
        BY <2>2, <2>3, <3>1
      <4> QED BY <3>2, <3>3, <4>1 DEF Predator!BlockOfAge
    <3> QED BY <2>4, <3>1, <3>4, BlockFacts
  <2> QED BY <2>6, <2>7 DEF Follows
<1>4. ASSUME Predator!Holders(n, at, age) = {}, age \in at[n + 1] .. at[n + 1] + cut - 1
      PROVE  c \in Cells /\ Follows(b, c)
  <2>1. PICK part \in 1 .. oldest : part = oldest - (age - at[n + 1])
    BY <1>1, <1>4
  <2>2. c = Predator!Block(MaxDives + 1 - n, oldest, part)
    BY <1>4, <2>1 DEF Predator!BlockOfAge
  <2>3. c \in Cells /\ c.dive = MaxDives + 1 - n /\ c.part = part
    BY <1>1, <1>2, <2>2, BlockFacts
  <2>4. Predator!Holders(n, at, age + 1) = {}
    <3> SUFFICES ASSUME NEW j \in Predator!Holders(n, at, age + 1) PROVE FALSE
      OBVIOUS
    <3>1. age + 1 \in at[j] .. at[j + 1] - 1 /\ at[j + 1] <= at[n + 1] /\ at[j] \in Nat /\ at[j + 1] \in Nat
      BY <1>2, HolderUnique
    <3> QED BY <1>1, <1>4, <3>1
  <2>5. CASE age + 1 \in at[n + 1] .. at[n + 1] + cut - 1
    <3>1. oldest - (age + 1 - at[n + 1]) = part - 1 /\ part - 1 \in 1 .. oldest
      BY <1>1, <2>1, <2>5
    <3>2. b = Predator!Block(MaxDives + 1 - n, oldest, part - 1)
      BY <2>4, <2>5, <3>1 DEF Predator!BlockOfAge
    <3>3. b.kind \in {"header", "data", "footer"} /\ b.dive = MaxDives + 1 - n /\ b.part = part - 1
      <4>1. PICK q \in 1 .. oldest : q = part - 1
        BY <3>1
      <4>2. PICK d \in Int : d = MaxDives + 1 - n
        BY <1>2
      <4>3. b = Predator!Block(d, oldest, q)
        BY <3>2, <4>1, <4>2
      <4> QED BY <1>1, <4>1, <4>2, <4>3, BlockFacts
    <3> QED BY <2>3, <3>3 DEF Follows
  <2>6. CASE age + 1 \notin at[n + 1] .. at[n + 1] + cut - 1
    <3>1. b = Predator!Empty
      BY <2>4, <2>6 DEF Predator!BlockOfAge
    <3> QED BY <1>2, <2>3, <3>1 DEF Follows
  <2> QED BY <2>5, <2>6
<1>5. ASSUME Predator!Holders(n, at, age) = {}, age \notin at[n + 1] .. at[n + 1] + cut - 1
      PROVE  c \in Cells /\ Follows(b, c)
  <2>1. c = Predator!Empty
    BY <1>5 DEF Predator!BlockOfAge
  <2> QED BY <1>2, <2>1 DEF Follows
<1>6. f.kind \in {"empty", "footer"}
  <2>1. CASE n = 0
    <3>1. Predator!Holders(n, at, 0) = {} /\ at[n + 1] = 0
      BY <2>1 DEF Predator!Holders, Predator!Packed
    <3>2. CASE cut = 0
      <4>1. 0 \notin at[n + 1] .. at[n + 1] + cut - 1
        BY <3>1, <3>2
      <4> QED BY <1>2, <3>1, <4>1 DEF Predator!BlockOfAge
    <3>3. CASE cut # 0
      <4>1. 0 \in at[n + 1] .. at[n + 1] + cut - 1 /\ oldest = oldest - (0 - at[n + 1])
        BY <1>1, <3>1, <3>3
      <4>2. f = Predator!Block(MaxDives + 1 - n, oldest, oldest)
        BY <3>1, <4>1 DEF Predator!BlockOfAge
      <4>3. oldest \in 1 .. oldest
        BY <1>1
      <4> QED BY <1>1, <1>2, <4>2, <4>3, BlockFacts
    <3> QED BY <3>2, <3>3
  <2>2. CASE n # 0
    <3>1. at[1] = 0 /\ at[2] \in Nat \ {0, 1}
      <4>1. 1 \in 1 .. n /\ 1 + 1 = 2 /\ 2 \in 1 .. n + 1
        BY <1>1, <2>2
      <4>2. at[1] = 0 /\ at[1 + 1] - at[1] \in Lens /\ at[2] \in 0 .. N
        BY <4>1 DEF Predator!Packed
      <4> QED BY <4>1, <4>2 DEF Predator!PredatorAssumption
    <3>2. 1 \in Predator!Holders(n, at, 0)
      BY <1>1, <2>2, <3>1 DEF Predator!Holders
    <3>3. (CHOOSE k \in Predator!Holders(n, at, 0) : TRUE) = 1
      <4>1. \A k, m \in Predator!Holders(n, at, 0) : k = m
        BY <1>2, HolderUnique
      <4> QED BY <3>2, <4>1
    <3>4. PICK length \in Nat \ {0, 1} : length = at[2]
      BY <3>1
    <3>5. PICK d : d = MaxDives + 2 - 1
      OBVIOUS
    <3>6. f = Predator!Block(d, length, length)
      <4>1. length = at[1 + 1] - at[1] /\ length = at[1 + 1] - 0
        BY <3>1, <3>4
      <4> QED BY <3>2, <3>3, <3>5, <4>1 DEF Predator!BlockOfAge
    <3>7. f.kind = "footer"
      BY <3>6 DEF Predator!Block
    <3> QED BY <3>7
  <2> QED BY <2>1, <2>2
<1>7. c \in Cells /\ Follows(b, c)
  BY <1>3, <1>4, <1>5
<1> QED BY <1>6, <1>7

LEMMA RingChained ==
  ASSUME Predator!PredatorAssumption, NEW n \in 0 .. MaxDives, NEW at \in [1 .. n + 1 -> 0 .. N],
         Predator!Packed(n, at), NEW oldest \in Lens, NEW cut \in 0 .. oldest - 1, NEW end \in 1 .. N,
         mem = Predator!Ring(n, at, oldest, cut, end)
  PROVE  mem \in [0 .. N - 1 -> Cells] /\ Chained
<1>1. N \in Nat \ {0} /\ end \in Nat
  BY DEF Predator!PredatorAssumption
<1> DEFINE Age(i) == IF i < end THEN end - 1 - i ELSE end - 1 - i + N
<1>2. mem = [i \in 0 .. N - 1 |-> Predator!BlockOfAge(n, at, oldest, cut, Age(i))]
  BY DEF Predator!Ring
<1>3. \A i \in 0 .. N - 1 : Age(i) \in 0 .. N - 1
  BY <1>1
<1>4. ASSUME NEW i \in 0 .. N - 1 PROVE mem[i] \in Cells
  <2> HIDE DEF Age
  <2>1. PICK age \in 0 .. N - 1 : age = Age(i)
    BY <1>3
  <2>2. mem[i] = Predator!BlockOfAge(n, at, oldest, cut, age)
    BY <1>2, <2>1
  <2> QED BY <2>2, AgesFollow
<1>5. ASSUME NEW i \in 0 .. N - 1 PROVE Follows(mem[IF i = 0 THEN N - 1 ELSE i - 1], mem[i])
  <2>1. PICK k \in 0 .. N - 1 : k = IF i = 0 THEN N - 1 ELSE i - 1
    BY <1>1
  <2>2. Age(k) = Age(i) + 1 \/ Age(k) = 0
    BY <1>1, <2>1
  <2> HIDE DEF Age
  <2>3. PICK age \in 0 .. N - 1 : age = Age(i)
    BY <1>3
  <2>4. mem[i] = Predator!BlockOfAge(n, at, oldest, cut, age)
    BY <1>2, <2>3
  <2>5. mem[k] = Predator!BlockOfAge(n, at, oldest, cut, Age(k))
    BY <1>2
  <2>6. CASE Age(k) = age + 1
    <3>1. mem[k] = Predator!BlockOfAge(n, at, oldest, cut, age + 1)
      BY <2>5, <2>6
    <3> QED BY <2>1, <2>4, <3>1, AgesFollow
  <2>7. CASE Age(k) = 0
    <3>1. mem[k] = Predator!BlockOfAge(n, at, oldest, cut, 0)
      BY <2>5, <2>7
    <3>2. mem[k].kind \in {"empty", "footer"}
      BY <3>1, AgesFollow
    <3> QED BY <2>1, <3>2 DEF Follows
  <2> QED BY <2>2, <2>3, <2>6, <2>7
<1>6. mem \in [0 .. N - 1 -> Cells]
  <2> HIDE DEF Age
  <2> QED BY <1>2, <1>4
<1> QED BY <1>5, <1>6 DEF Chained

LEMMA PetrelInOrder ==
  ASSUME Predator!PredatorAssumption, NEW n \in 0 .. MaxDives, NEW at \in [1 .. n + 1 -> 0 .. N],
         Predator!Packed(n, at), mem = Predator!Ordered(n, at)
  PROVE  mem \in [0 .. N - 1 -> Cells] /\ InOrder
<1>1. N \in Nat \ {0} /\ MaxDives \in Nat /\ n \in Nat /\ n <= MaxDives
  BY DEF Predator!PredatorAssumption
<1>2. Predator!Empty \in Cells /\ Predator!Empty.kind = "empty"
  BY DEF Predator!Empty, Cells
<1>3. ASSUME NEW i \in Int, NEW j \in Predator!Holders(n, at, i)
      PROVE  (CHOOSE k \in Predator!Holders(n, at, i) : TRUE) = j
  <2>1. \A k, m \in Predator!Holders(n, at, i) : k = m
    BY HolderUnique
  <2> QED BY <2>1
<1>4. ASSUME NEW i \in 0 .. N - 1
      PROVE  /\ mem[i] \in Cells
             /\ mem[i].kind \in {"header", "data"} =>
                  /\ i + 1 < N /\ mem[i + 1].kind \in {"data", "footer"}
                  /\ mem[i + 1].dive = mem[i].dive /\ mem[i + 1].part = mem[i].part + 1
  <2>1. CASE Predator!Holders(n, at, i) = {}
    <3>1. mem[i] = Predator!Empty
      BY <2>1 DEF Predator!Ordered
    <3> QED BY <1>2, <3>1
  <2>2. CASE Predator!Holders(n, at, i) # {}
    <3>1. PICK j \in Predator!Holders(n, at, i) : TRUE
      BY <2>2
    <3>2. /\ j \in 1 .. n /\ at[j] \in Nat /\ at[j + 1] \in Nat /\ at[j + 1] <= N
          /\ at[j + 1] - at[j] \in Nat \ {0, 1} /\ i \in at[j] .. at[j + 1] - 1
      <4>1. i \in Int
        BY <1>1
      <4> QED BY <4>1, HolderUnique
    <3>3. PICK lo \in Nat, hi \in Nat : lo = at[j] /\ hi = at[j + 1]
      BY <3>2
    <3>4. PICK d, length, part : d = MaxDives + 2 - j /\ length = hi - lo /\ part = i - lo + 1
      OBVIOUS
    <3>5. hi - lo \in Nat \ {0, 1} /\ i \in lo .. hi - 1 /\ hi <= N
      BY <3>2, <3>3
    <3>6. d \in Int /\ length \in Nat \ {0, 1} /\ part \in 1 .. length /\ (part # length => i + 1 \in lo .. hi - 1)
      BY <1>1, <3>2, <3>4, <3>5
    <3>7. mem[i] = Predator!Block(d, length, part)
      <4>1. (CHOOSE k \in Predator!Holders(n, at, i) : TRUE) = j
        BY <1>1, <1>3
      <4>2. d = MaxDives + 2 - j /\ length = at[j + 1] - at[j] /\ part = i - at[j] + 1
        BY <3>3, <3>4
      <4> QED BY <4>1, <4>2 DEF Predator!Ordered
    <3>8. /\ mem[i] \in Cells /\ mem[i].dive = d /\ mem[i].part = part
          /\ part = length => mem[i].kind = "footer"
      BY <3>6, <3>7, BlockFacts
    <3>9. ASSUME part # length
          PROVE  /\ i + 1 < N /\ mem[i + 1].kind \in {"data", "footer"}
                 /\ mem[i + 1].dive = d /\ mem[i + 1].part = part + 1
      <4>1. i + 1 \in lo .. hi - 1 /\ i + 1 \in 0 .. N - 1
        BY <1>1, <3>5, <3>6, <3>9
      <4>2. j \in Predator!Holders(n, at, i + 1)
        BY <3>2, <3>3, <4>1 DEF Predator!Holders
      <4>3. part + 1 = (i + 1) - lo + 1 /\ part + 1 \in 1 .. length
        BY <3>4, <3>5, <3>6, <3>9
      <4>4. mem[i + 1] = Predator!Block(d, length, part + 1)
        <5>1. (CHOOSE k \in Predator!Holders(n, at, i + 1) : TRUE) = j
          BY <1>1, <1>3, <4>2
        <5>2. d = MaxDives + 2 - j /\ length = at[j + 1] - at[j] /\ part + 1 = (i + 1) - at[j] + 1
          BY <3>3, <3>4, <4>3
        <5> QED BY <4>1, <4>2, <5>1, <5>2 DEF Predator!Ordered
      <4>5. mem[i + 1].kind \in {"data", "footer"} /\ mem[i + 1].dive = d /\ mem[i + 1].part = part + 1
        <5>1. PICK q \in 1 .. length : q = part + 1 /\ q # 1
          BY <3>6, <4>3
        <5> QED BY <3>6, <4>4, <5>1, BlockFacts
      <4> QED BY <1>1, <4>1, <4>5
    <3> QED BY <3>8, <3>9
  <2> QED BY <2>1, <2>2
<1>5. mem \in [0 .. N - 1 -> Cells]
  BY <1>4 DEF Predator!Ordered
<1> QED BY <1>4, <1>5 DEF InOrder

LEMMA PredatorStart == ASSUME Predator!PredatorAssumption, Predator!Init PROVE PredatorInv
<1>1. PICK n \in 0 .. MaxDives, oldest \in Lens, end \in 1 .. N :
        \E at \in [1 .. n + 1 -> 0 .. N], cut \in 0 .. oldest - 1 :
          /\ Predator!Packed(n, at)
          /\ mem = IF petrel THEN Predator!Ordered(n, at) ELSE Predator!Ring(n, at, oldest, cut, end)
  BY DEF Predator!Init
<1>2. PICK at \in [1 .. n + 1 -> 0 .. N], cut \in 0 .. oldest - 1 :
        /\ Predator!Packed(n, at)
        /\ mem = IF petrel THEN Predator!Ordered(n, at) ELSE Predator!Ring(n, at, oldest, cut, end)
  BY <1>1
<1>3. MemInv
  <2>1. CASE petrel
    BY <1>2, <2>1, PetrelInOrder DEF MemInv
  <2>2. CASE ~petrel
    BY <1>2, <2>2, RingChained DEF MemInv
  <2> QED BY <2>1, <2>2
<1>4. /\ pc = "idle" /\ offset = N /\ begin = 0 /\ mark = 0 /\ marked = FALSE /\ eop = N
      /\ handed = <<>> /\ status = "none" /\ petrel \in BOOLEAN /\ N \in Nat \ {0}
  BY DEF Predator!Init, Predator!PredatorAssumption
<1>5. PredatorTypes
  <2>1. offset \in 0 .. N /\ begin \in 0 .. N /\ eop \in 0 .. N /\ mark \in 0 .. N - 1
    BY <1>4
  <2>2. <<>> \in Seq(Handed)
    OBVIOUS
  <2> QED BY <1>4, <2>1, <2>2 DEF PredatorTypes
<1>6. CopyInv /\ WalkInv
  BY <1>4 DEF CopyInv, WalkInv
<1> QED BY <1>3, <1>5, <1>6 DEF PredatorInv

\* A dive that is followed by the final block is handed out as its own.
LEMMA OwnData ==
  ASSUME NEW buf, NEW first \in Nat, NEW length \in Nat \ {0},
         \A j \in first .. first + length : buf[j] \in Cells,
         buf[first].kind = "header", buf[first + length - 1].kind = "footer",
         buf[first + length] = Predator!FinalBlock,
         \A j \in first .. first + length - 1 :
           buf[j].dive = buf[first].dive /\ buf[j].part = j - first + 1
  PROVE  [dive |-> buf[first].dive, blocks |-> Predator!Data(buf, first, length)] \in Handed
<1> DEFINE b == Predator!Data(buf, first, length)
           h == [dive |-> buf[first].dive, blocks |-> b]
<1>1. b = [k \in 1 .. length + 1 |-> buf[first + k - 1]]
  BY DEF Predator!Data
<1>2. \A k \in 1 .. length + 1 : first + k - 1 \in first .. first + length
  OBVIOUS
<1>3. b \in Seq(Cells) /\ Len(b) = length + 1
  BY <1>1, <1>2
<1>4. buf[first].dive \in Int
  <2>1. buf[first] \in Cells
    OBVIOUS
  <2> QED BY <2>1 DEF Cells
<1>5. b[1] = buf[first] /\ b[length] = buf[first + length - 1] /\ b[length + 1] = buf[first + length]
  <2>1. /\ first + 1 - 1 = first /\ first + (length + 1) - 1 = first + length
        /\ 1 \in 1 .. length + 1 /\ length \in 1 .. length + 1 /\ length + 1 \in 1 .. length + 1
    OBVIOUS
  <2>2. b[1] = buf[first + 1 - 1] /\ b[length] = buf[first + length - 1] /\ b[length + 1] = buf[first + (length + 1) - 1]
    BY <1>1, <2>1
  <2> QED BY <2>1, <2>2
<1>6. ASSUME NEW j \in 1 .. length PROVE b[j].dive = buf[first].dive /\ b[j].part = j
  <2>1. PICK k \in first .. first + length - 1 : k = first + j - 1
    OBVIOUS
  <2>2. b[j] = buf[k] /\ k - first + 1 = j
    BY <1>1, <2>1
  <2> QED BY <2>2
<1> HIDE DEF b
<1>7. h \in [dive : Int, blocks : Seq(Cells)] /\ h.dive = buf[first].dive /\ h.blocks = b
  BY <1>3, <1>4
<1>8. Own(h)
  <2>1. Len(b) - 1 = length
    BY <1>3
  <2> HIDE DEF h
  <2> QED BY <1>3, <1>5, <1>6, <1>7, <2>1 DEF Own
<1> QED BY <1>7, <1>8 DEF Handed, b

LEMMA HandedOut ==
  ASSUME NEW buf, NEW first, NEW length, NEW continue,
         Predator!HandOut(buf, first, length, continue), handed \in Seq(Handed),
         [dive |-> buf[first].dive, blocks |-> Predator!Data(buf, first, length)] \in Handed
  PROVE  handed' \in Seq(Handed) /\ pc' \in {"return", continue}
BY DEF Predator!HandOut

LEMMA PredatorSimple ==
  ASSUME PredatorInv, Predator!PredatorAssumption,
         Predator!Foreach \/ Predator!Return \/ Predator!Done \/ UNCHANGED Predator!vars
  PROVE  PredatorInv'
<1>1. /\ UNCHANGED <<petrel, mem, offset, begin, eop, mark, marked, buffer, handed>>
      /\ \/ pc = "idle" /\ pc' = "dump" /\ status' = status
         \/ pc' = "done" /\ status' = "SUCCESS"
         \/ UNCHANGED <<pc, status>>
  BY DEF Predator!Foreach, Predator!Return, Predator!Finish, Predator!Done, Predator!vars, Predator!device,
         Predator!scan, Predator!report
<1>2. MemInv'
  BY <1>1 DEF PredatorInv, MemInv, InOrder, Chained, Follows
<1>3. PredatorTypes'
  BY <1>1 DEF PredatorInv, PredatorTypes
<1>4. CopyInv' /\ WalkInv'
  <2>1. CASE UNCHANGED <<pc, status>>
    BY <1>1, <2>1 DEF PredatorInv, CopyInv, WalkInv, Follows
  <2>2. CASE pc' \in {"dump", "done"}
    BY <2>2 DEF CopyInv, WalkInv
  <2> QED BY <1>1, <2>1, <2>2
<1> QED BY <1>2, <1>3, <1>4 DEF PredatorInv

LEMMA PredatorDump ==
  ASSUME PredatorInv, Predator!PredatorAssumption, Predator!Dump PROVE PredatorInv'
<1>1. /\ pc = "dump" /\ UNCHANGED <<petrel, mem, begin, eop, mark, marked, buffer, handed>>
      /\ \/ pc' = (IF petrel THEN "petrel" ELSE "search") /\ offset' = (IF petrel THEN 0 ELSE N) /\ status' = status
         \/ /\ pc' = "done" /\ offset' = offset
            /\ status' \in {"IO", "TIMEOUT", "PROTOCOL", "CANCELLED", "NOMEMORY"}
  BY DEF Predator!Dump, Predator!Finish, Predator!device
<1>2. MemInv'
  BY <1>1 DEF PredatorInv, MemInv, InOrder, Chained, Follows
<1>3. offset' \in 0 .. N
  BY <1>1 DEF PredatorInv, PredatorTypes, Predator!PredatorAssumption
<1>4. PredatorTypes'
  BY <1>1, <1>3 DEF PredatorInv, PredatorTypes
<1>5. CopyInv' /\ WalkInv'
  BY <1>1 DEF PredatorInv, PredatorTypes, CopyInv, WalkInv
<1> QED BY <1>2, <1>4, <1>5 DEF PredatorInv

LEMMA PredatorSearch ==
  ASSUME PredatorInv, Predator!PredatorAssumption, Predator!Search PROVE PredatorInv'
<1>1. /\ pc = "search" /\ UNCHANGED <<petrel, mem, buffer, handed>>
      /\ offset' = Predator!Before(offset)
      /\ begin' = Predator!Begin \/ begin' = begin
      /\ eop' = mark + 1 \/ eop' = eop
      /\ mark' = Predator!Before(offset) \/ mark' = mark
      /\ marked' \in {TRUE, FALSE, marked}
      /\ (pc' = pc /\ status' = status) \/ (pc' = "done" /\ status' = "DATAFORMAT")
  BY DEF Predator!Search, Predator!Finish, Predator!device
<1>2. MemInv'
  BY <1>1 DEF PredatorInv, MemInv, InOrder, Chained, Follows
<1>3. N \in Nat \ {0} /\ offset \in 0 .. N /\ begin \in 0 .. N /\ eop \in 0 .. N /\ mark \in 0 .. N - 1
  BY DEF PredatorInv, PredatorTypes, Predator!PredatorAssumption
<1>4. offset' \in 0 .. N /\ mark' \in 0 .. N - 1
  BY <1>1, <1>3 DEF Predator!Before
<1>5. begin' \in 0 .. N /\ eop' \in 0 .. N
  BY <1>1, <1>3 DEF Predator!Begin
<1>6. marked' \in BOOLEAN
  BY <1>1 DEF PredatorInv, PredatorTypes
<1>7. PredatorTypes'
  BY <1>1, <1>4, <1>5, <1>6 DEF PredatorInv, PredatorTypes
<1>8. CopyInv' /\ WalkInv'
  BY <1>1 DEF CopyInv, WalkInv
<1> QED BY <1>2, <1>7, <1>8 DEF PredatorInv

LEMMA RingPlace ==
  ASSUME NEW n \in Nat \ {0}, NEW x \in 0 .. 2 * n - 1
  PROVE  x % n = IF x < n THEN x ELSE x - n
<1>1. CASE x < n
  BY <1>1
<1>2. CASE x >= n
  <2>1. PICK y \in 0 .. n - 1 : y = x - n
    BY <1>2
  <2>2. (1 * n + y) % n = y
    OBVIOUS
  <2>3. 1 * n + y = x
    BY <2>1
  <2> QED BY <1>2, <2>1, <2>2, <2>3
<1> QED BY <1>1, <1>2

LEMMA PredatorLinearize ==
  ASSUME PredatorInv, Predator!PredatorAssumption, Predator!Linearize PROVE PredatorInv'
<1>1. /\ pc = "search" /\ UNCHANGED <<petrel, mem, begin, eop, handed>>
      /\ \/ /\ pc' = "extract" /\ buffer' = Predator!Linear /\ offset' = N /\ mark' = 0 /\ marked' = FALSE
            /\ status' = status
         \/ pc' = "done" /\ status' = "NOMEMORY" /\ UNCHANGED <<buffer, offset, mark, marked>>
  BY DEF Predator!Linearize, Predator!Finish, Predator!device
<1>2. MemInv'
  BY <1>1 DEF PredatorInv, MemInv, InOrder, Chained, Follows
<1>3. N \in Nat \ {0} /\ eop \in 0 .. N
  BY DEF PredatorInv, PredatorTypes, Predator!PredatorAssumption
<1>4. PredatorTypes'
  <2>1. N \in 0 .. N /\ 0 \in 0 .. N - 1 /\ FALSE \in BOOLEAN
    BY <1>3
  <2>2. offset' \in 0 .. N /\ mark' \in 0 .. N - 1 /\ marked' \in BOOLEAN
    BY <1>1, <2>1 DEF PredatorInv, PredatorTypes
  <2> QED BY <1>1, <2>2 DEF PredatorInv, PredatorTypes
<1>5. mem \in [0 .. N - 1 -> Cells] /\ \A i \in 0 .. N - 1 : Follows(mem[IF i = 0 THEN N - 1 ELSE i - 1], mem[i])
  BY <1>1 DEF PredatorInv, PredatorTypes, MemInv, Chained
<1> DEFINE Place(i) == IF eop + i < N THEN eop + i ELSE eop + i - N
<1>6. ASSUME NEW i \in 0 .. N - 1 PROVE (eop + i) % N = Place(i) /\ Place(i) \in 0 .. N - 1
  <2>1. PICK x \in 0 .. 2 * N - 1 : x = eop + i
    BY <1>3
  <2>2. x % N = IF x < N THEN x ELSE x - N
    BY <1>3, RingPlace
  <2>3. (eop + i) % N = x % N
    BY <2>1, Zenon
  <2>4. Place(i) = IF x < N THEN x ELSE x - N
    BY <1>3, <2>1
  <2>5. Place(i) \in 0 .. N - 1
    BY <1>3
  <2> HIDE DEF Place
  <2> QED BY <2>2, <2>3, <2>4, <2>5
<1>7. ASSUME NEW i \in 0 .. N - 1 PROVE Predator!Linear[i] = mem[Place(i)]
  <2>1. i \in 0 .. N /\ i < N
    BY <1>3
  <2> HIDE DEF Place
  <2> QED BY <1>6, <2>1 DEF Predator!Linear
<1>8. Predator!Linear \in [0 .. N -> Cells]
  <2>1. Predator!FinalBlock \in Cells
    BY DEF Predator!FinalBlock, Cells
  <2>2. \A i \in 0 .. N : i < N => (eop + i) % N \in 0 .. N - 1
    BY <1>3, <1>6
  <2> QED BY <1>5, <2>1, <2>2 DEF Predator!Linear
<1>9. ASSUME NEW i \in 1 .. N - 1 PROVE Follows(Predator!Linear[i - 1], Predator!Linear[i])
  <2>1. i \in 0 .. N - 1 /\ i - 1 \in 0 .. N - 1
    BY <1>3
  <2>2. Place(i - 1) = IF Place(i) = 0 THEN N - 1 ELSE Place(i) - 1
    BY <1>3
  <2>3. Place(i) \in 0 .. N - 1
    BY <1>6, <2>1
  <2> HIDE DEF Place
  <2>4. Follows(mem[Place(i - 1)], mem[Place(i)])
    BY <1>5, <2>2, <2>3
  <2> QED BY <1>7, <2>1, <2>4
<1>10. CopyInv'
  <2>1. CASE pc' = "done"
    BY <2>1 DEF CopyInv
  <2>2. CASE pc' = "extract"
    <3>1. buffer' = Predator!Linear /\ offset' = N /\ ~marked'
      BY <1>1, <2>2
    <3>2. \A i \in 1 .. N : i < N => Follows(buffer'[i - 1], buffer'[i])
      BY <1>3, <1>9, <3>1
    <3> QED BY <1>8, <3>1, <3>2 DEF CopyInv, Follows
  <2> QED BY <1>1, <2>1, <2>2
<1>11. WalkInv'
  BY <1>1 DEF WalkInv
<1> QED BY <1>2, <1>4, <1>10, <1>11 DEF PredatorInv

LEMMA PredatorExtract ==
  ASSUME PredatorInv, Predator!PredatorAssumption, Predator!Extract PROVE PredatorInv'
<1>1. pc = "extract" /\ offset # 0 /\ offset' = offset - 1 /\ UNCHANGED <<petrel, mem, begin, eop>>
  BY DEF Predator!Extract, Predator!device
<1>2. /\ N \in Nat \ {0} /\ offset \in 1 .. N /\ mark \in 0 .. N - 1 /\ marked \in BOOLEAN
      /\ handed \in Seq(Handed) /\ buffer \in [0 .. N -> Cells]
  BY <1>1 DEF PredatorInv, PredatorTypes, CopyInv, Predator!PredatorAssumption
<1>3. PICK o \in 0 .. N - 1 : o = offset - 1
  BY <1>2
<1>4. /\ \A i \in 1 .. offset : i < N => Follows(buffer[i - 1], buffer[i])
      /\ marked => /\ offset <= mark /\ buffer[mark].kind = "footer"
                   /\ buffer[offset].kind \in {"data", "footer"}
                   /\ \A j \in offset .. mark :
                        buffer[j].dive = buffer[mark].dive /\ buffer[j].part = buffer[mark].part - (mark - j)
  BY <1>1 DEF PredatorInv, CopyInv
<1>5. MemInv'
  BY <1>1 DEF PredatorInv, MemInv, InOrder, Chained, Follows
<1>6. WalkInv'
  BY <1>1 DEF WalkInv, Predator!Extract, Predator!HandOut
<1>7. offset' = o /\ o \in 0 .. N
  BY <1>1, <1>2, <1>3
\* Going on with the dive of the last footer.
<1>8. ASSUME marked, buffer[o].kind \in {"header", "data"}
      PROVE  /\ o < mark
             /\ \A j \in o .. mark :
                  buffer[j].dive = buffer[mark].dive /\ buffer[j].part = buffer[mark].part - (mark - j)
  <2>1. offset \in 1 .. N - 1 /\ offset <= mark
    BY <1>2, <1>4, <1>8
  <2>2. Follows(buffer[offset - 1], buffer[offset])
    BY <1>2, <1>4, <2>1
  <2>3. buffer[o].dive = buffer[offset].dive /\ buffer[o].part = buffer[offset].part - 1
    BY <1>3, <1>4, <1>8, <2>2 DEF Follows
  <2>4. /\ buffer[offset].dive = buffer[mark].dive
        /\ buffer[offset].part = buffer[mark].part - (mark - offset)
    BY <1>2, <1>4, <1>8, <2>1
  <2>5. buffer[mark].part \in Nat
    BY <1>2 DEF Cells
  <2>6. buffer[o].dive = buffer[mark].dive /\ buffer[o].part = buffer[mark].part - (mark - o)
    <3>1. PICK p \in Nat : p = buffer[mark].part
      BY <2>5
    <3>2. buffer[o].part = p - (mark - offset) - 1
      BY <2>3, <2>4, <3>1
    <3>3. p - (mark - offset) - 1 = p - (mark - o)
      BY <1>2, <1>3
    <3> QED BY <2>3, <2>4, <3>1, <3>2, <3>3
  <2>7. \A j \in o .. mark : j = o \/ j \in offset .. mark
    BY <1>2, <1>3
  <2>8. o < mark
    BY <1>2, <1>3, <2>1
  <2> QED BY <1>4, <1>8, <2>6, <2>7, <2>8
<1>9. \A i \in 1 .. o : i < N => Follows(buffer[i - 1], buffer[i])
  BY <1>2, <1>3, <1>4
<1>10. CASE buffer[o].kind = "empty"
  <2>1. pc' = "return" /\ UNCHANGED <<mark, marked, buffer, handed, stopped, status>>
    BY <1>3, <1>10 DEF Predator!Extract
  <2>2. PredatorTypes'
    BY <1>1, <1>7, <2>1 DEF PredatorInv, PredatorTypes
  <2>3. CopyInv'
    BY <2>1 DEF CopyInv
  <2> QED BY <1>5, <1>6, <2>2, <2>3 DEF PredatorInv
<1>11. CASE buffer[o].kind = "header" /\ marked
  <2> DEFINE length == Predator!Length(o, mark)
  <2>1. /\ buffer' = [buffer EXCEPT ![o + length] = Predator!FinalBlock]
        /\ Predator!HandOut(buffer', o, length, "extract")
        /\ marked' = FALSE /\ UNCHANGED <<mark, status>>
    BY <1>3, <1>11 DEF Predator!Extract
  <2>2. o < mark /\ length \in Nat \ {0} /\ o + length = mark + 1 /\ o + length - 1 = mark
    BY <1>2, <1>3, <1>8, <1>11 DEF Predator!Length
  <2> HIDE DEF length
  <2>3. /\ buffer' \in [0 .. N -> Cells] /\ buffer'[mark + 1] = Predator!FinalBlock
        /\ \A j \in 0 .. mark : buffer'[j] = buffer[j]
    <3>1. Predator!FinalBlock \in Cells
      BY DEF Predator!FinalBlock, Cells
    <3>2. mark + 1 \in 0 .. N /\ \A j \in 0 .. mark : j \in 0 .. N /\ j # mark + 1
      BY <1>2
    <3> QED BY <1>2, <2>1, <2>2, <3>1, <3>2
  <2>4. [dive |-> buffer'[o].dive, blocks |-> Predator!Data(buffer', o, length)] \in Handed
    <3>1. o \in Nat /\ o \in 0 .. mark /\ mark \in 0 .. mark
      BY <1>2, <2>2
    <3>2. \A j \in o .. o + length : buffer'[j] \in Cells
      <4>1. \A j \in o .. o + length : j \in 0 .. N
        BY <1>2, <2>2
      <4> QED BY <2>3, <4>1
    <3>3. buffer'[o].kind = "header" /\ buffer'[o + length - 1].kind = "footer" /\ buffer'[o + length] = Predator!FinalBlock
      BY <1>4, <1>11, <2>2, <2>3, <3>1
    <3>4. ASSUME NEW j \in o .. o + length - 1
          PROVE  buffer'[j].dive = buffer'[o].dive /\ buffer'[j].part = j - o + 1
      <4>1. j \in o .. mark /\ j \in 0 .. mark /\ o \in o .. mark
        BY <1>2, <2>2
      <4>2. /\ buffer[j].dive = buffer[mark].dive /\ buffer[j].part = buffer[mark].part - (mark - j)
            /\ buffer[o].dive = buffer[mark].dive /\ buffer[o].part = buffer[mark].part - (mark - o)
        BY <1>8, <1>11, <4>1
      <4>3. buffer[o].part = 1
        BY <1>2, <1>11 DEF Cells
      <4>4. PICK p \in Nat : p = buffer[mark].part
        BY <1>2 DEF Cells
      <4>5. p - (mark - o) = 1 => p - (mark - j) = j - o + 1
        BY <1>2, <4>1
      <4> QED BY <2>3, <3>1, <4>1, <4>2, <4>3, <4>4, <4>5
    <3> QED BY <2>2, <3>1, <3>2, <3>3, <3>4, OwnData
  <2>5. handed' \in Seq(Handed) /\ pc' \in {"return", "extract"}
    BY <1>2, <2>1, <2>4, HandedOut
  <2>6. PredatorTypes'
    BY <1>1, <1>7, <2>1, <2>5 DEF PredatorInv, PredatorTypes
  <2>7. \A i \in 1 .. o : i < N => Follows(buffer'[i - 1], buffer'[i])
    <3>1. \A i \in 1 .. o : i \in 0 .. mark /\ i - 1 \in 0 .. mark
      BY <1>2, <2>2
    <3> QED BY <1>9, <2>3, <3>1
  <2>8. CopyInv'
    BY <1>7, <2>1, <2>3, <2>7 DEF CopyInv, Follows
  <2> QED BY <1>5, <1>6, <2>6, <2>8 DEF PredatorInv
<1>12. CASE buffer[o].kind = "footer"
  <2>1. mark' = o /\ marked' = TRUE /\ UNCHANGED <<buffer, handed, stopped, pc, status>>
    BY <1>3, <1>12 DEF Predator!Extract
  <2>2. PredatorTypes'
    BY <1>1, <1>7, <2>1 DEF PredatorInv, PredatorTypes
  <2>3. \A j \in o .. o : buffer[j].dive = buffer[o].dive /\ buffer[j].part = buffer[o].part - (o - j)
    <3>1. PICK p \in Nat : p = buffer[o].part
      BY <1>2 DEF Cells
    <3>2. \A j \in o .. o : j = o
      BY <1>2
    <3>3. p - (o - o) = p
      BY <1>2
    <3> QED BY <3>1, <3>2, <3>3
  <2>4. CopyInv'
    BY <1>2, <1>7, <1>9, <1>12, <2>1, <2>3 DEF CopyInv, Follows
  <2> QED BY <1>5, <1>6, <2>2, <2>4 DEF PredatorInv
<1>13. CASE buffer[o].kind \in {"data", "final"} \/ (buffer[o].kind = "header" /\ ~marked)
  <2>1. UNCHANGED <<mark, marked, buffer, handed, stopped, pc, status>>
    BY <1>3, <1>13 DEF Predator!Extract
  <2>2. PredatorTypes'
    BY <1>1, <1>7, <2>1 DEF PredatorInv, PredatorTypes
  <2>3. CopyInv'
    <3>1. marked => buffer[o].kind = "data"
      <4>1. ASSUME marked PROVE Follows(buffer[o], buffer[offset]) /\ buffer[offset].kind \in {"data", "footer"}
        BY <1>2, <1>3, <1>4, <4>1
      <4> QED BY <1>13, <4>1 DEF Follows
    <3>2. marked => /\ o <= mark /\ buffer[mark].kind = "footer"
                    /\ \A j \in o .. mark :
                         buffer[j].dive = buffer[mark].dive /\ buffer[j].part = buffer[mark].part - (mark - j)
      BY <1>2, <1>4, <1>8, <3>1
    <3> QED BY <1>2, <1>7, <1>9, <2>1, <3>1, <3>2 DEF CopyInv, Follows
  <2> QED BY <1>5, <1>6, <2>2, <2>3 DEF PredatorInv
<1>14. buffer[o].kind \in {"empty", "final", "header", "data", "footer"}
  BY <1>2 DEF Cells
<1> QED BY <1>2, <1>10, <1>11, <1>12, <1>13, <1>14

LEMMA PredatorPetrel ==
  ASSUME PredatorInv, Predator!PredatorAssumption, Predator!ExtractPetrel PROVE PredatorInv'
<1>1. pc = "petrel" /\ offset # N /\ offset' = offset + 1 /\ UNCHANGED <<petrel, mem, begin, eop>>
  BY DEF Predator!ExtractPetrel, Predator!device
<1>2. /\ N \in Nat \ {0} /\ offset \in 0 .. N - 1 /\ mark \in 0 .. N - 1 /\ marked \in BOOLEAN
      /\ handed \in Seq(Handed) /\ petrel /\ mem \in [0 .. N - 1 -> Cells]
  BY <1>1 DEF PredatorInv, PredatorTypes, MemInv, WalkInv, Predator!PredatorAssumption
<1>3. \A i \in 0 .. N - 1 : mem[i].kind \in {"header", "data"} =>
        /\ i + 1 < N /\ mem[i + 1].kind \in {"data", "footer"}
        /\ mem[i + 1].dive = mem[i].dive /\ mem[i + 1].part = mem[i].part + 1
  BY <1>2 DEF PredatorInv, MemInv, InOrder
<1>4. marked => /\ mark < offset /\ mem[mark].kind = "header"
                /\ mem[offset - 1].kind \in {"header", "data"}
                /\ \A j \in mark .. offset - 1 :
                     mem[j].dive = mem[mark].dive /\ mem[j].part = j - mark + 1
  BY <1>1 DEF PredatorInv, WalkInv
<1>5. MemInv'
  BY <1>1 DEF PredatorInv, MemInv, InOrder, Chained, Follows
<1>6. CopyInv'
  BY <1>1 DEF CopyInv, Predator!ExtractPetrel, Predator!HandOut, Predator!Finish
<1>7. offset' \in 0 .. N
  BY <1>1, <1>2
\* Going on with the dive of the last header.
<1>8. ASSUME marked
      PROVE  /\ mem[offset].kind \in {"data", "footer"}
             /\ \A j \in mark .. offset : mem[j].dive = mem[mark].dive /\ mem[j].part = j - mark + 1
  <2>1. PICK k \in mark .. offset - 1 : k = offset - 1
    BY <1>2, <1>4, <1>8
  <2>2. k \in 0 .. N - 1 /\ k + 1 = offset
    BY <1>2, <2>1
  <2>3. /\ mem[offset].kind \in {"data", "footer"}
        /\ mem[offset].dive = mem[k].dive /\ mem[offset].part = mem[k].part + 1
    BY <1>3, <1>4, <1>8, <2>1, <2>2
  <2>4. mem[k].dive = mem[mark].dive /\ mem[k].part = k - mark + 1
    BY <1>4, <1>8
  <2>5. mem[offset].dive = mem[mark].dive /\ mem[offset].part = offset - mark + 1
    BY <1>2, <2>1, <2>3, <2>4
  <2>6. \A j \in mark .. offset : j = offset \/ j \in mark .. offset - 1
    BY <1>2
  <2> QED BY <1>4, <1>8, <2>3, <2>5, <2>6
<1>9. CASE mem[offset].kind = "empty"
  <2>1. pc' = "return" /\ UNCHANGED <<mark, marked, buffer, handed, stopped, status>>
    BY <1>9 DEF Predator!ExtractPetrel
  <2>2. PredatorTypes'
    BY <1>1, <1>7, <2>1 DEF PredatorInv, PredatorTypes
  <2>3. WalkInv'
    BY <2>1 DEF WalkInv
  <2> QED BY <1>5, <1>6, <2>2, <2>3 DEF PredatorInv
<1>10. CASE mem[offset].kind = "header"
  <2>1. mark' = offset /\ marked' = TRUE /\ UNCHANGED <<buffer, handed, stopped, pc, status>>
    BY <1>10 DEF Predator!ExtractPetrel
  <2>2. PredatorTypes'
    BY <1>1, <1>2, <1>7, <2>1 DEF PredatorInv, PredatorTypes
  <2>3. mem[offset].part = 1
    BY <1>2, <1>10 DEF Cells
  <2>4. \A j \in offset .. offset : mem[j].dive = mem[offset].dive /\ mem[j].part = j - offset + 1
    <3>1. \A j \in offset .. offset : j = offset /\ j - offset + 1 = 1
      BY <1>2
    <3> QED BY <2>3, <3>1
  <2>5. WalkInv'
    <3>1. offset' - 1 = offset /\ mark' < offset'
      BY <1>1, <1>2, <2>1
    <3> QED BY <1>1, <1>2, <1>10, <2>1, <2>4, <3>1 DEF WalkInv
  <2> QED BY <1>5, <1>6, <2>2, <2>5 DEF PredatorInv
<1>11. CASE mem[offset].kind = "footer" /\ marked
  <2>1. CASE Predator!FooterNumber(mem[offset]) # mem[mark].dive
    <3>1. pc' = "done" /\ status' = "DATAFORMAT" /\ UNCHANGED <<mark, marked, buffer, handed, stopped>>
      BY <1>11, <2>1 DEF Predator!ExtractPetrel, Predator!Finish
    <3>2. PredatorTypes'
      BY <1>1, <1>7, <3>1 DEF PredatorInv, PredatorTypes
    <3>3. WalkInv'
      BY <3>1 DEF WalkInv
    <3> QED BY <1>5, <1>6, <3>2, <3>3 DEF PredatorInv
  <2>2. CASE Predator!FooterNumber(mem[offset]) = mem[mark].dive
    <3> DEFINE length == Predator!Length(mark, offset)
    <3>1. /\ buffer' = Predator!Copied(mark, length)
          /\ Predator!HandOut(buffer', 0, length, "petrel")
          /\ marked' = FALSE /\ UNCHANGED <<mark, status>>
      BY <1>11, <2>2 DEF Predator!ExtractPetrel
    <3>2. length \in Nat \ {0} /\ length = offset + 1 - mark /\ mark < offset
      BY <1>2, <1>4, <1>11 DEF Predator!Length
    <3> HIDE DEF length
    <3>3. /\ buffer'[length] = Predator!FinalBlock
          /\ \A k \in 0 .. length - 1 : buffer'[k] = mem[mark + k]
      <4>1. buffer' = [k \in 0 .. length |-> IF k < length THEN mem[mark + k] ELSE Predator!FinalBlock]
        BY <3>1 DEF Predator!Copied
      <4>2. length \in 0 .. length /\ ~(length < length) /\ \A k \in 0 .. length - 1 : k \in 0 .. length /\ k < length
        BY <3>2
      <4> QED BY <4>1, <4>2
    <3>4. [dive |-> buffer'[0].dive, blocks |-> Predator!Data(buffer', 0, length)] \in Handed
      <4>1. /\ 0 \in Nat /\ 0 + length = length /\ 0 \in 0 .. length - 1 /\ length - 1 \in 0 .. length - 1
            /\ mark + 0 = mark /\ mark + (length - 1) = offset
        BY <1>2, <3>2
      <4>2. \A j \in 0 .. 0 + length : buffer'[j] \in Cells
        <5>1. Predator!FinalBlock \in Cells
          BY DEF Predator!FinalBlock, Cells
        <5>2. \A j \in 0 .. length - 1 : mark + j \in 0 .. N - 1
          BY <1>2, <3>2
        <5>3. \A j \in 0 .. length - 1 : buffer'[j] \in Cells
          BY <1>2, <3>3, <5>2
        <5>4. \A j \in 0 .. 0 + length : j = length \/ j \in 0 .. length - 1
          BY <3>2
        <5> QED BY <3>3, <5>1, <5>3, <5>4
      <4>3. buffer'[0] = mem[mark] /\ buffer'[length - 1] = mem[offset]
        BY <3>3, <4>1
      <4>4. ASSUME NEW j \in 0 .. 0 + length - 1
            PROVE  buffer'[j].dive = buffer'[0].dive /\ buffer'[j].part = j - 0 + 1
        <5>1. PICK k \in mark .. offset : k = mark + j
          BY <1>2, <3>2
        <5>2. mem[k].dive = mem[mark].dive /\ mem[k].part = k - mark + 1
          BY <1>8, <1>11
        <5>3. j \in 0 .. length - 1 /\ k - mark + 1 = j - 0 + 1
          BY <1>2, <3>2, <5>1
        <5>4. buffer'[j] = mem[k]
          BY <3>3, <5>1, <5>3
        <5> QED BY <4>3, <5>2, <5>3, <5>4
      <4>5. buffer'[0].kind = "header" /\ buffer'[0 + length - 1].kind = "footer" /\ buffer'[0 + length] = Predator!FinalBlock
        BY <1>4, <1>11, <3>3, <4>1, <4>3
      <4> QED BY <3>2, <4>1, <4>2, <4>4, <4>5, OwnData
    <3>5. handed' \in Seq(Handed) /\ pc' \in {"return", "petrel"}
      BY <1>2, <3>1, <3>4, HandedOut
    <3>6. PredatorTypes'
      BY <1>1, <1>7, <3>1, <3>5 DEF PredatorInv, PredatorTypes
    <3>7. WalkInv'
      BY <1>1, <1>2, <3>1 DEF WalkInv
    <3> QED BY <1>5, <1>6, <3>6, <3>7 DEF PredatorInv
  <2> QED BY <2>1, <2>2
<1>12. CASE mem[offset].kind \in {"data", "final"} \/ (mem[offset].kind = "footer" /\ ~marked)
  <2>1. UNCHANGED <<mark, marked, buffer, handed, stopped, pc, status>>
    BY <1>12 DEF Predator!ExtractPetrel
  <2>2. PredatorTypes'
    BY <1>1, <1>7, <2>1 DEF PredatorInv, PredatorTypes
  <2>3. WalkInv'
    <3>1. offset' - 1 = offset /\ (marked => mark' < offset')
      BY <1>1, <1>2, <1>4, <2>1
    <3>2. marked => mem[offset].kind = "data"
      BY <1>8, <1>12
    <3> QED BY <1>1, <1>2, <1>4, <1>8, <2>1, <3>1, <3>2 DEF WalkInv
  <2> QED BY <1>5, <1>6, <2>2, <2>3 DEF PredatorInv
<1>13. mem[offset].kind \in {"empty", "final", "header", "data", "footer"}
  BY <1>2 DEF Cells
<1> QED BY <1>2, <1>9, <1>10, <1>11, <1>12, <1>13

\* The walks of shearwater_predator_extract_predator, once the ring is copied,
\* and of shearwater_predator_extract_petrel stay within one dive between its
\* two marked ends, wherever the copy begins and whatever the search has found.
THEOREM PredatorInvariance ==
  ASSUME Predator!PredatorAssumption PROVE Predator!Spec => []PredatorInv
<1>1. Predator!Init => PredatorInv
  BY PredatorStart
<1>2. PredatorInv /\ [Predator!Next]_(Predator!vars) => PredatorInv'
  BY PredatorSimple, PredatorDump, PredatorSearch, PredatorLinearize, PredatorExtract, PredatorPetrel
     DEF Predator!Next
<1> QED BY <1>1, <1>2, PTL DEF Predator!Spec

\* No address of the search or of the walks leaves the memory, and a footer
\* that is remembered is not behind the walk.
THEOREM PredatorTypeCorrect ==
  ASSUME Predator!PredatorAssumption PROVE Predator!Spec => []Predator!TypeOK
<1>1. PredatorInv => Predator!TypeOK
  BY DEF PredatorInv, PredatorTypes, CopyInv, Predator!TypeOK
<1> QED BY <1>1, PredatorInvariance, PTL

\* Every dive of a Predator or of a Petrel in the old protocol is handed out
\* with its own blocks, from its header to its footer, and the final block: the
\* final blocks that are written over the newer dives in the shared copy of
\* the ring destroy none that is still to come, for every length of the ring
\* and of the dives, every wrap point and a dive that is cut off.
THEOREM PredatorOwnBlocks ==
  ASSUME Predator!PredatorAssumption PROVE Predator!Spec => []Predator!OwnBlocks
<1>1. PredatorInv => Predator!OwnBlocks
  <2> SUFFICES ASSUME PredatorInv, NEW k \in DOMAIN handed PROVE Own(handed[k])
    BY DEF Predator!OwnBlocks, Own
  <2>1. handed[k] \in Handed
    BY DEF PredatorInv, PredatorTypes
  <2> QED BY <2>1 DEF Handed
<1> QED BY <1>1, PredatorInvariance, PTL
=============================================================================
