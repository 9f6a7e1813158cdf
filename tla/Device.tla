------------------------------- MODULE Device -------------------------------
(***************************************************************************)
(* The device layer (device.c) between an application and a driver, with   *)
(* the parsers the application makes of the dives (parser.c).              *)
(*                                                                         *)
(* The application makes one call at a time.  Its cancel callback reads a  *)
(* flag, which a signal handler may set at any moment.  The driver is any  *)
(* of the library's: it emits events, asks device_is_cancelled before each *)
(* transfer, reads every dive into the same memory, and on close sends a   *)
(* command that ends the link (hw_frog, cressi_edy, oceanic_atom2, ...).   *)
(* It dumps its memory by device_dump_read, or appends what the user makes *)
(* the device send (mares_nemo).  The device is external: a transfer may   *)
(* fail, for any reason.  Values of events and dives are numbers, 0 for none.              *)
(***************************************************************************)
EXTENDS Integers, Sequences, FiniteSets

CONSTANTS
  Size,        \* size of the memory of the device
  BlockSize,   \* what device_dump_read reads at once
  MaxDives,    \* bound: dives in the device
  MaxValue,    \* bound: values of events
  MaxParsers   \* bound: parsers the application has at a time

ASSUME DeviceAssumption ==
  /\ Size \in Nat \ {0} /\ BlockSize \in Nat \ {0}
  /\ MaxDives \in Nat /\ MaxValue \in Nat \ {0} /\ MaxParsers \in Nat

VARIABLES
  handle,               \* what the application holds: "none", "open", "closed"
  supports, appends,    \* the driver: its functions, and how it dumps
  linked,               \* the device is in its transfer mode
  mask,                 \* the events the callback is called for; none without a callback
  asks, wanted,         \* there is a cancel callback; the flag it reads
  cached, told,         \* the events the device layer keeps; the last the driver emitted
  seen,                 \* the last ones the application's callback got
  call, status,         \* the call in progress, and what the last one returned
  profile,              \* the driver's memory: the dive in it
  parsers,              \* the parsers of the application
  buffer,               \* its dc_buffer_t
  waiting, nbytes, current, maximum   \* the dump

options == <<mask, asks>>
events  == <<cached, told, seen>>
driver  == <<supports, appends>>
dump    == <<buffer, waiting, nbytes, current, maximum>>
vars    == <<handle, driver, linked, options, wanted, events, call, status, profile, parsers, dump>>

Calls == {"read", "write", "timesync", "dump", "foreach"}
Cached == {"DEVINFO", "CLOCK"}
Nothing == [e \in Cached |-> 0]

Init ==
  /\ handle = "none" /\ linked = FALSE
  /\ supports \in {Calls \cup {"close"}, {"foreach", "dump"}, {"foreach", "close"}}
  /\ appends \in BOOLEAN
  /\ mask = {} /\ asks = FALSE /\ wanted = FALSE
  /\ cached = Nothing /\ told = Nothing /\ seen = Nothing
  /\ call = "none" /\ status = "none" /\ profile = 0 /\ parsers = {}
  /\ buffer = <<>> /\ waiting = FALSE /\ nbytes = 0 /\ current = 0 /\ maximum = 0

-----------------------------------------------------------------------------
\* A handle only comes with success; a driver that fails has freed its device.
Open ==
  /\ handle = "none"
  /\ \/ /\ handle' = "open" /\ linked' = TRUE /\ status' = "SUCCESS"
        /\ mask' = {} /\ asks' = FALSE
        /\ cached' = Nothing /\ told' = Nothing /\ seen' = Nothing
     \/ /\ status' = "FAILED" /\ linked' \in BOOLEAN
        /\ UNCHANGED <<handle, options, events>>
  /\ UNCHANGED <<driver, wanted, call, profile, parsers, dump>>

\* The application's own code runs: between two calls, or in the dive callback.
Application == handle = "open" /\ call \in {"none", "callback"}

SetEvents ==
  /\ Application
  /\ mask' \in SUBSET Cached
  /\ UNCHANGED <<handle, driver, linked, asks, wanted, events, call, status, profile, parsers, dump>>

SetCancel ==
  /\ Application
  /\ asks' \in BOOLEAN
  /\ UNCHANGED <<handle, driver, linked, mask, wanted, events, call, status, profile, parsers, dump>>

\* The signal handler; and the application, before it makes another call.
RaiseFlag ==
  /\ ~wanted /\ wanted' = TRUE
  /\ UNCHANGED <<handle, driver, linked, options, events, call, status, profile, parsers, dump>>

LowerFlag ==
  /\ wanted /\ call = "none" /\ wanted' = FALSE
  /\ UNCHANGED <<handle, driver, linked, options, events, call, status, profile, parsers, dump>>

device_is_cancelled == asks /\ wanted

Return(s) == call' = "none" /\ status' = s

\* The variables of the dump are gone with the call.
ReturnDump(s) ==
  Return(s) /\ waiting' = FALSE /\ nbytes' = 0 /\ current' = 0 /\ maximum' = 0

\* Mutant: only what the application has asked for is kept.
Emit_Masked(e, v) ==
  /\ told' = [told EXCEPT ![e] = v]
  /\ seen' = IF e \in mask THEN [seen EXCEPT ![e] = v] ELSE seen
  /\ cached' = IF e \in mask THEN [cached EXCEPT ![e] = v] ELSE cached

\* device_event_emit: the event is kept for the parsers, and passed on if it
\* is asked for.
Emit(e, v) ==
  /\ told' = [told EXCEPT ![e] = v]
  /\ cached' = [cached EXCEPT ![e] = v]
  /\ seen' = IF e \in mask THEN [seen EXCEPT ![e] = v] ELSE seen

-----------------------------------------------------------------------------
\* dc_device_read, dc_device_write, dc_device_timesync and dc_device_foreach.
Enter(c) ==
  /\ handle = "open" /\ call = "none" /\ c \in Calls \ {"dump"}
  /\ IF c \in supports THEN call' = c /\ UNCHANGED status ELSE Return("UNSUPPORTED")
  /\ UNCHANGED <<handle, driver, linked, options, wanted, events, profile, parsers, dump>>

\* A call of one transfer.
Transfer ==
  /\ call \in {"read", "write", "timesync"}
  /\ IF device_is_cancelled THEN Return("CANCELLED") ELSE \E s \in {"SUCCESS", "FAILED"} : Return(s)
  /\ UNCHANGED <<handle, driver, linked, options, wanted, events, profile, parsers, dump>>

-----------------------------------------------------------------------------
EmitEvent ==
  /\ call = "foreach"
  /\ \E e \in Cached, v \in 1 .. MaxValue : v # told[e] /\ Emit(e, v)
  /\ UNCHANGED <<handle, driver, linked, options, wanted, call, status, profile, parsers, dump>>

\* The next dive is read over the previous one, and handed to the application.
ReadDive ==
  /\ call = "foreach"
  /\ IF device_is_cancelled
       THEN Return("CANCELLED") /\ UNCHANGED profile
       ELSE \/ Return("FAILED") /\ UNCHANGED profile
            \/ profile < MaxDives /\ profile' = profile + 1 /\ call' = "callback" /\ UNCHANGED status
            \/ profile' = 0 /\ Return("SUCCESS")
  /\ UNCHANGED <<handle, driver, linked, options, wanted, events, parsers, dump>>

\* Mutant: the parser keeps the pointer it was given.
Allocate_Pointer(d) == [pointer |-> TRUE, copy |-> d]

\* dc_parser_allocate copies the data.
Allocate(d) == [pointer |-> FALSE, copy |-> d]

\* dc_parser_new: with the model and the clock of the device.  The fields dive
\* and told record what they should be.
NewParser ==
  /\ call = "callback" /\ Cardinality(parsers) < MaxParsers
  /\ parsers' = parsers \cup
       {[data |-> Allocate(profile), event |-> cached, dive |-> profile, told |-> told]}
  /\ UNCHANGED <<handle, driver, linked, options, wanted, events, call, status, profile, dump>>

DestroyParser ==
  /\ call \in {"none", "callback"}
  /\ \E p \in parsers : parsers' = parsers \ {p}
  /\ UNCHANGED <<handle, driver, linked, options, wanted, events, call, status, profile, dump>>

CallbackReturns ==
  /\ call = "callback"
  /\ \/ call' = "foreach" /\ UNCHANGED <<status, profile>>
     \/ Return("SUCCESS") /\ profile' = 0
  /\ UNCHANGED <<handle, driver, linked, options, wanted, events, parsers, dump>>

-----------------------------------------------------------------------------
\* Mutant: the buffer is not cleared.
Cleared_Not(b) == b

\* dc_buffer_clear
Cleared(b) == <<>>

\* dc_device_dump; the driver makes room for its memory, or appends to the buffer.
Dump ==
  /\ handle = "open" /\ call = "none"
  /\ IF "dump" \in supports
       THEN /\ call' = "dump" /\ nbytes' = 0 /\ current' = 0 /\ waiting' = appends
            /\ buffer' = IF appends THEN Cleared(buffer) ELSE [k \in 1 .. Size |-> 0]
            /\ maximum' = IF appends THEN Size + 1 ELSE Size
            /\ UNCHANGED status
       ELSE Return("UNSUPPORTED") /\ UNCHANGED dump
  /\ UNCHANGED <<handle, driver, linked, options, wanted, events, profile, parsers>>

\* Mutant: the loop does not ask whether it is cancelled.
PollTimesOut_Deaf ==
  call = "dump" /\ waiting /\ UNCHANGED vars

\* No data has come yet: mares_nemo emits a waiting event and polls again.
PollTimesOut ==
  /\ call = "dump" /\ waiting
  /\ IF device_is_cancelled
       THEN ReturnDump("CANCELLED") /\ UNCHANGED buffer
       ELSE UNCHANGED <<call, status, dump>>
  /\ UNCHANGED <<handle, driver, linked, options, wanted, events, profile, parsers>>

\* The user has made the device send.
DataArrives ==
  /\ call = "dump" /\ waiting
  /\ waiting' = FALSE /\ current' = current + 1
  /\ UNCHANGED <<handle, driver, linked, options, wanted, events, call, status, profile, parsers, buffer, nbytes, maximum>>

BlockLength == IF Size - nbytes > BlockSize THEN BlockSize ELSE Size - nbytes

Block == nbytes + 1 .. nbytes + BlockLength

\* One round of the loop of device_dump_read.
ReadBlock ==
  /\ call = "dump" /\ ~appends /\ nbytes < Size
  /\ IF device_is_cancelled THEN ReturnDump("CANCELLED") /\ UNCHANGED buffer
     ELSE \/ ReturnDump("FAILED") /\ UNCHANGED buffer
          \/ /\ buffer' = [k \in DOMAIN buffer |-> IF k \in Block THEN k ELSE buffer[k]]
             /\ nbytes' = nbytes + BlockLength /\ current' = current + BlockLength
             /\ UNCHANGED <<call, status, waiting, maximum>>
  /\ UNCHANGED <<handle, driver, linked, options, wanted, events, profile, parsers>>

\* One packet of mares_nemo: two copies, of which one must be right.
ReceivePacket ==
  /\ call = "dump" /\ appends /\ ~waiting /\ nbytes < Size
  /\ \/ ReturnDump("FAILED") /\ UNCHANGED buffer
     \/ /\ buffer' = Append(buffer, nbytes + 1)
        /\ nbytes' = nbytes + 1 /\ current' = current + 1
        /\ UNCHANGED <<call, status, waiting, maximum>>
  /\ UNCHANGED <<handle, driver, linked, options, wanted, events, profile, parsers>>

DumpReturns ==
  /\ call = "dump" /\ ~waiting /\ nbytes >= Size
  /\ ReturnDump("SUCCESS")
  /\ IF appends THEN \E v \in 1 .. MaxValue : Emit("DEVINFO", v) ELSE UNCHANGED events
  /\ UNCHANGED <<handle, driver, linked, options, wanted, profile, parsers, buffer>>

-----------------------------------------------------------------------------
\* Mutant: the cancel callback stays.
DisableCancel_Not == UNCHANGED asks

DisableCancel == asks' = FALSE

\* dc_device_close up to the driver's function ...
Close ==
  /\ handle = "open" /\ call = "none"
  /\ call' = "close" /\ DisableCancel
  /\ UNCHANGED <<handle, driver, linked, mask, wanted, events, status, profile, parsers, dump>>

\* ... which sends its last command, and the device is freed in any case.
CloseReturns ==
  /\ call = "close"
  /\ handle' = "closed" /\ profile' = 0
  /\ IF "close" \notin supports THEN Return("SUCCESS") /\ UNCHANGED linked
     ELSE IF device_is_cancelled THEN Return("CANCELLED") /\ UNCHANGED linked
     ELSE \/ Return("SUCCESS") /\ linked' = FALSE
          \/ Return("FAILED") /\ UNCHANGED linked
  /\ UNCHANGED <<driver, options, wanted, events, parsers, dump>>

Driver ==
  \/ Transfer
  \/ ReadDive
  \/ PollTimesOut
  \/ ReadBlock
  \/ ReceivePacket
  \/ DumpReturns
  \/ CloseReturns

Next ==
  \/ Open
  \/ SetEvents
  \/ SetCancel
  \/ RaiseFlag
  \/ LowerFlag
  \/ \E c \in Calls : Enter(c)
  \/ EmitEvent
  \/ NewParser
  \/ DestroyParser
  \/ CallbackReturns
  \/ Dump
  \/ DataArrives
  \/ Close
  \/ Driver

\* A driver goes on with the call it is in; what the application, the user and
\* the signal handler do is their choice.
Spec == Init /\ [][Next]_vars /\ WF_vars(Driver)

-----------------------------------------------------------------------------
TypeOK ==
  /\ handle \in {"none", "open", "closed"}
  /\ call \in {"none", "callback", "close"} \cup Calls
  /\ call # "none" => handle = "open"
  /\ status \in {"none", "SUCCESS", "UNSUPPORTED", "CANCELLED", "FAILED"}
  /\ seen \in [Cached -> 0 .. MaxValue] /\ cached \in [Cached -> 0 .. MaxValue]

DataOf(p) == IF p.data.pointer THEN profile ELSE p.data.copy

\* A parser has the bytes of its dive while the driver reads further dives into
\* the same memory, and after the device is closed.
ParserKeepsDive == \A p \in parsers : DataOf(p) = p.dive

\* A parser has the model and the clock the driver had announced when it was
\* made, whatever events the application has asked for.
ParserKnowsDevice == \A p \in parsers : p.event = p.told

Memory == [k \in 1 .. Size |-> k]

\* device_event_emit asserts that the progress is within its maximum; a dump
\* fills no more than the memory, and one that succeeds leaves exactly the
\* memory in the buffer, also after a dump that failed or was cancelled.
DumpIsMemory ==
  /\ call = "dump" => current <= maximum
  /\ call = "dump" /\ ~waiting /\ nbytes >= Size => buffer = Memory /\ current = maximum

\* When a driver with a close function is closed without an error, the device
\* has been told to leave its transfer mode: that the application has
\* cancelled, or cancels while the device is closed, does not get in the way.
LinkReleased ==
  handle = "closed" /\ "close" \in supports =>
    status # "CANCELLED" /\ (call = "none" /\ status = "SUCCESS" => ~linked)

\* A dump the application wants to cancel ends, though no data may ever come.
CancelEndsDump == (call = "dump" /\ asks /\ wanted) ~> (call = "none")
=============================================================================
