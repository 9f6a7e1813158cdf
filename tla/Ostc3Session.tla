---------------------------- MODULE Ostc3Session ----------------------------
(***************************************************************************)
(* A session with a Heinrichs Weikamp OSTC 3 family computer (hw_ostc3.c): *)
(* the modes OPEN, DOWNLOAD, SERVICE and REBOOTING, the byte protocol of   *)
(* hw_ostc3_transfer, and the operations built on it, the update of the    *)
(* firmware above all.                                                     *)
(*                                                                         *)
(* An operation is a script: the transfers it makes, in order, with what   *)
(* the code does when one of them fails.  A transfer is command, echo,     *)
(* input, output, ready byte; nothing in the driver purges the input after *)
(* a failure, so an answer that comes too late is read by the next         *)
(* transfer, and a device still waiting for its input takes the next       *)
(* command for it.                                                         *)
(*                                                                         *)
(* The device is external: it echoes a command it knows, collects the      *)
(* input, acts, answers, and sends the ready byte of its mode; to a        *)
(* command it does not know it sends the ready byte alone.  Bytes are      *)
(* tokens, [kind, cmd, arg].  A fault is an answer that comes after the    *)
(* driver has given up on it, or a token lost on the way.                  *)
(***************************************************************************)
EXTENDS Integers, Sequences

CONSTANTS
  Blocks,      \* number of blocks of a firmware (of blobs, on hwOS 4)
  MaxFaults,   \* bound: answers that are late or lost
  MaxCalls     \* bound: operations in a session

ASSUME SessionAssumption == Blocks \in Nat \ {0} /\ MaxFaults \in Nat /\ MaxCalls \in Nat

VARIABLES
  state, hardware,          \* the driver: device->state and device->hardware
  todo, phase, answer,      \* the rest of the script, the transfer in progress, its output
  op, inBody, seen,         \* the operation, past hw_ostc3_device_init, its descriptor
  status, calls, cancelled,
  mode, waits, buf, flash,  \* the device: the command it takes input for, the input
  commands, hwos4,          \*   the commands it knows, its kind
  wire, faults              \* tokens on their way to the driver

driver == <<state, hardware, todo, phase, answer, op, inBody, seen, status, calls, cancelled>>
device == <<mode, waits, buf, flash, commands, hwos4>>
link   == <<wire, faults>>
vars   == <<driver, device, link>>

None == "none"

NoAnswer == [kind |-> None, cmd |-> None, arg |-> 0]

Optional == {"HARDWARE2", "HARDWARE", "COMPACT"}

Download == {"HEADER", "DIVE", "CLOCK", "DISPLAY", "CUSTOMTEXT", "READ", "WRITE", "RESET",
             "IDENTITY", "EXIT"}

Service == {"S_ERASE", "S_BLOCK_READ", "S_BLOCK_WRITE", "S_UPGRADE", "S_FWINFO", "S_UPLOAD"}

\* The input of a command, in tokens: one or two stand for one or many bytes.
InputLen(c) ==
  CASE c \in {"DISPLAY", "CUSTOMTEXT", "WRITE", "S_BLOCK_WRITE"} -> 2
    [] c \in {"DIVE", "CLOCK", "READ", "S_ERASE", "S_BLOCK_READ", "S_UPGRADE", "S_FWINFO",
              "S_UPLOAD"} -> 1
    [] OTHER -> 0

HasOutput(c) ==
  c \in {"HARDWARE2", "HARDWARE", "IDENTITY", "COMPACT", "HEADER", "DIVE", "READ",
         "S_BLOCK_READ", "S_FWINFO"}

Token(k, c, a) == [kind |-> k, cmd |-> c, arg |-> a]

ReadyToken(m) == Token("ready", m, 0)

Old  == "old"       \* what a block or blob may hold
Erased == "erased"
New  == "new"       \* what the firmware file has there
Garbage == "garbage"
Absent == "absent"  \* hwOS 4: the blob is not present on the device

Init ==
  /\ state = "OPEN" /\ hardware = "INVALID"
  /\ todo = <<>> /\ phase = "idle" /\ answer = NoAnswer
  /\ op = None /\ inBody = FALSE /\ seen = 0
  /\ status = "SUCCESS" /\ calls = 0 /\ cancelled = FALSE
  /\ mode = "idle" /\ waits = None /\ buf = <<>>
  /\ hwos4 \in BOOLEAN
  /\ flash \in IF hwos4 THEN [1 .. Blocks -> {Old, New, Absent}] ELSE {[b \in 1 .. Blocks |-> Old]}
  /\ \E opt \in {{}, {"HARDWARE"}, {"HARDWARE2", "HARDWARE", "COMPACT"}} :
       /\ hwos4 => opt # {}
       /\ commands = Download \cup opt
  /\ wire = <<>> /\ faults = 0

-----------------------------------------------------------------------------
(***************************************************************************)
(* The device takes a token.                                               *)
(***************************************************************************)

Known(c) == c \in commands \/ (mode = "service" /\ c \in Service)

Reply(tokens) == wire' = wire \o tokens

\* An answer, the output of the command included.
Output(c, a) ==
  IF c \in {"HARDWARE2", "HARDWARE"} THEN <<Token("data", c, IF hwos4 THEN 4 ELSE 3)>>
  ELSE IF c \in {"S_BLOCK_READ", "S_FWINFO"} THEN <<Token("data", flash[a], a)>>
  ELSE IF HasOutput(c) THEN <<Token("data", c, 0)>>
  ELSE <<>>

\* What a command with the right input does.  Writing a block may go wrong.
Effect(c, a) ==
  /\ \E written \in IF c = "S_BLOCK_WRITE" /\ flash[a] = Erased THEN {New, Garbage} ELSE {Garbage} :
       flash' =
         CASE c = "S_ERASE" -> [b \in 1 .. Blocks |-> Erased]
           [] c = "S_BLOCK_WRITE" -> [flash EXCEPT ![a] = written]
           [] c = "S_UPLOAD" -> [flash EXCEPT ![a] = New]
           [] OTHER -> flash
  /\ mode' = CASE c = "S_UPGRADE" -> "rebooting" [] c = "EXIT" -> "idle" [] OTHER -> mode

\* What a command does whose input is made of something else: damage to a
\* block, garbage for an answer, or nothing.
Misled(c) ==
  /\ IF c \in {"S_ERASE", "S_BLOCK_WRITE"}
       THEN \E b \in 1 .. Blocks : flash' = [flash EXCEPT ![b] = Garbage]
       ELSE UNCHANGED flash
  /\ UNCHANGED mode

Right(c, tokens) == \A i \in DOMAIN tokens : tokens[i].kind = "input" /\ tokens[i].cmd = c

TakeInput(t) ==
  /\ waits # None
  /\ IF Len(buf) + 1 < InputLen(waits)
       THEN buf' = Append(buf, t) /\ UNCHANGED <<waits, flash, mode, wire>>
       ELSE /\ waits' = None /\ buf' = <<>>
            /\ IF Right(waits, Append(buf, t))
                 THEN Effect(waits, t.arg) /\ Reply(Append(Output(waits, t.arg), ReadyToken(mode)))
                 ELSE Misled(waits) /\ Reply((IF HasOutput(waits)
                        THEN <<Token("data", Garbage, 0)>> ELSE <<>>) \o <<ReadyToken(mode)>>)

TakeCommand(t) ==
  /\ waits = None
  /\ CASE mode = "idle" /\ t.kind = "cmd" /\ t.cmd = "INIT" ->
            mode' = "download" /\ Reply(<<Token("echo", "INIT", 0), ReadyToken("download")>>)
              /\ UNCHANGED <<waits, flash>>
       [] mode = "idle" /\ t.kind = "cmd" /\ t.cmd = "S_INIT" ->
            mode' = "service" /\ Reply(<<Token("echo", "S_INIT", 0), ReadyToken("service")>>)
              /\ UNCHANGED <<waits, flash>>
       [] mode \in {"idle", "rebooting"} /\ ~(t.kind = "cmd" /\ t.cmd \in {"INIT", "S_INIT"} /\ mode = "idle") ->
            UNCHANGED <<mode, wire, waits, flash>>
       [] mode \in {"download", "service"} /\ ~(t.kind = "cmd" /\ Known(t.cmd)) ->
            Reply(<<ReadyToken(mode)>>) /\ UNCHANGED <<mode, waits, flash>>
       [] OTHER ->
            IF InputLen(t.cmd) > 0
              THEN Reply(<<Token("echo", t.cmd, 0)>>) /\ waits' = t.cmd /\ UNCHANGED <<flash, mode>>
              ELSE /\ Effect(t.cmd, 0) /\ UNCHANGED waits
                   /\ Reply(<<Token("echo", t.cmd, 0)>> \o Output(t.cmd, 0)
                              \o (IF t.cmd = "EXIT" THEN <<>> ELSE <<ReadyToken(mode)>>))
  /\ UNCHANGED buf

Send(t) ==
  /\ TakeInput(t) \/ TakeCommand(t)
  /\ UNCHANGED <<commands, hwos4>>

Lose ==
  /\ wire # <<>> /\ faults < MaxFaults
  /\ faults' = faults + 1 /\ wire' = Tail(wire)
  /\ UNCHANGED <<driver, device>>

-----------------------------------------------------------------------------
(***************************************************************************)
(* The scripts.  An item is a transfer and what its failure means: a       *)
(* display text is optional, HARDWARE2 and COMPACT have the next item as   *)
(* an alternative if they are not supported.                               *)
(***************************************************************************)
Item(c, a, fallback, ignored) ==
  [cmd |-> c, arg |-> a, fallback |-> fallback, ignored |-> ignored]

Must(c, a) == Item(c, a, FALSE, FALSE)
Else(c)    == Item(c, 0, TRUE, FALSE)
Try(c)     == Item(c, 0, FALSE, TRUE)

ModeAllowed(target) ==
  state \in {target, "OPEN"} \/ (state = "SERVICE" /\ target = "DOWNLOAD")

\* hw_ostc3_device_init: the change of mode, and the descriptor if it is not
\* known yet.
InitScript(target) ==
  (IF state # "OPEN" THEN <<>>
   ELSE <<Must(IF target = "DOWNLOAD" THEN "INIT" ELSE "S_INIT", 0)>>)
  \o (IF hardware # "INVALID" THEN <<>>
      ELSE <<Else("HARDWARE2"), Else("HARDWARE"), Must("IDENTITY", 0)>>)

\* One transfer for each block, and the same with a display text before each.
EachBlock(c) == [b \in 1 .. Blocks |-> Must(c, b)]
Displayed(c) ==
  [i \in 1 .. 2 * Blocks |-> IF i % 2 = 1 THEN Try("DISPLAY") ELSE Must(c, i \div 2)]

Operations ==
  {"foreach", "timesync", "display", "customtext", "config_read", "config_write",
   "config_reset", "read", "write", "fwupdate"}

Target(o) == IF o \in {"read", "write", "fwupdate"} THEN "SERVICE" ELSE "DOWNLOAD"

fwupdate3 ==
  <<Try("DISPLAY"), Must("S_ERASE", 0), Try("DISPLAY")>>
  \o Displayed("S_BLOCK_WRITE") \o <<Try("DISPLAY")>>
  \o Displayed("S_BLOCK_READ") \o <<Try("DISPLAY"), Must("S_UPGRADE", 0)>>

\* The upload that follows an S_FWINFO is dropped if it is not needed.
fwupdate4 ==
  [i \in 1 .. 2 * Blocks |->
     Must(IF i % 2 = 1 THEN "S_FWINFO" ELSE "S_UPLOAD", (i + 1) \div 2)]

Body(o) ==
  CASE o = "foreach"      -> <<Else("COMPACT"), Must("HEADER", 0), Must("DIVE", 0)>>
    [] o = "timesync"     -> <<Must("CLOCK", 0)>>
    [] o = "display"      -> <<Must("DISPLAY", 0)>>
    [] o = "customtext"   -> <<Must("CUSTOMTEXT", 0)>>
    [] o = "config_read"  -> <<Must("READ", 0)>>
    [] o = "config_write" -> <<Must("WRITE", 0)>>
    [] o = "config_reset" -> <<Must("RESET", 0)>>
    [] o = "read"         -> EachBlock("S_BLOCK_READ")
    [] o = "write"        -> <<Must("S_ERASE", 0)>> \o EachBlock("S_BLOCK_WRITE")
    [] o = "fwupdate"     -> IF hardware = "hwos4" THEN fwupdate4 ELSE fwupdate3

-----------------------------------------------------------------------------
(***************************************************************************)
(* The driver.                                                             *)
(***************************************************************************)

Call(o) ==
  /\ phase = "idle" /\ calls < MaxCalls
  /\ calls' = calls + 1 /\ cancelled' = FALSE
  /\ op' = o /\ inBody' = FALSE /\ seen' = 0
  /\ IF ModeAllowed(Target(o))
       THEN /\ todo' = InitScript(Target(o))
            /\ phase' = "next" /\ status' = "SUCCESS"
       ELSE status' = "INVALIDARGS" /\ UNCHANGED <<todo, phase>>
  /\ UNCHANGED <<state, hardware, answer, device, link>>

\* Mutant: the application's cancellation still holds while the device is closed.
Close_Cancelled ==
  /\ phase = "idle"
  /\ todo' = IF state \in {"DOWNLOAD", "SERVICE"} THEN <<Must("EXIT", 0)>> ELSE <<>>
  /\ phase' = "next" /\ op' = "close" /\ inBody' = TRUE /\ status' = "SUCCESS"
  /\ UNCHANGED <<state, hardware, answer, seen, calls, cancelled, device, link>>

\* dc_device_close removes the cancellation callback, then the driver closes.
Close ==
  /\ phase = "idle"
  /\ todo' = IF state \in {"DOWNLOAD", "SERVICE"} THEN <<Must("EXIT", 0)>> ELSE <<>>
  /\ phase' = "next" /\ op' = "close" /\ inBody' = TRUE /\ status' = "SUCCESS"
  /\ cancelled' = FALSE
  /\ UNCHANGED <<state, hardware, answer, seen, calls, device, link>>

\* The application may cancel at any time during an operation.
Cancel ==
  /\ phase \notin {"idle", "closed"} /\ op # "close" /\ ~cancelled
  /\ cancelled' = TRUE
  /\ UNCHANGED <<state, hardware, todo, phase, answer, op, inBody, seen, status, calls, device, link>>

Finish(s) ==
  /\ phase' = IF op = "close" THEN "closed" ELSE "idle"
  /\ status' = s /\ todo' = <<>> /\ answer' = NoAnswer

\* From hw_ostc3_device_init to the body of the operation, and back to the
\* caller after the last transfer.
Advance ==
  /\ phase = "next" /\ todo = <<>>
  /\ IF inBody THEN Finish(status)
     ELSE IF op \in {"read", "write"} /\ hardware = "hwos4" THEN Finish("UNSUPPORTED")
     ELSE todo' = Body(op) /\ UNCHANGED <<phase, status, answer>>
  /\ inBody' = TRUE
  /\ UNCHANGED <<state, hardware, op, seen, calls, cancelled, device, link>>

\* Mutant: an optional transfer that fails is not left.
Fails_Stays(s) ==
  IF Head(todo).ignored \/ (Head(todo).fallback /\ s = "UNSUPPORTED")
    THEN todo' = Tail(todo) /\ answer' = NoAnswer /\ UNCHANGED <<phase, status>>
    ELSE Finish(s)

\* A transfer fails: an optional one is passed over, an unsupported one may
\* have an alternative, any other ends the operation.
Fails(s) ==
  IF Head(todo).ignored \/ (Head(todo).fallback /\ s = "UNSUPPORTED")
    THEN phase' = "next" /\ todo' = Tail(todo) /\ answer' = NoAnswer /\ UNCHANGED status
    ELSE Finish(s)

Begin ==
  /\ phase = "next" /\ todo # <<>>
  /\ IF cancelled
       THEN Fails("CANCELLED") /\ UNCHANGED <<device, wire>>
       ELSE /\ Send(Token("cmd", Head(todo).cmd, 0))
            /\ phase' = "echo"
            /\ UNCHANGED <<todo, answer, status>>
  /\ UNCHANGED <<state, hardware, op, inBody, seen, calls, cancelled, faults>>

Timeout ==
  /\ phase \in {"echo", "output", "ready"}
  /\ IF wire = <<>> THEN UNCHANGED faults ELSE faults < MaxFaults /\ faults' = faults + 1
  /\ Fails("TIMEOUT")
  /\ UNCHANGED <<state, hardware, op, inBody, seen, calls, cancelled, device, wire>>

AfterEcho(c) ==
  IF InputLen(c) > 0 THEN "input" ELSE IF HasOutput(c) THEN "output"
  ELSE IF c = "EXIT" THEN "done" ELSE "ready"

\* The ready byte of the state the driver believes the device to be in; the
\* answer to S_INIT ends with the one of the service mode.
Expected == IF state = "SERVICE" \/ Head(todo).cmd = "S_INIT" THEN "service" ELSE "download"

ReadEcho ==
  /\ phase = "echo" /\ wire # <<>>
  /\ LET c == Head(todo).cmd
         t == Head(wire)
     IN  IF t.kind = "echo" /\ t.cmd = c
           THEN phase' = AfterEcho(c) /\ UNCHANGED <<todo, answer, status>>
           ELSE Fails(IF c # "S_INIT" /\ t = ReadyToken(Expected) THEN "UNSUPPORTED" ELSE "PROTOCOL")
  /\ wire' = Tail(wire)
  /\ UNCHANGED <<state, hardware, op, inBody, seen, calls, cancelled, device, faults>>

\* The tokens of the input, one after the other; the last one has the block.
SendInput ==
  /\ phase = "input"
  /\ LET c == Head(todo).cmd
     IN  /\ Send(Token("input", c, Head(todo).arg))
         /\ IF InputLen(c) = 2
              THEN phase' = "input2"
              ELSE phase' = IF HasOutput(c) THEN "output" ELSE "ready"
  /\ UNCHANGED <<state, hardware, todo, answer, op, inBody, seen, status, calls, cancelled, faults>>

SendRest ==
  /\ phase = "input2"
  /\ Send(Token("input", Head(todo).cmd, Head(todo).arg))
  /\ phase' = "ready"
  /\ UNCHANGED <<state, hardware, todo, answer, op, inBody, seen, status, calls, cancelled, faults>>

\* Any bytes will do for the output.
ReadOutput ==
  /\ phase = "output" /\ wire # <<>>
  /\ answer' = Head(wire) /\ wire' = Tail(wire)
  /\ phase' = "ready"
  /\ UNCHANGED <<state, hardware, todo, op, inBody, seen, status, calls, cancelled, device, faults>>

ReadReady ==
  /\ phase = "ready" /\ wire # <<>>
  /\ wire' = Tail(wire)
  /\ IF Head(wire) = ReadyToken(Expected)
       THEN phase' = "done" /\ UNCHANGED <<todo, status, answer>>
       ELSE Fails("PROTOCOL")
  /\ UNCHANGED <<state, hardware, op, inBody, seen, calls, cancelled, device, faults>>

\* Mutant: the block read back is not compared.
VerifyFailed_Never == FALSE

\* fwupdate3 compares the block it reads back with the file.
VerifyFailed ==
  /\ op = "fwupdate" /\ Head(todo).cmd = "S_BLOCK_READ"
  /\ answer.cmd # New

\* Mutant: the upload is skipped whatever version is installed.
UploadNotNeeded_Always == Head(todo).cmd = "S_FWINFO"

\* fwupdate4: the versions are the same, or the blob is not on the device.
UploadNotNeeded == Head(todo).cmd = "S_FWINFO" /\ answer.cmd \in {New, Absent}

\* Mutant: both initialisations end in service mode.
NewState_Service(c) ==
  CASE c \in {"INIT", "S_INIT"} -> "SERVICE" [] c = "S_UPGRADE" -> "REBOOTING" [] OTHER -> state

\* device->state after a successful transfer.
NewState(c) ==
  CASE c = "INIT" -> "DOWNLOAD" [] c = "S_INIT" -> "SERVICE"
    [] c = "S_UPGRADE" -> "REBOOTING" [] OTHER -> state

\* The transfer was successful.
Complete ==
  /\ phase = "done"
  /\ LET c == Head(todo).cmd IN
     /\ state' = NewState(c)
     /\ seen' = IF c \in {"HARDWARE2", "HARDWARE"} THEN answer.arg ELSE seen
     /\ hardware' = CASE c # "IDENTITY" -> hardware
                      [] c = "IDENTITY" /\ seen = 4 -> "hwos4"
                      [] OTHER -> "hwos3"
     /\ IF VerifyFailed
          THEN todo' = <<Try("DISPLAY")>> /\ status' = "PROTOCOL"     \* " Verify FAILED"
          ELSE /\ todo' = IF (c # "HARDWARE" /\ Head(todo).fallback) \/ UploadNotNeeded
                            THEN Tail(Tail(todo)) ELSE Tail(todo)
               /\ UNCHANGED status
  /\ phase' = "next" /\ answer' = NoAnswer
  /\ UNCHANGED <<op, inBody, calls, cancelled, device, link>>

Closed == phase = "closed" /\ UNCHANGED vars

Next ==
  \/ \E o \in Operations : Call(o)
  \/ Close
  \/ Cancel
  \/ Advance
  \/ Begin
  \/ Timeout
  \/ ReadEcho
  \/ SendInput
  \/ SendRest
  \/ ReadOutput
  \/ ReadReady
  \/ Complete
  \/ Lose
  \/ Closed

Spec == Init /\ [][Next]_vars

-----------------------------------------------------------------------------

TypeOK ==
  /\ state \in {"OPEN", "DOWNLOAD", "SERVICE", "REBOOTING"}
  /\ hardware \in {"INVALID", "hwos3", "hwos4"}
  /\ mode \in {"idle", "download", "service", "rebooting"}
  /\ phase \in {"idle", "next", "echo", "input", "input2", "output", "ready", "done", "closed"}
  /\ phase \notin {"idle", "next", "closed"} => todo # <<>>
  /\ waits = None => buf = <<>>
  /\ status \in {"SUCCESS", "INVALIDARGS", "UNSUPPORTED", "PROTOCOL", "TIMEOUT", "CANCELLED"}

\* The device is only told to program itself once its flash holds the whole
\* file: whatever display texts fail on the way, whatever is cancelled and
\* tried again, and whatever answer, within the faults of a run, comes late and
\* is read by a later transfer.  And once the driver takes the device for
\* rebooting, it is.  It is a property of few faults: an answer does not say
\* which transfer it belongs to, and where many come late those of earlier
\* attempts can pass for the ones of this attempt.
FirmwareComplete ==
  /\ mode = "rebooting" => \A b \in 1 .. Blocks : flash[b] = New
  /\ state = "REBOOTING" => mode = "rebooting"

\* An update that returns DC_STATUS_SUCCESS has done its work: the device
\* reboots into the new firmware, whatever has gone wrong on the line before
\* within the faults of a run, or, on hwOS 4, every blob that is on it has the
\* version of the file.  The answer to S_FWINFO does not say which blob it is
\* about: once an answer has come late the driver can be one answer behind for
\* good, and take the version of the blob before for that of this one, so that
\* hwOS 4 needs a clean line.
SuccessMeansUpdated ==
  phase = "idle" /\ op = "fwupdate" /\ status = "SUCCESS" =>
    IF hwos4 THEN faults = 0 => \A b \in 1 .. Blocks : flash[b] \in {New, Absent}
             ELSE mode = "rebooting"

\* The mode the driver believes the device to be in is the one it is in; a
\* device may have gone further than an answer has told.
StateAgrees ==
  /\ state = "DOWNLOAD" => mode = "download" \/ op = "close"
  /\ state = "SERVICE" => mode \in {"service", "rebooting"} \/ op = "close"

\* Without a fault on the line, the device is never left in the middle of a
\* command, by a cancellation or by anything else, and is back in its normal
\* mode, or rebooting, when it is closed.
InStep ==
  faults = 0 =>
    /\ phase \in {"idle", "next", "closed"} => wire = <<>> /\ waits = None
    /\ phase = "closed" => mode \in {"idle", "rebooting"}
=============================================================================
