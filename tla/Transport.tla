------------------------------ MODULE Transport ------------------------------
(***************************************************************************)
(* The loops of the transports on top of select: dc_serial_read, _write    *)
(* and _poll of serial_posix.c, and dc_socket_read, _write and _poll of    *)
(* socket.c, which irda.c and bluetooth.c use, as dc_iostream_read and     *)
(* dc_iostream_write call them.  A serial read has a deadline for the      *)
(* whole call; a socket starts its timeout again with every select.        *)
(*                                                                         *)
(* The operating system is external: bytes arrive at any time, a call of   *)
(* the system takes some of the bytes, or none (EAGAIN), is interrupted by *)
(* a signal (EINTR), fails, or finds the line closed.  Time only passes    *)
(* while select waits.  Bytes are numbered as they arrive, and as the      *)
(* caller passes them.                                                     *)
(***************************************************************************)
EXTENDS Integers, Sequences

CONSTANTS
  Timeouts,      \* what dc_iostream_set_timeout may have set, negative for none
  Sizes,         \* the sizes of a call
  MaxArrived,    \* bound: the bytes that arrive
  MaxSignals     \* bound: the interruptions of one call

TransportAssumption ==
  /\ Timeouts \subseteq Int /\ Sizes \subseteq Nat
  /\ MaxArrived \in Nat /\ MaxSignals \in Nat

VARIABLES
  kind,          \* "serial" or "socket"
  timeout,
  line, arrived, \* the bytes in the input, and how many have arrived
  op,            \* the call: "read", "write" or "poll"
  pc, size,
  nbytes, data,  \* the bytes read or written
  remaining,     \* the time until the target time, -1 while there is none
  left,          \* the time until the select in progress expires, -1 for never
  spent,         \* the time since the call
  signals,       \* the interruptions since the call
  closed,        \* a read or write has found the line closed
  status

input   == <<kind, timeout, line, arrived>>
clock   == <<remaining, left, spent>>
buffer  == <<nbytes, data>>
vars    == <<input, op, pc, size, buffer, clock, signals, closed, status>>

Init ==
  /\ kind \in {"serial", "socket"} /\ timeout \in Timeouts
  /\ line = <<>> /\ arrived = 0
  /\ op = "none" /\ pc = "idle" /\ size = 0 /\ nbytes = 0 /\ data = <<>>
  /\ remaining = -1 /\ left = -1 /\ spent = 0 /\ signals = 0
  /\ closed = FALSE /\ status = "none"

Arrive ==
  /\ arrived < MaxArrived
  /\ arrived' = arrived + 1 /\ line' = Append(line, arrived + 1)
  /\ UNCHANGED <<kind, timeout, op, pc, size, buffer, clock, signals, closed, status>>

-----------------------------------------------------------------------------
Call(name, n) ==
  /\ pc = "idle" /\ pc' = "loop"
  /\ op' = name /\ size' = n /\ nbytes' = 0 /\ data' = <<>>
  /\ remaining' = -1 /\ left' = -1 /\ spent' = 0 /\ signals' = 0
  /\ closed' = FALSE /\ status' = "SUCCESS"
  /\ UNCHANGED input

dc_iostream_read  == \E n \in Sizes : Call("read", n)
dc_iostream_write == \E n \in Sizes : Call("write", n)

\* The timeout of a poll is its parameter.
dc_iostream_poll == Call("poll", 0)

\* Mutant: the target time is calculated in every round.
Target_Again == timeout

\* The target time is calculated once.
Target == IF remaining < 0 THEN timeout ELSE remaining

\* The timeout of the next select.
Prepare ==
  /\ pc = "loop" /\ (op # "poll" => nbytes < size)
  /\ pc' = "select"
  /\ IF op = "read" /\ kind = "serial" /\ timeout > 0
       THEN remaining' = Target /\ left' = Target
       ELSE left' = (IF op = "write" \/ timeout < 0 THEN -1 ELSE timeout) /\ UNCHANGED remaining
  /\ UNCHANGED <<input, op, size, buffer, spent, signals, closed, status>>

Tick ==
  /\ pc = "select" /\ left > 0
  /\ left' = left - 1 /\ spent' = spent + 1
  /\ remaining' = IF remaining > 0 THEN remaining - 1 ELSE remaining
  /\ UNCHANGED <<input, op, pc, size, buffer, signals, closed, status>>

Ready == op = "write" \/ line # <<>>

\* select returns: something can be read or written.
Selected ==
  /\ pc = "select" /\ Ready
  /\ pc' = IF op = "poll" THEN "return" ELSE "transfer"
  /\ UNCHANGED <<input, op, size, buffer, clock, signals, closed, status>>

\* select returns zero.
Expired ==
  /\ pc = "select" /\ left = 0 /\ ~Ready
  /\ pc' = "return" /\ status' = "TIMEOUT"
  /\ UNCHANGED <<input, op, size, buffer, clock, signals, closed>>

\* Mutant: a signal ends the call.
Interrupted_Ends ==
  /\ pc \in {"select", "transfer", "drain"} /\ signals < MaxSignals
  /\ signals' = signals + 1
  /\ pc' = "return" /\ status' = (IF op # "poll" /\ nbytes # size THEN "TIMEOUT" ELSE status)
  /\ UNCHANGED <<input, op, size, buffer, clock, closed>>

\* EINTR, or EAGAIN from read and write: retry.
Interrupted ==
  /\ pc \in {"select", "transfer", "drain"} /\ signals < MaxSignals
  /\ signals' = signals + 1
  /\ pc' = IF pc = "drain" THEN "drain" ELSE "loop"
  /\ UNCHANGED <<input, op, size, buffer, clock, closed, status>>

\* Any other error, of the timer too.
Fails ==
  /\ \/ pc \in {"select", "transfer", "drain"}
     \/ pc = "loop" /\ nbytes < size /\ op = "read" /\ kind = "serial" /\ timeout > 0
  /\ pc' = "return" /\ status' = "IO"
  /\ UNCHANGED <<input, op, size, buffer, clock, signals, closed>>

\* Mutant: the bytes go to the beginning of the buffer.
Placed_AtStart(bytes) ==
  [i \in 1 .. nbytes + Len(bytes) |-> IF i <= Len(bytes) THEN bytes[i] ELSE 0]

\* The bytes go behind those of the rounds before.
Placed(bytes) == data \o bytes

\* read or recv.
Receive ==
  /\ pc = "transfer" /\ op = "read"
  /\ \E n \in 1 .. size - nbytes :
       /\ n <= Len(line)
       /\ data' = Placed(SubSeq(line, 1, n)) /\ nbytes' = nbytes + n
       /\ line' = SubSeq(line, n + 1, Len(line))
  /\ pc' = "loop"
  /\ UNCHANGED <<kind, timeout, arrived, op, size, clock, signals, closed, status>>

\* write or send: the n bytes at data + nbytes.
Send ==
  /\ pc = "transfer" /\ op = "write"
  /\ \E n \in 1 .. size - nbytes :
       /\ data' = Placed([i \in 1 .. n |-> nbytes + i]) /\ nbytes' = nbytes + n
  /\ pc' = "loop"
  /\ UNCHANGED <<input, op, size, clock, signals, closed, status>>

\* What a call that was cut short returns.  dc_serial_write does not look.
CutShort == IF kind = "serial" /\ op = "write" THEN "SUCCESS" ELSE "TIMEOUT"

AfterLoop == IF kind = "serial" /\ op = "write" THEN "drain" ELSE "return"

\* The line is closed: nothing was transferred.  select reports a closed line
\* as ready.
EndOfFile ==
  /\ \/ op = "read" /\ pc = "select" /\ line = <<>>
     \/ op = "write" /\ pc = "transfer"
  /\ closed' = TRUE /\ pc' = AfterLoop /\ status' = CutShort
  /\ UNCHANGED <<input, op, size, buffer, clock, signals>>

LoopEnds ==
  /\ pc = "loop" /\ op # "poll" /\ nbytes = size
  /\ pc' = AfterLoop
  /\ UNCHANGED <<input, op, size, buffer, clock, signals, closed, status>>

\* tcdrain.
Drain ==
  /\ pc = "drain" /\ pc' = "return"
  /\ UNCHANGED <<input, op, size, buffer, clock, signals, closed, status>>

Return ==
  /\ pc = "return" /\ pc' = "idle"
  /\ UNCHANGED <<input, op, size, buffer, clock, signals, closed, status>>

\* Only the serial transport can be purged; for the others dc_iostream_purge
\* does nothing and succeeds.
dc_iostream_purge ==
  /\ pc = "idle"
  /\ kind = "serial" /\ line # <<>>
  /\ line' = <<>> /\ data' = <<>> /\ nbytes' = 0 /\ op' = "none" /\ status' = "none"
  /\ UNCHANGED <<kind, timeout, arrived, pc, size, clock, signals, closed>>

Step ==
  \/ Prepare \/ Tick \/ Selected \/ Expired \/ Receive \/ Send \/ LoopEnds \/ Drain \/ Return

Next ==
  \/ Arrive
  \/ dc_iostream_read
  \/ dc_iostream_write
  \/ dc_iostream_poll
  \/ Prepare
  \/ Tick
  \/ Selected
  \/ Expired
  \/ Interrupted
  \/ Fails
  \/ Receive
  \/ Send
  \/ EndOfFile
  \/ LoopEnds
  \/ Drain
  \/ Return
  \/ dc_iostream_purge

\* Time passes, and the operating system answers its calls.
Spec == Init /\ [][Next]_vars /\ WF_vars(Step)

-----------------------------------------------------------------------------
TypeOK ==
  /\ pc \in {"idle", "loop", "select", "transfer", "drain", "return"}
  /\ nbytes \in 0 .. size /\ Len(data) = nbytes
  /\ signals \in 0 .. MaxSignals /\ left >= -1
  /\ status \in {"none", "SUCCESS", "TIMEOUT", "IO"}

\* The bytes of a call, and behind them those still in the input, are in the
\* order they arrived, none twice and none missing, whatever the pieces they
\* came in and whatever interrupted the call; the bytes of a write go out in
\* order; and a call that succeeds has transferred all of its bytes, except a
\* serial write to a line that was closed.
BytesInOrder ==
  /\ op = "read" =>
       LET all == data \o line
       IN  \A i \in DOMAIN all : all[i] = arrived - Len(all) + i
  /\ op = "write" => \A i \in DOMAIN data : data[i] = i
  /\ op \in {"read", "write"} /\ pc = "idle" /\ status = "SUCCESS" =>
       nbytes = size \/ (closed /\ kind = "serial" /\ op = "write")

\* A serial read takes no longer than its timeout, in however many pieces its
\* bytes come and however often it is interrupted; a socket may take as long
\* again for every piece and interruption.  A call that times out has waited
\* for all of its timeout, unless the line was closed.
InTime ==
  timeout >= 0 =>
    /\ kind = "serial" /\ op = "read" => spent <= timeout
    /\ spent <= timeout * (nbytes + signals + 1)
    /\ pc = "idle" /\ status = "TIMEOUT" => closed \/ spent >= timeout

\* Every call with a timeout returns, and every write.
Returns == (pc # "idle" /\ (op = "write" \/ timeout >= 0)) ~> (pc = "idle")
=============================================================================
