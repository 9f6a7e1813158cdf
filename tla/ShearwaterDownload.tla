------------------------ MODULE ShearwaterDownload ------------------------
(***************************************************************************)
(* The requests of a Shearwater computer (shearwater_common.c): reading an *)
(* identifier, and downloading an area of its memory in numbered blocks,   *)
(* compressed or not.                                                      *)
(*                                                                         *)
(* A request is sent once and its answer is awaited for three seconds;     *)
(* there is no retry, and nothing is purged.  An answer that is late stays *)
(* in the line and is the first thing the next request reads, also in a    *)
(* later download of the same session.  The only protection is that an     *)
(* answer has to look like the answer to the request: the identifier it    *)
(* repeats, or the block number, which is a byte.                          *)
(*                                                                         *)
(* One download of an application is a sequence of requests like that of   *)
(* shearwater_petrel_device_foreach: identifiers (two of its four), a      *)
(* manifest (plain) and a dive (compressed).  Cancellation is modelled in  *)
(* PetrelDownload.                                                         *)
(***************************************************************************)
EXTENDS Integers, Sequences, SequencesExt, FiniteSetsExt

CONSTANTS
  Streams,      \* the compressed dives: sequences of 9 bit values
  Manifest,     \* the plain area: a sequence of bytes, each a value
  BlockLen,     \* the values, or bytes, of a block
  BlockMod,     \* the block counter wraps at this number (256)
  RowSize,      \* the bytes of a row (32)
  MaxCalls,     \* bound: the downloads of a session
  MaxFaults     \* bound: the answers lost or late

ShearwaterAssumption ==
  /\ BlockLen \in Nat \ {0} /\ BlockMod \in Nat \ {0} /\ RowSize \in Nat \ {0}
  /\ MaxCalls \in Nat /\ MaxFaults \in Nat

Script == <<"serial", "model", "manifest", "dive">>
Identifiers == {"serial", "model"}

VARIABLES
  stream,                \* the device: the compressed dive
  area, sent,            \* the area it was asked for, the blocks it has sent of it
  line, late, faults,    \* answers received and not read; answers still to come
  call, step, pc,        \* the driver: the download, the request of the script
  request,               \* the request to send, or the one sent
  block, nbytes, done, buffer,
  got, status            \* the areas downloaded so far

device == <<stream, area, sent>>
wire   == <<line, late, faults>>
result == <<got, status>>
vars   == <<device, wire, call, step, pc, request, block, nbytes, done, buffer, result>>

(***************************************************************************)
(* Compression.  A value is a byte, a run of zero bytes, or the end.  Bytes*)
(* are bits here, and XOR is addition modulo 2.                            *)
(***************************************************************************)
Byte(c) == [op |-> "byte", arg |-> c]
Run(n)  == [op |-> "run", arg |-> n]
End     == [op |-> "end", arg |-> 0]

IsEnd(v) == v.op = "end"

Zeros(n) == [i \in 1 .. n |-> 0]

Expand(v) == IF v.op = "run" THEN Zeros(v.arg) ELSE <<v.arg>>

\* The values in front of the end of the stream.
UpToEnd(values) ==
  LET ends == {i \in DOMAIN values : IsEnd(values[i])}
  IN  IF ends = {} THEN values ELSE SubSeq(values, 1, Min(ends) - 1)

\* The bytes a block adds to the buffer.
decompress_lre(values) ==
  FlattenSeq([i \in DOMAIN UpToEnd(values) |-> Expand(UpToEnd(values)[i])])

\* Each row is combined, in place, with the row before it.
decompress_xor(data) ==
  LET out[i \in DOMAIN data] ==
        IF i <= RowSize THEN data[i] ELSE (data[i] + out[i - RowSize]) % 2
  IN  [i \in DOMAIN data |-> out[i]]

(***************************************************************************)
(* The device: it answers a request at once, and serves an area block by   *)
(* block, with whatever follows the end of a dive in its memory.           *)
(***************************************************************************)
Content(name) == IF name = "manifest" THEN Manifest ELSE stream

BlockOf(name, k) ==
  LET c == Content(name)
  IN  SubSeq(c, (k - 1) * BlockLen + 1, IF k * BlockLen < Len(c) THEN k * BlockLen ELSE Len(c))

Answer(r) ==
  CASE r.op = "rdbi"  -> [op |-> "rdbi", id |-> r.id, data |-> <<>>]
    [] r.op = "init"  -> [op |-> "init", id |-> "", data |-> <<>>]
    [] r.op = "block" -> IF area # "" /\ BlockOf(area, sent + 1) # <<>>
                           THEN [op |-> "block", id |-> r.id, data |-> BlockOf(area, sent + 1)]
                           ELSE [op |-> "nak", id |-> "", data |-> <<>>]
    [] r.op = "quit"  -> [op |-> "quit", id |-> "", data |-> <<>>]

Serve(r) ==
  /\ area' = CASE r.op = "init" -> r.id [] r.op = "quit" -> "" [] OTHER -> area
  /\ sent' = CASE r.op = "init" -> 0 [] r.op = "block" -> sent + 1 [] OTHER -> sent
  /\ UNCHANGED stream

RequestOf(s) ==
  IF Script[s] \in Identifiers THEN [op |-> "rdbi", id |-> Script[s]]
                               ELSE [op |-> "init", id |-> Script[s]]

Init ==
  /\ stream \in Streams
  /\ area = "" /\ sent = 0 /\ line = <<>> /\ late = <<>> /\ faults = 0
  /\ call = 0 /\ step = 1 /\ pc = "idle" /\ request = RequestOf(1)
  /\ block = 1 /\ nbytes = 0 /\ done = FALSE /\ buffer = <<>>
  /\ got = <<>> /\ status = "none"

\* The application starts a download; the device stays open between them.
Foreach ==
  /\ pc = "idle" /\ call < MaxCalls
  /\ call' = call + 1 /\ step' = 1 /\ pc' = "send" /\ request' = RequestOf(1)
  /\ got' = <<>> /\ status' = "none"
  /\ UNCHANGED <<device, wire, block, nbytes, done, buffer>>

\* The request goes out: the answer comes, comes too late, or is lost, or the
\* request is.  Answers are not reordered: behind a late one they wait.
Send ==
  /\ pc = "send"
  /\ pc' = "read"
  /\ \/ /\ Serve(request)
        /\ IF late = <<>> THEN line' = Append(line, Answer(request)) /\ UNCHANGED late
                          ELSE late' = Append(late, Answer(request)) /\ UNCHANGED line
        /\ UNCHANGED faults
     \/ /\ faults < MaxFaults /\ faults' = faults + 1
        /\ \/ late' = Append(late, Answer(request)) /\ Serve(request)
           \/ late' = late /\ Serve(request)
           \/ late' = late /\ UNCHANGED device
        /\ UNCHANGED line
  /\ UNCHANGED <<call, step, request, block, nbytes, done, buffer, result>>

Arrive ==
  /\ late # <<>>
  /\ line' = Append(line, Head(late)) /\ late' = Tail(late)
  /\ UNCHANGED <<device, faults, call, step, pc, request, block, nbytes, done, buffer, result>>

Fail(s) ==
  /\ pc' = "idle" /\ status' = s
  /\ UNCHANGED <<step, request, block, nbytes, done, buffer, got>>

Timeout ==
  /\ pc = "read" /\ line = <<>>
  /\ Fail("TIMEOUT")
  /\ UNCHANGED <<device, wire, call>>

\* The next request of the script, or the end of the download.
Proceed ==
  IF step = Len(Script)
    THEN pc' = "idle" /\ status' = "SUCCESS" /\ UNCHANGED <<step, request>>
    ELSE pc' = "send" /\ step' = step + 1 /\ request' = RequestOf(step + 1) /\ UNCHANGED status

\* Mutant: the identifier in the answer is not compared.
IdMatches_Any(a) == TRUE

IdMatches(a) == a.id = request.id

\* shearwater_common_rdbi
ReadIdentifier ==
  /\ pc = "read" /\ line # <<>> /\ request.op = "rdbi"
  /\ line' = Tail(line)
  /\ IF Head(line).op = "rdbi" /\ IdMatches(Head(line))
       THEN /\ got' = Append(got, [name |-> request.id, data |-> Head(line).id])
            /\ Proceed /\ UNCHANGED <<block, nbytes, done, buffer>>
       ELSE Fail("PROTOCOL")
  /\ UNCHANGED <<device, late, faults, call>>

\* Mutant: the counter does not wrap.
NextBlock_NoWrap(n) == n + 1

NextBlock(n) == (n + 1) % BlockMod

BlockRequest(n) == [op |-> "block", id |-> n]

Compressed == Script[step] = "dive"

\* Mutant: one block more is asked for.
Complete_OneMore(n, d) == d \/ (~Compressed /\ n > Len(Manifest))

\* The area is complete: all its bytes, or the end of the compressed stream.
Complete(n, d) == d \/ (~Compressed /\ n >= Len(Manifest))

\* The answer to the init request: blocks are asked for from number one.
ReadInit ==
  /\ pc = "read" /\ line # <<>> /\ request.op = "init"
  /\ line' = Tail(line)
  /\ IF Head(line).op = "init"
       THEN /\ block' = 1 % BlockMod /\ nbytes' = 0 /\ done' = FALSE /\ buffer' = <<>>
            /\ request' = BlockRequest(1 % BlockMod) /\ pc' = "send"
            /\ UNCHANGED <<step, result>>
       ELSE Fail("PROTOCOL")
  /\ UNCHANGED <<device, late, faults, call>>

\* A plain area that would get too long is refused.
TooLong(a) == ~Compressed /\ nbytes + Len(a.data) > Len(Manifest)

\* One round of the loop of shearwater_common_download, and the second phase
\* of the decompression after the last one.
ReadBlock ==
  /\ pc = "read" /\ line # <<>> /\ request.op = "block"
  /\ line' = Tail(line)
  /\ LET a == Head(line)
         d == Compressed /\ \E i \in DOMAIN a.data : IsEnd(a.data[i])
         n == nbytes + Len(a.data)
         b == buffer \o (IF Compressed THEN decompress_lre(a.data) ELSE a.data)
     IN  IF a.op = "block" /\ a.id = block /\ ~TooLong(a)
           THEN /\ done' = d /\ nbytes' = n
                /\ block' = NextBlock(block)
                /\ request' = IF Complete(n, d) THEN [op |-> "quit", id |-> ""]
                                                ELSE BlockRequest(NextBlock(block))
                /\ buffer' = IF Complete(n, d) /\ Compressed THEN decompress_xor(b) ELSE b
                /\ pc' = "send"
                /\ UNCHANGED <<step, result>>
           ELSE Fail("PROTOCOL")
  /\ UNCHANGED <<device, late, faults, call>>

ReadQuit ==
  /\ pc = "read" /\ line # <<>> /\ request.op = "quit"
  /\ line' = Tail(line)
  /\ IF Head(line).op = "quit"
       THEN /\ got' = Append(got, [name |-> Script[step], data |-> buffer])
            /\ Proceed
            /\ UNCHANGED <<block, nbytes, done, buffer>>
       ELSE Fail("PROTOCOL")
  /\ UNCHANGED <<device, late, faults, call>>

\* The application makes no more downloads.
Finished == pc = "idle" /\ call = MaxCalls /\ UNCHANGED vars

Next ==
  \/ Foreach
  \/ Send
  \/ Arrive
  \/ Timeout
  \/ ReadIdentifier
  \/ ReadInit
  \/ ReadBlock
  \/ ReadQuit
  \/ Finished

Spec == Init /\ [][Next]_vars

-----------------------------------------------------------------------------

TypeOK ==
  /\ pc \in {"idle", "send", "read"} /\ step \in DOMAIN Script
  /\ block \in 0 .. BlockMod - 1 /\ done \in BOOLEAN
  /\ nbytes <= Max({Len(Content(n)) : n \in {"manifest", "dive"}})
  /\ status \in {"none", "SUCCESS", "TIMEOUT", "PROTOCOL"}

\* What the compressed stream stands for: the runs expanded up to the end,
\* and every byte the parity of the bytes above it in its column.
Uncompressed ==
  LET end == Min({i \in DOMAIN stream : stream[i] = End})
      d   == FlattenSeq([i \in 1 .. end - 1 |->
                           IF stream[i].op = "run" THEN Zeros(stream[i].arg) ELSE <<stream[i].arg>>])
  IN  [i \in DOMAIN d |->
         Cardinality({j \in 1 .. i : j % RowSize = i % RowSize /\ d[j] = 1}) % 2]

Held(name) ==
  CASE name \in Identifiers -> name
    [] name = "manifest"    -> Manifest
    [] OTHER                -> Uncompressed

\* Whatever answers were lost or late in this download or in an earlier one
\* of the session, what shearwater_common_rdbi and shearwater_common_download
\* return is what the device holds for the identifier or the area asked for,
\* and never the answer to another request or another area's blocks.
DataIntact == \A k \in DOMAIN got : got[k].data = Held(got[k].name)

\* A session without a lost or late answer has no failed download.
FaultFree == faults = 0 => status \in {"none", "SUCCESS"}
=============================================================================
