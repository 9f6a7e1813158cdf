-------------------------------- MODULE Hdlc --------------------------------
(***************************************************************************)
(* The HDLC framing layer (hdlc.c): a frame is END, the payload with END   *)
(* and ESC escaped, END.  The writer fills a buffer of osize bytes and     *)
(* flushes it whenever it is full, in the middle of a frame and of an      *)
(* escape sequence too; the reader takes the bytes out of a buffer of      *)
(* isize bytes that may hold the end of one frame and the start of the     *)
(* next.                                                                   *)
(*                                                                         *)
(* The module connects a writing and a reading end.  The transport between *)
(* them is external: it carries the flushed chunks in order, and a read or *)
(* a write may fail.                                                       *)
(***************************************************************************)
EXTENDS Integers, Sequences, SequencesExt

CONSTANTS
  END, ESC,       \* the two special bytes
  XEND, XESC,     \* the same bytes with ESC_BIT flipped
  PlainBytes,     \* other bytes a payload may hold
  OSizes,         \* sizes of the write buffer
  Payloads,       \* payloads the writer may send
  Sizes,          \* sizes of the reader's buffer for a payload
  MaxFrames       \* bound: number of frames written

HdlcAssumption ==
  /\ OSizes \subseteq Nat \ {0} /\ Sizes \subseteq Nat /\ MaxFrames \in Nat
  /\ Payloads \subseteq Seq({END, ESC, XEND, XESC} \cup PlainBytes)
  /\ END # ESC /\ XEND \notin {END, ESC} /\ XESC \notin {END, ESC, XEND}
  /\ {END, ESC, XEND, XESC} \cap PlainBytes = {}

VARIABLES
  osize,
  wpc, todo, wbuf,        \* dc_hdlc_write: bytes left, bytes not flushed yet
  wire,                   \* chunks on their way
  rbuf,                   \* bytes read and not yet looked at
  rpc, initialized, escaped, data, size, rstatus,   \* dc_hdlc_read
  sent, received,         \* history: payloads written, results of the reads
  intact                  \* history: no read or write has failed since the last purge

writer == <<wpc, todo, wbuf>>
reader == <<rpc, initialized, escaped, data, size, rstatus>>
vars   == <<osize, writer, wire, rbuf, reader, sent, received, intact>>

\* c ^= ESC_BIT
Flip(c) == CASE c = END -> XEND [] c = ESC -> XESC
             [] c = XEND -> END [] c = XESC -> ESC [] OTHER -> c

Init ==
  /\ osize \in OSizes
  /\ wpc = "idle" /\ todo = <<>> /\ wbuf = <<>>
  /\ wire = <<>> /\ rbuf = <<>>
  /\ rpc = "idle" /\ initialized = FALSE /\ escaped = FALSE /\ data = <<>>
  /\ size = 0 /\ rstatus = "SUCCESS"
  /\ sent = <<>> /\ received = <<>> /\ intact = TRUE

-----------------------------------------------------------------------------
(***************************************************************************)
(* dc_hdlc_write.                                                          *)
(***************************************************************************)

\* Mutant: an escape byte is not flushed when it fills the buffer.
Put_LateFlush(c) ==
  IF Len(wbuf) + 1 >= osize /\ c # ESC
    THEN wbuf' = <<>> /\ wire' = Append(wire, Append(wbuf, c))
    ELSE wbuf' = Append(wbuf, c) /\ UNCHANGED wire

\* Mutant: a chunk is flushed without the byte that filled it.
Put_LosesByte(c) ==
  IF Len(wbuf) + 1 >= osize
    THEN wbuf' = <<>> /\ wire' = Append(wire, wbuf)
    ELSE wbuf' = Append(wbuf, c) /\ UNCHANGED wire

\* A byte into the write buffer, flushed when it is full.
Put(c) ==
  IF Len(wbuf) + 1 >= osize
    THEN wbuf' = <<>> /\ wire' = Append(wire, Append(wbuf, c))
    ELSE wbuf' = Append(wbuf, c) /\ UNCHANGED wire

Write(p) ==
  /\ wpc = "idle" /\ Len(sent) < MaxFrames
  /\ sent' = Append(sent, p)
  /\ todo' = p /\ wbuf' = <<>>
  /\ wpc' = "start"
  /\ UNCHANGED <<osize, wire, rbuf, reader, received, intact>>

WriteStart ==
  /\ wpc = "start"
  /\ Put(END)
  /\ wpc' = "body"
  /\ UNCHANGED <<osize, todo, rbuf, reader, sent, received, intact>>

Special(c) == c = END \/ c = ESC

WriteEscape ==
  /\ wpc = "body" /\ todo # <<>> /\ Special(Head(todo))
  /\ Put(ESC)
  /\ wpc' = "escaped"
  /\ UNCHANGED <<osize, todo, rbuf, reader, sent, received, intact>>

WriteByte ==
  /\ \/ wpc = "body" /\ todo # <<>> /\ ~Special(Head(todo)) /\ Put(Head(todo))
     \/ wpc = "escaped" /\ Put(Flip(Head(todo)))
  /\ todo' = Tail(todo)
  /\ wpc' = "body"
  /\ UNCHANGED <<osize, rbuf, reader, sent, received, intact>>

\* The closing END and the last flush, full or not.
WriteEnd ==
  /\ wpc = "body" /\ todo = <<>>
  /\ wire' = Append(wire, Append(wbuf, END))
  /\ wbuf' = <<>>
  /\ wpc' = "idle"
  /\ UNCHANGED <<osize, todo, rbuf, reader, sent, received, intact>>

\* A flush fails: the call returns with the rest of the frame unsent.
WriteFails ==
  /\ wpc \in {"start", "body", "escaped"}
  /\ (wpc = "body" /\ todo = <<>>) \/ Len(wbuf) + 1 >= osize
  /\ wpc' = "idle" /\ todo' = <<>> /\ wbuf' = <<>>
  /\ intact' = FALSE
  /\ UNCHANGED <<osize, wire, rbuf, reader, sent, received>>

-----------------------------------------------------------------------------
(***************************************************************************)
(* dc_hdlc_read.                                                           *)
(***************************************************************************)

Read(n) ==
  /\ rpc = "idle"
  /\ rpc' = "read" /\ size' = n
  /\ initialized' = FALSE /\ escaped' = FALSE /\ data' = <<>> /\ rstatus' = "SUCCESS"
  /\ UNCHANGED <<osize, writer, wire, rbuf, sent, received, intact>>

ReadChunk ==
  /\ rpc = "read" /\ rbuf = <<>> /\ wire # <<>>
  /\ rbuf' = Head(wire) /\ wire' = Tail(wire)
  /\ UNCHANGED <<osize, writer, reader, sent, received, intact>>

\* out: the frame is cut to the buffer of the caller.
Out(status, bytes) ==
  LET result == IF Len(bytes) > size /\ status = "SUCCESS" THEN "IO" ELSE status
  IN  /\ rpc' = "idle" /\ rstatus' = result /\ data' = bytes
      /\ received' = Append(received, [status |-> result, size |-> size,
                       data |-> SubSeq(bytes, 1, IF Len(bytes) > size THEN size ELSE Len(bytes))])

ReadFails ==
  /\ rpc = "read" /\ rbuf = <<>>
  /\ Out("FAILED", data)
  /\ intact' = FALSE
  /\ UNCHANGED <<osize, writer, wire, rbuf, initialized, escaped, size, sent>>

ReadEnd ==
  /\ rpc = "read" /\ rbuf # <<>> /\ Head(rbuf) = END
  /\ rbuf' = Tail(rbuf)
  /\ \/ /\ escaped
        /\ Out("IO", data)
        /\ intact' = FALSE
        /\ UNCHANGED initialized
     \/ /\ ~escaped /\ initialized
        /\ Out("SUCCESS", data)
        /\ UNCHANGED <<initialized, intact>>
     \/ /\ ~escaped /\ ~initialized /\ initialized' = TRUE
        /\ UNCHANGED <<rpc, data, rstatus, received, intact>>
  /\ UNCHANGED <<osize, writer, wire, escaped, size, sent>>

\* Mutant: bytes before the first flag are looked at again and again.
ReadNoise_Stuck ==
  /\ rpc = "read" /\ rbuf # <<>> /\ Head(rbuf) # END /\ ~initialized
  /\ UNCHANGED vars

\* Bytes before the first flag are skipped.
ReadNoise ==
  /\ rpc = "read" /\ rbuf # <<>> /\ Head(rbuf) # END /\ ~initialized
  /\ rbuf' = Tail(rbuf)
  /\ UNCHANGED <<osize, writer, wire, reader, sent, received, intact>>

ReadEscape ==
  /\ rpc = "read" /\ rbuf # <<>> /\ Head(rbuf) = ESC /\ initialized
  /\ rbuf' = Tail(rbuf)
  /\ \/ /\ escaped
        /\ Out("IO", data)
        /\ intact' = FALSE
        /\ UNCHANGED escaped
     \/ /\ ~escaped /\ escaped' = TRUE
        /\ UNCHANGED <<rpc, data, rstatus, received, intact>>
  /\ UNCHANGED <<osize, writer, wire, initialized, size, sent>>

ReadByte ==
  /\ rpc = "read" /\ rbuf # <<>> /\ ~Special(Head(rbuf)) /\ initialized
  /\ rbuf' = Tail(rbuf)
  /\ data' = Append(data, IF escaped THEN Flip(Head(rbuf)) ELSE Head(rbuf))
  /\ escaped' = FALSE
  /\ UNCHANGED <<osize, writer, wire, rpc, initialized, size, rstatus, sent, received, intact>>

\* dc_hdlc_purge of the input while the other end is silent, as at the start
\* of a command; the history starts anew.
Purge ==
  /\ rpc = "idle" /\ wpc = "idle"
  /\ rbuf' = <<>> /\ wire' = <<>>
  /\ sent' = <<>> /\ received' = <<>> /\ intact' = TRUE
  /\ UNCHANGED <<osize, writer, reader>>

Next ==
  \/ \E p \in Payloads : Write(p)
  \/ WriteStart \/ WriteEscape \/ WriteByte \/ WriteEnd \/ WriteFails
  \/ \E n \in Sizes : Len(received) < MaxFrames + 1 /\ Read(n)
  \/ ReadChunk \/ ReadFails
  \/ ReadEnd \/ ReadNoise \/ ReadEscape \/ ReadByte
  \/ Purge

Spec == Init /\ [][Next]_vars

\* Both ends run, and the transport answers a read with bytes or a timeout.
FairSpec ==
  /\ Spec
  /\ WF_vars(ReadChunk \/ ReadFails)
  /\ WF_vars(ReadEnd \/ ReadNoise \/ ReadEscape \/ ReadByte)

-----------------------------------------------------------------------------

\* Types; the write buffer always has room for the next byte, and no chunk
\* is longer than it: hdlc.c writes wbuf[wbuf_offset++] before it looks.
TypeOK ==
  /\ osize \in OSizes
  /\ wpc \in {"idle", "start", "body", "escaped"} /\ rpc \in {"idle", "read"}
  /\ initialized \in BOOLEAN /\ escaped \in BOOLEAN /\ intact \in BOOLEAN
  /\ rstatus \in {"SUCCESS", "IO", "FAILED"}
  /\ Len(wbuf) < osize
  /\ \A i \in DOMAIN wire : Len(wire[i]) <= osize

\* What a read returned is what the writer's n-th frame held, all of it or,
\* with an error, as much as fitted into the caller's buffer.
Delivers(r, p) ==
  IF Len(p) <= r.size THEN r.status = "SUCCESS" /\ r.data = p
                      ELSE r.status = "IO" /\ r.data = SubSeq(p, 1, r.size)

\* As long as no read or write has failed since the last purge, the n-th
\* read returns the n-th frame: whatever bytes the payloads hold, wherever
\* the chunks cut the frames and their escape sequences, and however much
\* of the next frame came with the last chunk.
FramesArrive ==
  intact => /\ Len(received) <= Len(sent)
            /\ \A i \in DOMAIN received : Delivers(received[i], sent[i])
=============================================================================
