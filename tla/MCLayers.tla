------------------------------ MODULE MCLayers ------------------------------
(***************************************************************************)
(* The layers below a driver: the buffer, the packet layer, the HDLC layer *)
(* and the loops of the transports, each on its own.  The variables of all *)
(* but the buffer are in v1 .. v15, as the INSTANCEs say.                  *)
(*                                                                         *)
(* buffer: all sequences of operations with blocks of up to three bytes,   *)
(*   on blocks of memory of up to five bytes.                              *)
(* packet: packets of up to three bytes and empty ones, caches smaller and *)
(*   larger than a packet and none, calls that span several packets.       *)
(* hdlc: payloads of up to two bytes over the special bytes, their flipped *)
(*   forms and a plain byte; write buffers of one, two and three bytes, so *)
(*   that chunks end everywhere in a frame.                                *)
(* transport: calls of up to three bytes, four bytes that arrive one by    *)
(*   one, no timeout, a timeout of zero and one of two, two interruptions  *)
(*   of every call.                                                        *)
(***************************************************************************)
EXTENDS DcBuffer

CONSTANTS
  x, y,                             \* two bytes of the buffer
  ISizes, OSizes, PacketLens, PacketSizes, MaxArrived, MaxWritten, MaxEmpty,    \* packet
  END, ESC, XEND, XESC, PlainBytes, WriteSizes, FrameSizes, MaxFrames, Payloads, \* hdlc
  Timeouts, CallSizes, MaxLine, MaxSignals                                      \* transport

VARIABLES
  layer,             \* "buffer", "packet", "hdlc" or "transport"
  v1, v2, v3, v4, v5, v6, v7, v8, v9, v10, v11, v12, v13, v14, v15

others    == <<v1, v2, v3, v4, v5, v6, v7, v8, v9, v10, v11, v12, v13, v14, v15>>
layervars == <<layer, others, vars>>

\* Blocks whose bytes differ, so that a misplaced byte is seen.
Op(name, at, n) ==
  [name |-> name, at |-> at, len |-> n, byte |-> [i \in 0 .. n - 1 |-> IF i = 0 THEN x ELSE y]]

BufferOps ==
  {Op("new", 0, n) : n \in {0, 2}}
    \cup {Op("free", 0, 0), Op("clear", 0, 0), Op("reserve", 0, 5)}
    \cup {Op("resize", 0, 3)}
    \cup {Op("append", 0, 1), Op("prepend", 0, 2)}
    \cup {Op("insert", at, 3) : at \in {0, 1}} \cup {Op("insert", 1, 1)}
    \cup {Op("slice", 1, n) : n \in {0, 1}}

\* No timeout, a poll and a wait; and frames without bytes, with the special
\* bytes, and with a byte that only looks like an escaped one.
LayerTimeouts == {-1, 0, 2}
LayerPayloads == {<<>>, <<END>>, <<ESC, END>>} \cup {<<XESC, c>> : c \in PlainBytes}

Packet == INSTANCE Packet WITH
  Sizes <- PacketSizes,
  isize <- v1, osize <- v2, cache <- v3, pending <- v4, arrived <- v5, empties <- v6,
  lost <- v7, got <- v8, pc <- v9, size <- v10, nbytes <- v11, status <- v12, wire <- v13,
  written <- v14

Hdlc == INSTANCE Hdlc WITH
  OSizes <- WriteSizes, Sizes <- FrameSizes,
  osize <- v1, wpc <- v2, todo <- v3, wbuf <- v4, wire <- v5, rbuf <- v6, rpc <- v7,
  initialized <- v8, escaped <- v9, data <- v10, size <- v11, rstatus <- v12, sent <- v13,
  received <- v14, intact <- v15

Transport == INSTANCE Transport WITH
  Sizes <- CallSizes, MaxArrived <- MaxLine,
  kind <- v1, timeout <- v2, line <- v3, arrived <- v4, op <- v5, pc <- v6, size <- v7,
  nbytes <- v8, data <- v9, remaining <- v10, left <- v11, spent <- v12, signals <- v13,
  closed <- v14, status <- v15

ASSUME LayersAssumption ==
  /\ BufferAssumption /\ Packet!PacketAssumption /\ Hdlc!HdlcAssumption
  /\ Transport!TransportAssumption

LayersInit ==
  /\ Init
  /\ \/ /\ layer = "buffer" /\ v1 = 0 /\ v2 = 0 /\ v3 = 0 /\ v4 = 0 /\ v5 = 0 /\ v6 = 0 /\ v7 = 0
        /\ v8 = 0 /\ v9 = 0 /\ v10 = 0 /\ v11 = 0 /\ v12 = 0 /\ v13 = 0 /\ v14 = 0 /\ v15 = 0
     \/ layer = "packet" /\ Packet!Init /\ v15 = 0
     \/ layer = "hdlc" /\ Hdlc!Init
     \/ layer = "transport" /\ Transport!Init

LayersNext ==
  \/ layer = "buffer" /\ Next /\ UNCHANGED <<layer, others>>
  \/ layer = "packet" /\ Packet!Next /\ UNCHANGED <<layer, vars, v15>>
  \/ layer = "hdlc" /\ Hdlc!Next /\ UNCHANGED <<layer, vars>>
  \/ layer = "transport" /\ Transport!Next /\ UNCHANGED <<layer, vars>>

InPacket == layer = "packet" /\ UNCHANGED <<layer, vars, v15>>
InHdlc   == layer = "hdlc" /\ UNCHANGED <<layer, vars>>

\* The transport answers every call, the loops of the layers go on and time
\* passes: the fairness of Packet!FairSpec, Hdlc!FairSpec and Transport!Spec.
LayersSpec ==
  /\ LayersInit /\ [][LayersNext]_layervars
  /\ WF_layervars(InPacket /\ (Packet!Fill \/ Packet!ReadThrough \/ Packet!ReadFails))
  /\ WF_layervars(InPacket /\ ((\E n \in 1 .. Packet!PacketSize : Packet!WritePacket(n))
                            \/ Packet!WriteFails))
  /\ WF_layervars(InPacket /\ Packet!CopyOut) /\ WF_layervars(InPacket /\ Packet!Return)
  /\ WF_layervars(InHdlc /\ (Hdlc!ReadChunk \/ Hdlc!ReadFails))
  /\ WF_layervars(InHdlc /\ (Hdlc!ReadEnd \/ Hdlc!ReadNoise \/ Hdlc!ReadEscape \/ Hdlc!ReadByte))
  /\ WF_layervars(layer = "transport" /\ Transport!Step /\ UNCHANGED <<layer, vars>>)

-----------------------------------------------------------------------------
\* Types, and the bounds of the buffers of both layers: what is read into the
\* cache of the packet layer fits, and the HDLC layer always has room for the
\* byte it writes before it looks.
TypeOK ==
  /\ layer = "packet" => Packet!TypeOK
  /\ layer = "hdlc" => Hdlc!TypeOK
  /\ layer = "transport" => Transport!TypeOK

\* dc_packet_read hands out the bytes in the order they arrived, none twice
\* and none skipped but the ones a purge discarded.  So do the reads of the
\* transports, in whatever pieces the bytes come and whatever interrupts the
\* call, and a read that succeeds has all of its bytes.
BytesInOrder ==
  /\ layer = "packet" => Packet!BytesInOrder
  /\ layer = "transport" => Transport!BytesInOrder

\* dc_packet_write sends the bytes of the caller in order, in packets of at
\* most osize.
PacketsFit == layer = "packet" => Packet!PacketsFit

\* The n-th dc_hdlc_read returns the n-th frame written, unless something
\* failed since the last purge.
FramesArrive == layer = "hdlc" => Hdlc!FramesArrive

\* Every call of dc_packet_read and dc_packet_write, and every dc_hdlc_read,
\* returns, and so does every call of a transport that has a timeout: a serial
\* read within that time, and none gives up before it.
CallsReturn ==
  /\ (layer = "packet" /\ v9 # "idle") ~> (layer = "packet" /\ v9 = "idle")
  /\ (layer = "hdlc" /\ v7 = "read") ~> (layer = "hdlc" /\ v7 = "idle")
  /\ (layer = "transport" /\ v6 # "idle" /\ (v5 = "write" \/ v2 >= 0))
       ~> (layer = "transport" /\ v6 = "idle")
  /\ [](layer = "transport" => Transport!InTime)
=============================================================================
