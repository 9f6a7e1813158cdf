---------------------------- MODULE MCTransfers ----------------------------
(***************************************************************************)
(* The request and answer protocols under faults of the line: one of the   *)
(* thirteen drivers of CommandTransfer, the Shearwater protocol, the files *)
(* of the EON Steel, or the pages of the Atom 2.  What they do not share   *)
(* is in v1 .. v12, as the INSTANCEs say.                                  *)
(*                                                                         *)
(* command: two downloads of two blocks, up to three faults: every driver  *)
(*   but the iDive gets to the end of its retries.                         *)
(* shearwater: dives of up to three values and the end, followed by one    *)
(*   more value, in blocks of two: the end is in the first, a middle or    *)
(*   the last block, at its begin or its end.  Two bytes make a row, the   *)
(*   block counter wraps at two, and a session has five downloads.         *)
(* eonsteel: two downloads of up to four files, with a directory or a file *)
(*   without a proper name among them, and up to three faults.             *)
(* pages: pages of two bytes and big pages of two of them, a low and a     *)
(*   high memory, and three reads or writes.                               *)
(***************************************************************************)
EXTENDS Integers, Sequences

CONSTANT Kinds       \* the protocols of this run

VARIABLES
  kind,              \* the protocol
  line, late, faults, call, block, pc, got, status,
  v1, v2, v3, v4, v5, v6, v7, v8, v9, v10, v11, v12

wire  == <<line, late, faults, block, got>>
rest9 == <<v9, v10, v11, v12>>
rest7 == <<v7, v8, rest9>>
vars  == <<kind, line, late, faults, call, block, pc, got, status, v1, v2, v3, v4, v5, v6, rest7>>

Value(op, arg) == [op |-> op, arg |-> arg]
Values == {Value("byte", 1), Value("run", 1), Value("run", 2)}

Command == INSTANCE CommandTransfer WITH
  NBlocks <- 2, MaxCalls <- 2, MaxFaults <- 3,
  p <- v1, seen <- v2, cancelled <- v3, part <- v4, nretries <- v5, data <- v6

Shearwater == INSTANCE ShearwaterDownload WITH
  Streams <- {s \o <<Value("end", 0), Value("byte", 1)>> :
                s \in UNION {[1 .. n -> Values] : n \in 0 .. 3}},
  Manifest <- <<Value("byte", 1), Value("byte", 0), Value("byte", 1)>>,
  BlockLen <- 2, BlockMod <- 2, RowSize <- 2, MaxCalls <- 5, MaxFaults <- 3,
  stream <- v1, area <- v2, sent <- v3, step <- v4, request <- v5, nbytes <- v6,
  done <- v7, buffer <- v8

Entry(name, type) == [name |-> name, type |-> type]

EonSteel == INSTANCE EonSteelDownload WITH
  Listings <- {<<>>,
               <<Entry(1, "file"), Entry(3, "file"), Entry(2, "dir")>>,
               <<Entry(2, "file"), Entry(1, "other"), Entry(3, "file")>>,
               <<Entry(4, "file"), Entry(2, "file"), Entry(1, "file"), Entry(3, "file")>>},
  PageLen <- 2, SEQ_MOD <- 8, MaxCalls <- 2, MaxFaults <- 3,
  usb <- v1, entries <- v2, shown <- v3, file <- v4, sent <- v5, fingerprint <- v6,
  request <- v7, seq <- v8, list <- v9, skip <- v10, size <- v11, buffer <- v12

Pages == INSTANCE Atom2Pages WITH
  PAGESIZE <- 2, Big <- 2, HIGHMEM <- 8, Memory <- 12, MaxCalls <- 3,
  layout <- v1, mem <- v2, cached <- v3, cache <- v4, address <- v5, size <- v6,
  nbytes <- v7, data <- v8

ASSUME KindsAssumption ==
  /\ Kinds \subseteq {"command", "shearwater", "eonsteel", "pages"}
  /\ Command!TransferAssumption /\ Shearwater!ShearwaterAssumption
  /\ EonSteel!EonSteelAssumption /\ Pages!PagesAssumption

Unused9 == v9 = 0 /\ v10 = 0 /\ v11 = 0 /\ v12 = 0

Init ==
  /\ kind \in Kinds
  /\ \/ kind = "command" /\ Command!Init /\ v7 = 0 /\ v8 = 0 /\ Unused9
     \/ kind = "shearwater" /\ Shearwater!Init /\ Unused9
     \/ kind = "eonsteel" /\ EonSteel!Init /\ block = 0
     \/ kind = "pages" /\ Pages!Init /\ line = 0 /\ late = 0 /\ faults = 0 /\ block = 0 /\ got = 0 /\ Unused9

Next ==
  \/ kind = "command" /\ Command!Next /\ UNCHANGED <<kind, rest7>>
  \/ kind = "shearwater" /\ Shearwater!Next /\ UNCHANGED <<kind, rest9>>
  \/ kind = "eonsteel" /\ EonSteel!Next /\ UNCHANGED <<kind, block>>
  \/ kind = "pages" /\ Pages!Next /\ UNCHANGED <<kind, wire, rest9>>

Spec == Init /\ [][Next]_vars

-----------------------------------------------------------------------------
\* Types; the retries stay within MAXRETRIES, and no download of an area goes
\* on beyond its end.
TypeOK ==
  /\ kind = "command" => Command!TypeOK
  /\ kind = "shearwater" => Shearwater!TypeOK
  /\ kind = "eonsteel" => EonSteel!TypeOK
  /\ kind = "pages" => Pages!TypeOK

\* Whatever is lost, late or damaged within the limits of the protocol, a
\* driver never stores the answer to another request as the answer to this
\* one, and what it decompresses is what the device has compressed.  A dive
\* has the bytes of its own file, and a read those the memory holds now.
DataIntact ==
  /\ kind = "command" => Command!DataIntact
  /\ kind = "shearwater" => Shearwater!DataIntact
  /\ kind = "eonsteel" => EonSteel!DataIntact
  /\ kind = "pages" => Pages!DataIntact

\* A download only fails if more goes wrong than the retries of its driver
\* are meant for; the Shearwater and the EON Steel protocols have none, and
\* only fail after a fault; a success of the EON Steel is complete.
Recovers ==
  /\ kind = "command" => Command!Recovers
  /\ kind = "shearwater" => Shearwater!FaultFree
  /\ kind = "eonsteel" => EonSteel!Completes

\* suunto_common2.c:71: "Automatically discard a corrupted packet, and request
\* a new one."  One corrupted part does not make a transfer fail.
CorruptDiscarded == kind = "command" => Command!CorruptDiscarded
=============================================================================
