-------------------------- MODULE CommandTransfer --------------------------
(***************************************************************************)
(* Reading the memory of a dive computer in blocks, one command and one    *)
(* answer per block, over a line that loses, corrupts and delays bytes.    *)
(* Most drivers have the same two functions for it: xxx_packet sends the   *)
(* command and reads and verifies the answer, xxx_transfer calls it again  *)
(* after a failure.  They differ in what is read in which order, what is   *)
(* verified, how often a command is repeated, and whether the input is     *)
(* purged; a record describes each of them.                                *)
(*                                                                         *)
(* An answer is a sequence of parts.  A part that was corrupted is "junk". *)
(* A checksum is taken to detect every corruption and every mixture of two *)
(* answers.  A late answer arrives after the driver has given up on it:    *)
(* during its pause, or (it is overdue then) after the pause.              *)
(***************************************************************************)
EXTENDS Integers, Sequences, SequencesExt, FiniteSets

CONSTANTS
  NBlocks,      \* the blocks of the memory
  MaxCalls,     \* bound: the downloads of a session
  MaxFaults     \* bound: the answers that go wrong

TransferAssumption ==
  NBlocks \in Nat \ {0} /\ MaxCalls \in Nat /\ MaxFaults \in Nat

(***************************************************************************)
(* The drivers.  A read takes the given parts.  An exact read fails with   *)
(* PROTOCOL if a part is wrong, a loose one takes anything, a scan skips   *)
(* parts until the right one comes, and after a final read that failed the *)
(* command is not repeated.                                                *)
(***************************************************************************)
Exact(kinds) == [mode |-> "exact", kinds |-> kinds]
Loose(kinds) == [mode |-> "loose", kinds |-> kinds]
Scan(kind)   == [mode |-> "scan", kinds |-> <<kind>>]
Final(kinds) == [mode |-> "final", kinds |-> kinds]

Packet == Exact(<<"head", "data", "sum">>)

\* sum: the data is protected by a checksum; tag: the answer repeats the
\* address; naks: the refusals of the device; fatal: those not retried;
\* purge: on every retry, on every send, or never.
mares_common ==
  [name |-> "mares_common", reads |-> <<Loose(<<"echo">>), Packet>>,
   sum |-> TRUE, tag |-> FALSE, naks |-> {}, fatal |-> {}, retries |-> 4, purge |-> "retry"]

cressi_edy ==
  [name |-> "cressi_edy", reads |-> <<Exact(<<"echo">>), Loose(<<"data">>), Exact(<<"tail">>)>>,
   sum |-> FALSE, tag |-> FALSE, naks |-> {}, fatal |-> {}, retries |-> 4, purge |-> "retry"]

cressi_leonardo ==
  [name |-> "cressi_leonardo", reads |-> <<Packet>>,
   sum |-> TRUE, tag |-> FALSE, naks |-> {}, fatal |-> {}, retries |-> 4, purge |-> "retry"]

oceanic_vtpro ==
  [name |-> "oceanic_vtpro", reads |-> <<Exact(<<"ack">>), Final(<<"data", "sum">>)>>,
   sum |-> TRUE, tag |-> FALSE, naks |-> {<<"nak">>}, fatal |-> {}, retries |-> 2, purge |-> "none"]

oceanic_veo250 ==
  [name |-> "oceanic_veo250", reads |-> <<Exact(<<"ack">>), Final(<<"data", "sum">>)>>,
   sum |-> TRUE, tag |-> FALSE, naks |-> {<<"nak">>}, fatal |-> {}, retries |-> 2, purge |-> "send"]

oceanic_atom2 ==
  [name |-> "oceanic_atom2", reads |-> <<Exact(<<"ack", "data", "sum">>)>>,
   sum |-> TRUE, tag |-> FALSE, naks |-> {<<"nak">>}, fatal |-> {"nak"}, retries |-> 2, purge |-> "retry"]

\* "data" stands for the length, the payload and the checksum of a frame.
divesystem_idive ==
  [name |-> "divesystem_idive", reads |-> <<Scan("start"), Exact(<<"data">>)>>,
   sum |-> TRUE, tag |-> FALSE, naks |-> {<<"start", "nak">>, <<"start", "busy">>},
   fatal |-> {"nak"}, retries |-> 9, purge |-> "none"]

seac_screen ==
  [name |-> "seac_screen", reads |-> <<Scan("start"), Exact(<<"data">>)>>,
   sum |-> TRUE, tag |-> FALSE, naks |-> {<<"start", "nak">>}, fatal |-> {}, retries |-> 4, purge |-> "retry"]

liquivision_lynx ==
  [name |-> "liquivision_lynx", reads |-> <<Packet>>,
   sum |-> TRUE, tag |-> FALSE, naks |-> {}, fatal |-> {}, retries |-> 2, purge |-> "retry"]

\* The packets of a fixed size, over BLE.
mares_iconhd ==
  [name |-> "mares_iconhd", reads |-> <<Scan("ack"), Loose(<<"data">>), Exact(<<"tail">>)>>,
   sum |-> FALSE, tag |-> FALSE, naks |-> {}, fatal |-> {}, retries |-> 4, purge |-> "retry"]

sporasub_sp2 ==
  [name |-> "sporasub_sp2", reads |-> <<Packet>>,
   sum |-> TRUE, tag |-> FALSE, naks |-> {}, fatal |-> {}, retries |-> 4, purge |-> "retry"]

suunto_d9 ==
  [name |-> "suunto_d9", reads |-> <<Exact(<<"echo">>), Packet>>,
   sum |-> TRUE, tag |-> TRUE, naks |-> {}, fatal |-> {}, retries |-> 2, purge |-> "none"]

suunto_vyper2 ==
  [name |-> "suunto_vyper2", reads |-> <<Packet>>,
   sum |-> TRUE, tag |-> TRUE, naks |-> {}, fatal |-> {}, retries |-> 2, purge |-> "none"]

Protocols ==
  {mares_common, cressi_edy, cressi_leonardo, oceanic_vtpro, oceanic_veo250, oceanic_atom2,
   divesystem_idive, seac_screen, liquivision_lynx, mares_iconhd, sporasub_sp2, suunto_d9,
   suunto_vyper2}

VARIABLES
  p,                     \* the driver
  line, late,            \* what has been received and not read; what is still to come
  seen, faults,          \* what went wrong so far
  cancelled,             \* the application has cancelled the download
  call, block,           \* the download, the block it is at
  pc, part, nretries,    \* inside a transfer
  data,                  \* the data read in this attempt
  got, status            \* the blocks read, and the result

wire == <<line, late, seen, faults>>
vars == <<p, wire, cancelled, call, block, pc, part, nretries, data, got, status>>

-----------------------------------------------------------------------------
Part(kind, b) == [kind |-> kind, of |-> b]

\* Everything the line carries for a command, the echo included: the parts of
\* all reads, of which no driver has more than three.
Answer(b) ==
  LET KindsOf(k) == IF k \in DOMAIN p.reads THEN p.reads[k].kinds ELSE <<>>
      kinds      == KindsOf(1) \o KindsOf(2) \o KindsOf(3)
  IN  [i \in DOMAIN kinds |-> Part(kinds[i], b)]

Refusals(b) == {[i \in DOMAIN nak |-> Part(nak[i], b)] : nak \in p.naks}

\* An answer with one part lost or corrupted.
Cuts(s)  == {RemoveAt(s, i) : i \in DOMAIN s}
Junks(s) == {ReplaceAt(s, i, Part("junk", 0)) : i \in DOMAIN s}

Nothing == Part("none", 0)

Init ==
  /\ p \in Protocols
  /\ line = <<>> /\ late = <<>> /\ seen = {} /\ faults = 0 /\ cancelled = FALSE
  /\ call = 0 /\ block = 1 /\ pc = "idle" /\ part = 1 /\ nretries = 0
  /\ data = Nothing /\ got = <<>> /\ status = "none"

Foreach ==
  /\ pc = "idle" /\ call < MaxCalls
  /\ call' = call + 1 /\ block' = 1 /\ pc' = "send" /\ nretries' = 0
  /\ got' = <<>> /\ status' = "none" /\ cancelled' = FALSE
  /\ UNCHANGED <<p, wire, part, data>>

Cancel ==
  /\ pc # "idle" /\ ~cancelled /\ cancelled' = TRUE
  /\ UNCHANGED <<p, wire, call, block, pc, part, nretries, data, got, status>>

Fail(s) ==
  pc' = "idle" /\ status' = s /\ UNCHANGED nretries

\* xxx_packet looks at the cancellation first.
Cancelled ==
  /\ pc = "send" /\ cancelled
  /\ Fail("CANCELLED")
  /\ UNCHANGED <<p, wire, cancelled, call, block, part, data, got>>

Kept == IF p.purge = "send" THEN <<>> ELSE line

\* The command is sent; the answer comes whole, damaged, late or not at all.
Send ==
  LET a == Answer(block)
      Arrives(s) == /\ line' = Kept \o late \o s /\ late' = <<>>
                    /\ seen' = IF late = <<>> THEN seen ELSE seen \cup {"overdue"}
      Faulty(kind) == faults < MaxFaults /\ faults' = faults + 1 /\ seen' = seen \cup {kind}
  IN  /\ pc = "send" /\ ~cancelled
      /\ pc' = "read" /\ part' = 1 /\ data' = Nothing
      /\ \/ Arrives(a) /\ UNCHANGED faults
         \/ Faulty("lost") /\ line' = Kept /\ UNCHANGED late
         \/ Faulty("late") /\ line' = Kept /\ late' = late \o a
         \/ late = <<>> /\ Faulty("cut") /\ (\E s \in Cuts(a) : line' = Kept \o s) /\ UNCHANGED late
         \/ late = <<>> /\ Faulty("junk") /\ (\E s \in Junks(a) : line' = Kept \o s) /\ UNCHANGED late
         \/ late = <<>> /\ Faulty("nak") /\ (\E s \in Refusals(block) : line' = Kept \o s) /\ UNCHANGED late
      /\ UNCHANGED <<p, cancelled, call, block, nretries, got, status>>

-----------------------------------------------------------------------------
Current == p.reads[part]

\* Mutant: a timeout is not worth another attempt.
Retryable_NotTimeout(s) == s = "PROTOCOL"

Retryable(s) == s \in {"PROTOCOL", "TIMEOUT"}

\* Mutant: one retry too many.
Attempt_Unbounded(s) ==
  IF Retryable(s) /\ Current.mode # "final" /\ nretries <= p.retries
    THEN pc' = "pause" /\ nretries' = nretries + 1 /\ UNCHANGED status
    ELSE Fail(s)

\* The end of an attempt that failed: another one, or the result of the transfer.
Attempt(s) ==
  IF Retryable(s) /\ Current.mode # "final" /\ nretries < p.retries
    THEN pc' = "pause" /\ nretries' = nretries + 1 /\ UNCHANGED status
    ELSE Fail(s)

\* The part is what was expected there, and belongs to the block if the
\* protocol can tell.
Fits(t, kind) ==
  /\ t.kind = kind
  /\ (p.tag \/ kind = "echo") => t.of = block

\* The parts a checksum covers come from one answer.
OneAnswer(s) == p.sum => \A i, j \in DOMAIN s : s[i].of = s[j].of

Valid(s, kinds) == OneAnswer(s) /\ \A i \in DOMAIN s : Fits(s[i], kinds[i])

DataOf(s) ==
  LET at == {i \in DOMAIN s : Current.kinds[i] = "data"}
  IN  IF at = {} THEN data ELSE s[CHOOSE i \in at : TRUE]

\* The transfer has succeeded: the block is stored, and the next is asked for.
Store(d) ==
  /\ got' = Append(got, IF d.kind = "data" THEN d.of ELSE 0)
  /\ nretries' = 0
  /\ IF block = NBlocks
       THEN pc' = "idle" /\ status' = "SUCCESS" /\ UNCHANGED block
       ELSE pc' = "send" /\ block' = block + 1 /\ UNCHANGED status

\* A read of the parts of one step: dc_iostream_read waits for all of them,
\* and keeps what it has got when it times out.
ReadShort ==
  /\ pc = "read" /\ Current.mode # "scan" /\ Len(line) < Len(Current.kinds)
  /\ line' = <<>>
  /\ Attempt("TIMEOUT")
  /\ UNCHANGED <<p, late, seen, faults, cancelled, call, block, part, data, got>>

Refused(s) == \E i \in DOMAIN s : s[i].kind \in p.fatal

ReadParts ==
  LET n == Len(Current.kinds)
      s == SubSeq(line, 1, n)
  IN  /\ pc = "read" /\ Current.mode # "scan" /\ Len(line) >= n
      /\ line' = SubSeq(line, n + 1, Len(line))
      /\ IF Current.mode = "loose" \/ Valid(s, Current.kinds)
           THEN IF part = Len(p.reads)
                  THEN Store(DataOf(s)) /\ UNCHANGED <<part, data>>
                  ELSE part' = part + 1 /\ data' = DataOf(s)
                       /\ UNCHANGED <<block, pc, nretries, got, status>>
           ELSE /\ IF Refused(s) THEN Fail("REFUSED") ELSE Attempt("PROTOCOL")
                /\ UNCHANGED <<block, part, data, got>>
      /\ UNCHANGED <<p, late, seen, faults, cancelled, call>>

\* Parts are skipped one by one until the first of an answer.
ReadScan ==
  /\ pc = "read" /\ Current.mode = "scan"
  /\ IF line = <<>>
       THEN Attempt("TIMEOUT") /\ UNCHANGED <<line, part>>
       ELSE /\ line' = Tail(line)
            /\ part' = IF Head(line).kind = Current.kinds[1] THEN part + 1 ELSE part
            /\ UNCHANGED <<pc, nretries, status>>
  /\ UNCHANGED <<p, late, seen, faults, cancelled, call, block, data, got>>

\* Mutant: the input is not purged.
Purged_Kept(s) == s

Purged(s) == IF p.purge = "retry" THEN <<>> ELSE s

\* The pause before another attempt: a late answer comes in time to be purged,
\* or it is still to come.
Pause ==
  /\ pc = "pause" /\ pc' = "send"
  /\ \/ line' = Purged(line \o late) /\ late' = <<>>
     \/ late # <<>> /\ line' = Purged(line) /\ UNCHANGED late
  /\ UNCHANGED <<p, seen, faults, cancelled, call, block, part, nretries, data, got, status>>

\* A late answer comes between two commands.
Arrive ==
  /\ late # <<>> /\ pc \in {"send", "idle"}
  /\ line' = line \o late /\ late' = <<>> /\ seen' = seen \cup {"overdue"}
  /\ UNCHANGED <<p, faults, cancelled, call, block, pc, part, nretries, data, got, status>>

Finished == pc = "idle" /\ call = MaxCalls /\ late = <<>> /\ UNCHANGED vars

Next ==
  \/ Foreach
  \/ Cancel
  \/ Cancelled
  \/ Send
  \/ ReadShort
  \/ ReadParts
  \/ ReadScan
  \/ Pause
  \/ Arrive
  \/ Finished

Spec == Init /\ [][Next]_vars

-----------------------------------------------------------------------------
TypeOK ==
  /\ pc \in {"idle", "send", "read", "pause"} /\ part \in DOMAIN p.reads
  /\ nretries \in 0 .. p.retries /\ block \in 1 .. NBlocks
  /\ status \in {"none", "SUCCESS", "CANCELLED", "TIMEOUT", "PROTOCOL", "REFUSED"}
  /\ status = "SUCCESS" => Len(got) = NBlocks

\* After a failure the line is in step again: the input is purged, or the
\* start of the next answer is looked for.
Resynchronizes == p.purge # "none" \/ \E i \in DOMAIN p.reads : p.reads[i].mode = "scan"

\* What can put a wrong block into the dump.  Corruption, if the protocol has no
\* checksum.  If the answers do not repeat the address: a late answer, unless
\* it comes in time to be purged, and whatever leaves a part in the line of a
\* driver that does not get into step again.
Hazards ==
  (IF p.sum THEN {} ELSE {"junk"})
    \cup (IF p.tag THEN {} ELSE {"overdue"})
    \cup (IF p.tag \/ p.purge # "none" THEN {} ELSE {"late"})
    \cup (IF p.tag \/ Resynchronizes THEN {} ELSE {"cut", "junk"})

\* Whatever else goes wrong, every block a driver stores is the one it asked
\* for: after lost, damaged, refused and late answers, retries, failed and
\* cancelled downloads of the same session, its xxx_transfer never returns the
\* answer to another command.
DataIntact == seen \cap Hazards = {} => \A k \in DOMAIN got : got[k] = k

Acknowledged == \E i \in DOMAIN p.reads : p.reads[i].mode = "final"

\* What the retries are for.  A driver that waits for an acknowledgement only
\* repeats commands that got none.  One that does not get into step again has
\* no use for an answer of which something is left over: with an echo that is
\* every damaged one.
Tolerated ==
  {"lost"}
    \cup (IF p.fatal = {} THEN {"nak"} ELSE {})
    \cup (IF Acknowledged \/ (~Resynchronizes /\ Len(p.reads) > 1) THEN {} ELSE {"cut", "junk"})
    \cup (IF Acknowledged \/ ~Resynchronizes THEN {} ELSE {"late"})

\* As long as no more answers go wrong than the driver has retries, and only in
\* the ways it tolerates, no download of the session fails.
Recovers ==
  (faults <= p.retries /\ seen \subseteq Tolerated) => status \in {"none", "SUCCESS", "CANCELLED"}

\* "Automatically discard a corrupted packet, and request a new one": one
\* corrupted part does not make a transfer of the drivers that use
\* suunto_common2_transfer fail.
CorruptDiscarded ==
  (p \in {suunto_d9, suunto_vyper2} /\ faults = 1 /\ seen = {"junk"}) => status \in {"none", "SUCCESS", "CANCELLED"}
=============================================================================
