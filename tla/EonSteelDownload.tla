-------------------------- MODULE EonSteelDownload --------------------------
(***************************************************************************)
(* The file protocol of a Suunto EON Steel (suunto_eonsteel.c): the files  *)
(* of the directory of dives are listed, sorted, and read one by one.      *)
(*                                                                         *)
(* Every command has a sequence number that its answer repeats with the    *)
(* command itself.  There is no retry and nothing is purged; a file that   *)
(* cannot be read is skipped, and the download goes on with the next one.  *)
(* The sequence number only counts the commands that were answered: after  *)
(* a failure the next command has the number of the one that failed, and   *)
(* the first thing it reads is the answer that came late.                  *)
(*                                                                         *)
(* A file is its name, a later name is a newer dive, and its contents are  *)
(* its chunks.  Over USB an answer with data comes in more than one packet *)
(* and only the first of them has a header.  The device is external: it    *)
(* receives every command and answers in order; answers may be lost,       *)
(* damaged (which the checksum of BLE detects) or late.                    *)
(***************************************************************************)
EXTENDS Integers, Sequences, SequencesExt, FiniteSetsExt

CONSTANTS
  Listings,     \* the directories: sequences of entries, as the device lists them
  PageLen,      \* the entries of an answer to a readdir command
  SEQ_MOD,       \* the sequence number wraps at this number (65536)
  MaxCalls,     \* bound: the downloads of a session
  MaxFaults     \* bound: the answers lost, damaged or late

EonSteelAssumption ==
  /\ PageLen \in Nat \ {0} /\ SEQ_MOD \in Nat \ {0} /\ MaxCalls \in Nat /\ MaxFaults \in Nat

VARIABLES
  usb, entries,            \* the device: its transport, its directory
  shown, file, sent,       \* the entries shown so far, the open file, the chunks sent of it
  line, late, faults,      \* packets received and not read; packets still to come
  fingerprint,
  call, pc, request, seq,  \* the driver: the command to send, or sent
  list, skip,              \* the entries left, and why the rest of them is skipped
  size, buffer,            \* the chunks left of the file, and those read
  got, status              \* the dives handed out, each with its chunks

device == <<usb, entries, shown, file, sent>>
wire   == <<line, late, faults>>
vars   == <<device, wire, fingerprint, call, pc, request, seq, list, skip, size, buffer, got, status>>

Chunks(name) == [k \in 1 .. 1 + (name % 2) |-> <<name, k>>]

-----------------------------------------------------------------------------
(***************************************************************************)
(* The device.                                                             *)
(***************************************************************************)
Page == SubSeq(entries, shown + 1, IF shown + PageLen < Len(entries) THEN shown + PageLen ELSE Len(entries))

Body(r) ==
  CASE r.op = "READDIR" -> [entries |-> Page, last |-> shown + Len(Page) = Len(entries)]
    [] r.op = "STAT"    -> Len(Chunks(file))
    [] r.op = "READ"    -> Chunks(file)[sent + 1]
    [] OTHER            -> 0

\* The packets of an answer: one of them has no header.
Packets(r) ==
  LET header == [op |-> r.op, seq |-> seq, body |-> Body(r)]
  IN  IF usb /\ r.op = "READ" THEN <<header, [op |-> "DATA", seq |-> -1, body |-> 0]>> ELSE <<header>>

Serve(r) ==
  /\ shown' = CASE r.op = "DIROPEN" -> 0 [] r.op = "READDIR" -> shown + Len(Page) [] OTHER -> shown
  /\ file'  = IF r.op = "OPEN" THEN r.name ELSE file
  /\ sent'  = CASE r.op = "OPEN" -> 0 [] r.op = "READ" -> sent + 1 [] OTHER -> sent
  /\ UNCHANGED <<usb, entries>>

\* The device does not answer a read without an open file, or behind its end.
Served(r) == r.op \in {"STAT", "READ", "CLOSE"} => file # 0 /\ (r.op = "READ" => sent < Len(Chunks(file)))

Command(op, name) == [op |-> op, name |-> name]

Init ==
  /\ usb \in BOOLEAN /\ entries \in Listings
  /\ shown = 0 /\ file = 0 /\ sent = 0 /\ line = <<>> /\ late = <<>> /\ faults = 0
  /\ fingerprint \in {0} \cup {entries[k].name : k \in DOMAIN entries}
  /\ call = 0 /\ pc = "idle" /\ request = Command("DIROPEN", 0) /\ seq = 0
  /\ list = <<>> /\ skip = "" /\ size = 0 /\ buffer = <<>> /\ got = <<>> /\ status = "none"

-----------------------------------------------------------------------------
\* The application starts a download; the device stays open between them.
Foreach ==
  /\ pc = "idle" /\ call < MaxCalls /\ call' = call + 1
  /\ pc' = "send" /\ request' = Command("DIROPEN", 0)
  /\ list' = <<>> /\ skip' = "" /\ got' = <<>> /\ status' = "SUCCESS"
  /\ UNCHANGED <<device, wire, fingerprint, seq, size, buffer>>

\* The answer comes, comes too late, or not at all.  Answers are not
\* reordered: behind a late one they wait.
suunto_eonsteel_send ==
  /\ pc = "send" /\ pc' = "receive"
  /\ IF ~Served(request) THEN UNCHANGED <<device, wire>> ELSE
       /\ Serve(request)
       /\ \/ /\ late = <<>> /\ line' = line \o Packets(request) /\ UNCHANGED <<late, faults>>
          \/ /\ late # <<>> /\ late' = late \o Packets(request) /\ UNCHANGED <<line, faults>>
          \/ /\ faults < MaxFaults /\ faults' = faults + 1
             /\ \/ late' = late \o Packets(request) /\ UNCHANGED line
                \/ UNCHANGED <<late, line>>
                \/ ~usb /\ late = <<>> /\ UNCHANGED late
                   /\ line' = Append(line, [op |-> "DAMAGED", seq |-> -1, body |-> 0])
                \/ usb /\ Len(Packets(request)) = 2 /\ late = <<>>
                   /\ line' = Append(line, Packets(request)[1]) /\ late' = Tail(Packets(request))
  /\ UNCHANGED <<fingerprint, call, request, seq, list, skip, size, buffer, got, status>>

Arrive ==
  /\ late # <<>>
  /\ line' = Append(line, Head(late)) /\ late' = Tail(late)
  /\ UNCHANGED <<device, faults, fingerprint, call, pc, request, seq, list, skip, size, buffer, got, status>>

\* dc_status_set_error: the first error stays.
SetError(s) == status' = IF status = "SUCCESS" THEN s ELSE status

Listing == request.op \in {"DIROPEN", "READDIR", "DIRCLOSE"}

\* get_file_list gives up the download, read_file only the file.
Fails(s) ==
  /\ SetError(s)
  /\ pc' = IF Listing THEN "idle" ELSE "next"
  /\ UNCHANGED <<request, seq, list, skip, size, buffer, got>>

Timeout ==
  /\ pc = "receive" /\ line = <<>>
  /\ Fails("TIMEOUT")
  /\ UNCHANGED <<device, wire, fingerprint, call>>

\* Mutant: the sequence number in the answer is not compared.
Verified_NoSequence(a) == a.op = request.op

Verified(a) == a.op = request.op /\ a.seq = seq

\* Mutant: the entries are listed as the device sends them.
insert_dirent_Last(e, l) == Append(l, e)

\* The most recent entry first: in front of the first one with an earlier name.
insert_dirent(e, l) ==
  LET k == Min({Len(l) + 1} \cup {j \in DOMAIN l : e.name > l[j].name}) IN InsertAt(l, k, e)

parse_dirent(es, l) == FoldLeft(LAMBDA acc, e : insert_dirent(e, acc), l, es)

Proceed(r) == pc' = "send" /\ request' = r

\* The callback takes the dive, and may ask to stop.
HandOut ==
  /\ got' = Append(got, [name |-> request.name, data |-> buffer])
  /\ skip' \in {"", "stopped"} /\ pc' = "next" /\ UNCHANGED request

\* What get_file_list and read_file do with the answer, and the next command.
Answered(body) ==
  CASE request.op = "DIROPEN"  -> Proceed(Command("READDIR", 0)) /\ UNCHANGED <<list, skip, size, buffer, got>>
    [] request.op = "READDIR"  -> /\ list' = parse_dirent(body.entries, list)
                                  /\ Proceed(Command(IF body.last THEN "DIRCLOSE" ELSE "READDIR", 0))
                                  /\ UNCHANGED <<skip, size, buffer, got>>
    [] request.op = "DIRCLOSE" -> pc' = "next" /\ UNCHANGED <<request, list, skip, size, buffer, got>>
    [] request.op = "OPEN"     -> Proceed(Command("STAT", request.name)) /\ UNCHANGED <<list, skip, size, buffer, got>>
    [] request.op = "STAT"     -> /\ size' = body
                                  /\ Proceed(Command(IF body > 0 THEN "READ" ELSE "CLOSE", request.name))
                                  /\ UNCHANGED <<list, skip, buffer, got>>
    [] request.op = "READ"     -> /\ buffer' = Append(buffer, body) /\ size' = size - 1
                                  /\ Proceed(Command(IF size > 1 THEN "READ" ELSE "CLOSE", request.name))
                                  /\ UNCHANGED <<list, skip, got>>
    [] request.op = "CLOSE"    -> HandOut /\ UNCHANGED <<list, size, buffer>>

Accepted(a) == seq' = (seq + 1) % SEQ_MOD /\ Answered(a.body) /\ UNCHANGED status

\* The header of an answer, and its first part.
suunto_eonsteel_transfer ==
  /\ pc = "receive" /\ line # <<>>
  /\ LET a == Head(line)
     IN  \/ ~Verified(a) /\ line' = Tail(line) /\ Fails("PROTOCOL")
         \/ /\ Verified(a) /\ usb /\ a.op = "READ" /\ pc' = "more"
            /\ UNCHANGED <<line, request, seq, list, skip, size, buffer, got, status>>
         \/ Verified(a) /\ ~(usb /\ a.op = "READ") /\ line' = Tail(line) /\ Accepted(a)
  /\ UNCHANGED <<device, late, faults, fingerprint, call>>

\* The remainder of the data.
ReceiveMore ==
  /\ pc = "more" /\ Len(line) > 1
  /\ line' = Tail(Tail(line))
  /\ Accepted(Head(line))
  /\ UNCHANGED <<device, late, faults, fingerprint, call>>

\* The remainder does not come in time.
MoreFails ==
  /\ pc = "more" /\ Len(line) = 1
  /\ line' = <<>> /\ Fails("TIMEOUT")
  /\ UNCHANGED <<device, late, faults, fingerprint, call>>

\* One round of the loop over the list.
NextEntry ==
  /\ pc = "next" /\ list # <<>>
  /\ list' = Tail(list)
  /\ \/ /\ skip # "" \/ Head(list).type = "dir"
        /\ UNCHANGED <<pc, request, skip, buffer, status>>
     \/ /\ skip = "" /\ Head(list).type = "other"       \* a name that is no time
        /\ SetError("PROTOCOL") /\ UNCHANGED <<pc, request, skip, buffer>>
     \/ /\ skip = "" /\ Head(list).type = "file" /\ Head(list).name = fingerprint
        /\ skip' = "known" /\ UNCHANGED <<pc, request, buffer, status>>
     \/ /\ skip = "" /\ Head(list).type = "file" /\ Head(list).name # fingerprint
        /\ Proceed(Command("OPEN", Head(list).name)) /\ buffer' = <<>> /\ UNCHANGED <<skip, status>>
  /\ UNCHANGED <<device, wire, fingerprint, call, seq, size, got>>

\* The application has cancelled: the rest of the list is skipped.
Cancelled ==
  /\ pc = "next" /\ list # <<>>
  /\ SetError("CANCELLED") /\ skip' = "cancelled" /\ list' = Tail(list)
  /\ UNCHANGED <<device, wire, fingerprint, call, pc, request, seq, size, buffer, got>>

Return ==
  /\ pc = "next" /\ list = <<>>
  /\ pc' = "idle"
  /\ UNCHANGED <<device, wire, fingerprint, call, request, seq, list, skip, size, buffer, got, status>>

\* The application makes no more downloads.
Finished == pc = "idle" /\ call = MaxCalls /\ UNCHANGED vars

Next ==
  \/ Foreach
  \/ suunto_eonsteel_send
  \/ Arrive
  \/ Timeout
  \/ suunto_eonsteel_transfer
  \/ ReceiveMore
  \/ MoreFails
  \/ NextEntry
  \/ Cancelled
  \/ Return
  \/ Finished

Spec == Init /\ [][Next]_vars

-----------------------------------------------------------------------------
TypeOK ==
  /\ pc \in {"idle", "send", "receive", "more", "next"}
  /\ seq \in 0 .. SEQ_MOD - 1 /\ size \in Nat
  /\ status \in {"none", "SUCCESS", "TIMEOUT", "PROTOCOL", "CANCELLED"}

\* Whatever answers were lost, damaged or late, in this download or an earlier
\* one of the session: a dive that is handed out has the name and the contents
\* of one file, complete, and the dives come newest first.
DataIntact ==
  /\ \A k \in DOMAIN got : got[k].data = Chunks(got[k].name)
  /\ \A k \in 1 .. Len(got) - 1 : got[k].name > got[k + 1].name

New == {entries[k].name : k \in {j \in DOMAIN entries : entries[j].type = "file"}}

Known == IF fingerprint \in New THEN fingerprint ELSE 0

\* A download that succeeds has handed out every file newer than the one with
\* the fingerprint unless the callback asked to stop, and without a fault a
\* download only fails if it is cancelled or a file has no proper name.
Completes ==
  pc = "idle" =>
    /\ status = "SUCCESS" =>
         {got[k].name : k \in DOMAIN got} = {n \in New : n > Known} \/ skip = "stopped"
    /\ faults = 0 => \/ status \in {"none", "SUCCESS", "CANCELLED"}
                     \/ \E k \in DOMAIN entries : entries[k].type = "other"
=============================================================================
