----------------------------- MODULE Atom2Pages -----------------------------
(***************************************************************************)
(* Reading and writing the memory of an Oceanic Atom 2 and its relatives   *)
(* (oceanic_atom2.c).  The models with big pages answer with more than was *)
(* asked for: the driver keeps the last big page in a cache, also from one *)
(* call to the next.  The newest models have a high memory, mapped behind  *)
(* the low one, with a command and page numbers of its own.                *)
(*                                                                         *)
(* A transfer works or fails for good: its retries are in CommandTransfer. *)
(* The handshake that is repeated every REPEAT pages changes nothing here. *)
(* The contents of an address are the address and the number of the call   *)
(* that wrote it last.                                                     *)
(***************************************************************************)
EXTENDS Integers, Sequences, SequencesExt

CONSTANTS
  PAGESIZE,
  Big,         \* the pages of a big page, for 8 and 16
  HIGHMEM,     \* where the high memory begins
  Memory,      \* the size of the memory
  MaxCalls     \* bound: the calls of a session

PagesAssumption ==
  /\ PAGESIZE \in Nat \ {0} /\ Big \in Nat \ {0} /\ MaxCalls \in Nat
  /\ Memory \in Nat /\ HIGHMEM \in 0 .. Memory
  /\ HIGHMEM % (Big * PAGESIZE) = 0 /\ Memory % (Big * PAGESIZE) = 0

INVALID == -1

VARIABLES
  layout,                \* the model: its bigpage and its highmem, 0 for none
  mem,                   \* the device: for every address the call that wrote it
  cached, cache,         \* the page in the cache, and its contents
  call, pc,              \* "idle", "read", "prepare", "write"
  address, size, nbytes, data,
  status

device == <<layout, mem>>
vars   == <<device, cached, cache, call, pc, address, size, nbytes, data, status>>

Cell(a) == [at |-> a, by |-> mem[a]]

Init ==
  /\ layout \in {[bigpage |-> 1, highmem |-> 0], [bigpage |-> Big, highmem |-> 0],
                 [bigpage |-> Big, highmem |-> HIGHMEM]}
  /\ mem = [a \in 0 .. Memory - 1 |-> 0]
  /\ cached = [page |-> INVALID, highmem |-> INVALID]
  /\ cache = [i \in 1 .. Big * PAGESIZE |-> [at |-> INVALID, by |-> 0]]
  /\ call = 0 /\ pc = "idle" /\ address = 0 /\ size = 0 /\ nbytes = 0 /\ data = <<>>
  /\ status = "none"

Aligned(a, n) == a % PAGESIZE = 0 /\ n % PAGESIZE = 0

\* A call of the application, or of the driver's own foreach.
Call(a, n) ==
  /\ pc = "idle" /\ call < MaxCalls /\ call' = call + 1
  /\ address' = a /\ size' = n /\ nbytes' = 0 /\ data' = <<>> /\ status' = "none"
  /\ UNCHANGED <<device, cache>>

Return(s) == pc' = "idle" /\ status' = s

oceanic_atom2_device_read ==
  \E a \in 0 .. Memory - 1 : \E n \in 1 .. Memory - a :
    /\ Call(a, n) /\ Aligned(a, n) /\ pc' = "read" /\ UNCHANGED cached

\* Mutant: the page in the cache survives a write.
Invalidate_Not == UNCHANGED cached

Invalidate == cached' = [page |-> INVALID, highmem |-> INVALID]

\* Only pages of the low memory can be written.
oceanic_atom2_device_write ==
  \E a \in 0 .. HIGHMEM - 1 : \E n \in 1 .. HIGHMEM - a :
    Call(a, n) /\ Aligned(a, n) /\ pc' = "prepare" /\ Invalidate

InvalidArguments ==
  /\ pc = "idle" /\ call < MaxCalls /\ call' = call + 1
  /\ \E a, n \in 1 .. PAGESIZE : ~Aligned(a, n)
  /\ status' = "INVALIDARGS" /\ data' = <<>>
  /\ UNCHANGED <<device, cached, cache, pc, address, size, nbytes>>

-----------------------------------------------------------------------------
Highmem  == IF layout.highmem # 0 /\ address >= layout.highmem THEN layout.highmem ELSE 0
Pagesize == IF Highmem # 0 THEN Big * PAGESIZE ELSE layout.bigpage * PAGESIZE
Page     == (address - Highmem) \div Pagesize
Number   == IF Highmem # 0 THEN Page ELSE Page * layout.bigpage

\* The device: a page of the high memory is numbered from its begin.
Answered ==
  LET a == IF Highmem # 0 THEN Highmem + Number * Big * PAGESIZE ELSE Number * PAGESIZE
  IN  [i \in 1 .. Pagesize |-> Cell(a + i - 1)]

\* Mutant: the same page number of the low and of the high memory is one page.
Hit_PageOnly == cached.page = Page

Hit == cached.page = Page /\ cached.highmem = Highmem

\* Mutant: a page is in the cache once it has been asked for.
CachedAfterFailure_New == [page |-> Page, highmem |-> Highmem]

\* The answer is only copied, and the page only noted, when it has been verified.
CachedAfterFailure == cached

ReadPage ==
  /\ pc = "read" /\ nbytes < size /\ ~Hit
  /\ cache' = Answered /\ cached' = [page |-> Page, highmem |-> Highmem]
  /\ UNCHANGED <<device, call, pc, address, size, nbytes, data, status>>

ReadFails ==
  /\ pc = "read" /\ nbytes < size /\ ~Hit
  /\ cached' = CachedAfterFailure
  /\ \E s \in {"TIMEOUT", "CANCELLED"} : Return(s)
  /\ UNCHANGED <<device, cache, call, address, size, nbytes, data>>

\* What the page in the cache has of what is asked for.
Copy ==
  LET offset == address % Pagesize
      length == IF nbytes + Pagesize - offset > size THEN size - nbytes ELSE Pagesize - offset
  IN  /\ pc = "read" /\ nbytes < size /\ Hit
      /\ data' = data \o SubSeq(cache, offset + 1, offset + length)
      /\ nbytes' = nbytes + length /\ address' = address + length
      /\ UNCHANGED <<device, cached, cache, call, pc, size, status>>

Prepare ==
  /\ pc = "prepare" /\ nbytes < size /\ pc' = "write"
  /\ UNCHANGED <<device, cached, cache, call, address, size, nbytes, data, status>>

Stored == [a \in DOMAIN mem |-> IF a \in address .. address + PAGESIZE - 1 THEN call ELSE mem[a]]

WritePage ==
  /\ pc = "write" /\ pc' = "prepare"
  /\ mem' = Stored
  /\ nbytes' = nbytes + PAGESIZE /\ address' = address + PAGESIZE
  /\ UNCHANGED <<layout, cached, cache, call, size, data, status>>

\* The page may have been stored although its acknowledgement did not come.
WriteFails ==
  /\ pc \in {"prepare", "write"} /\ nbytes < size
  /\ \E s \in {"TIMEOUT", "CANCELLED"} : Return(s)
  /\ mem' \in IF pc = "write" THEN {mem, Stored} ELSE {mem}
  /\ UNCHANGED <<layout, cached, cache, call, address, size, nbytes, data>>

Done ==
  /\ pc \in {"read", "prepare"} /\ nbytes >= size
  /\ Return("SUCCESS")
  /\ UNCHANGED <<device, cached, cache, call, address, size, nbytes, data>>

\* The application makes no more calls.
Finished == pc = "idle" /\ call = MaxCalls /\ UNCHANGED vars

Next ==
  \/ oceanic_atom2_device_read
  \/ oceanic_atom2_device_write
  \/ InvalidArguments
  \/ ReadPage
  \/ ReadFails
  \/ Copy
  \/ Prepare
  \/ WritePage
  \/ WriteFails
  \/ Done
  \/ Finished

Spec == Init /\ [][Next]_vars

-----------------------------------------------------------------------------
TypeOK ==
  /\ pc \in {"idle", "read", "prepare", "write"}
  /\ nbytes \in 0 .. size /\ address \in 0 .. Memory
  /\ Len(cache) <= Big * PAGESIZE /\ Len(data) <= size
  /\ status \in {"none", "SUCCESS", "INVALIDARGS", "TIMEOUT", "CANCELLED"}

\* What a read returns is what the memory holds now at the addresses asked
\* for: not another page of the cache, nor its contents from before a write,
\* nor what a read that failed has left in it.
DataIntact ==
  \A i \in DOMAIN data : data[i] = Cell(address - nbytes + i - 1)
=============================================================================
