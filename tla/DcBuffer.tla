------------------------------ MODULE DcBuffer ------------------------------
(***************************************************************************)
(* The dynamic byte buffer (buffer.c): a block of `capacity' bytes, of     *)
(* which the `size' bytes from `offset' are in use.  Every memory dump and *)
(* every dive passes through one.                                          *)
(*                                                                         *)
(* malloc may fail at any time, and does above MaxCapacity; fresh memory   *)
(* holds Junk.  dc_buffer_new with capacity 0 allocates no block.          *)
(***************************************************************************)
EXTENDS Integers

CONSTANTS
  Bytes,        \* values of a byte
  Zero,         \* the byte 0
  Junk,         \* what fresh memory holds
  Ops,          \* operations a caller may make: [name, at, len, byte]
  MaxCapacity   \* bound: the most memory malloc hands out

Names == {"new", "free", "clear", "reserve", "resize", "append", "prepend",
          "insert", "slice"}

BufferAssumption ==
  /\ Zero \in Bytes /\ Junk \notin Bytes
  /\ MaxCapacity \in Nat
  /\ \A o \in Ops : /\ o.name \in Names
                    /\ o.at \in Nat /\ o.len \in Nat
                    /\ o.byte \in [0 .. o.len - 1 -> Bytes]

VARIABLES alive, data, capacity, offset, size, op, returned

vars == <<alive, data, capacity, offset, size, op, returned>>

Memory(n) == [i \in 0 .. n - 1 |-> Junk]

\* memcpy and memmove: n bytes of src from `from' to d from `to'.
Copy(d, to, src, from, n) ==
  [i \in DOMAIN d |-> IF i \in to .. to + n - 1 THEN src[from + (i - to)] ELSE d[i]]

Succeeds(o) == op' = o /\ returned' = TRUE

Fails(o) ==
  op' = o /\ returned' = FALSE /\ UNCHANGED <<alive, data, capacity, offset, size>>

Init ==
  /\ alive = FALSE /\ data = Memory(0)
  /\ capacity = 0 /\ offset = 0 /\ size = 0
  /\ op = [name |-> "free"] /\ returned = TRUE

New(o) ==
  /\ ~alive
  /\ \/ /\ o.len <= MaxCapacity
        /\ alive' = TRUE
        /\ data' = Memory(o.len) /\ capacity' = o.len /\ offset' = 0 /\ size' = 0
        /\ Succeeds(o)
     \/ o.len > 0 /\ Fails(o)

Free(o) ==
  /\ alive
  /\ alive' = FALSE /\ data' = Memory(0) /\ capacity' = 0 /\ offset' = 0 /\ size' = 0
  /\ Succeeds(o)

Clear(o) ==
  /\ alive
  /\ offset' = 0 /\ size' = 0
  /\ Succeeds(o)
  /\ UNCHANGED <<alive, data, capacity>>

\* Mutant: doubles once.
dc_buffer_expand_calc_Once(n, c) == c = (IF capacity = 0 THEN n ELSE 2 * capacity)

\* The capacity is doubled until c >= n.
dc_buffer_expand_calc(n, c) ==
  IF capacity = 0 THEN c = n
  ELSE /\ n <= c /\ (c = capacity \/ c < 2 * n)
       /\ \E k \in 0 .. n : c = capacity * 2^k

\* Room for n bytes from d's offset: nothing to do, a larger block, or the
\* bytes moved to the front.  The new block is [cap, off, mem].
ExpandAppend(n) ==
  IF n <= capacity - offset THEN {[cap |-> capacity, off |-> offset, mem |-> data]}
  ELSE IF n > capacity
    THEN {[cap |-> c, off |-> 0, mem |-> Copy(Memory(c), 0, data, offset, size)] :
            c \in {x \in 0 .. MaxCapacity : dc_buffer_expand_calc(n, x)}}
    ELSE {[cap |-> capacity, off |-> 0, mem |-> Copy(data, 0, data, offset, size)]}

\* Room for n bytes up to the end of the used part.
ExpandPrepend(n) ==
  IF n <= offset + size THEN {[cap |-> capacity, off |-> offset, mem |-> data]}
  ELSE IF n > capacity
    THEN {[cap |-> c, off |-> c - size, mem |-> Copy(Memory(c), c - size, data, offset, size)] :
            c \in {x \in 0 .. MaxCapacity : dc_buffer_expand_calc(n, x)}}
    ELSE {[cap |-> capacity, off |-> capacity - size,
           mem |-> Copy(data, capacity - size, data, offset, size)]}

Reserve(o) ==
  /\ alive
  /\ \/ /\ o.len <= capacity
        /\ Succeeds(o)
        /\ UNCHANGED <<alive, data, capacity, offset, size>>
     \/ /\ capacity < o.len /\ o.len <= MaxCapacity
        /\ data' = Copy(Memory(o.len), 0, data, 0, capacity)      \* realloc
        /\ capacity' = o.len
        /\ Succeeds(o)
        /\ UNCHANGED <<alive, offset, size>>
     \/ capacity < o.len /\ Fails(o)

Resize(o) ==
  /\ alive
  /\ \/ \E e \in ExpandAppend(o.len) :
          /\ data' = Copy(e.mem, e.off + size, [i \in 0 .. o.len |-> Zero], 0, o.len - size)
          /\ capacity' = e.cap /\ offset' = e.off /\ size' = o.len
          /\ Succeeds(o)
          /\ UNCHANGED alive
     \/ o.len > capacity /\ Fails(o)

Append(o) ==
  /\ alive
  /\ \/ \E e \in ExpandAppend(size + o.len) :
          /\ data' = Copy(e.mem, e.off + size, o.byte, 0, o.len)
          /\ capacity' = e.cap /\ offset' = e.off /\ size' = size + o.len
          /\ Succeeds(o)
          /\ UNCHANGED alive
     \/ size + o.len > capacity /\ Fails(o)

Prepend(o) ==
  /\ alive
  /\ \/ \E e \in ExpandPrepend(size + o.len) :
          /\ data' = Copy(e.mem, e.off - o.len, o.byte, 0, o.len)
          /\ capacity' = e.cap /\ offset' = e.off - o.len /\ size' = size + o.len
          /\ Succeeds(o)
          /\ UNCHANGED alive
     \/ size + o.len > capacity /\ Fails(o)

(***************************************************************************)
(* dc_buffer_insert opens a gap of o.len bytes at o.at: in the room before *)
(* the used part, in the room after it, by moving both parts in place, or  *)
(* in a new block.  The in-place moves are two memmoves, one after the     *)
(* other: the second reads what the first has left.                        *)
(***************************************************************************)
Head == offset

Tail == capacity - (offset + size)

MovedApart(d, src, to, o) ==
  LET d1 == Copy(d, to, src, offset, o.at)
      s1 == IF d = src THEN d1 ELSE src
  IN  Copy(d1, to + o.at + o.len, s1, offset + o.at, size - o.at)

Gaps(o) ==
  IF o.len <= Head
    THEN {[cap |-> capacity, off |-> offset - o.len,
           mem |-> Copy(data, offset - o.len, data, offset, o.at)]}
  ELSE IF o.len <= Tail
    THEN {[cap |-> capacity, off |-> offset,
           mem |-> Copy(data, offset + o.at + o.len, data, offset + o.at, size - o.at)]}
  ELSE IF o.len <= Tail + Head
    THEN LET to == IF Head > Tail THEN capacity - (size + o.len) ELSE 0
         IN  {[cap |-> capacity, off |-> to, mem |-> MovedApart(data, data, to, o)]}
  ELSE {[cap |-> c, off |-> IF Head > Tail THEN c - (size + o.len) ELSE 0,
         mem |-> MovedApart(Memory(c), data,
                            IF Head > Tail THEN c - (size + o.len) ELSE 0, o)] :
          c \in {x \in 0 .. MaxCapacity : dc_buffer_expand_calc(size + o.len, x)}}

Insert(o) ==
  /\ alive
  /\ \/ /\ o.at <= size
        /\ \E e \in Gaps(o) :
             /\ data' = Copy(e.mem, e.off + o.at, o.byte, 0, o.len)
             /\ capacity' = e.cap /\ offset' = e.off /\ size' = size + o.len
             /\ Succeeds(o)
             /\ UNCHANGED alive
     \/ o.at > size /\ Fails(o)
     \/ o.len > Tail + Head /\ Fails(o)

\* Mutant: only the size is changed.
Slice_KeepsOffset(o) ==
  /\ alive /\ o.at + o.len <= size
  /\ size' = o.len
  /\ Succeeds(o)
  /\ UNCHANGED <<alive, data, capacity, offset>>

Slice(o) ==
  /\ alive
  /\ \/ /\ o.at + o.len <= size
        /\ offset' = offset + o.at /\ size' = o.len
        /\ Succeeds(o)
        /\ UNCHANGED <<alive, data, capacity>>
     \/ o.at + o.len > size /\ Fails(o)

Next ==
  \E o \in Ops :
    \/ o.name = "new" /\ New(o)
    \/ o.name = "free" /\ Free(o)
    \/ o.name = "clear" /\ Clear(o)
    \/ o.name = "reserve" /\ Reserve(o)
    \/ o.name = "resize" /\ Resize(o)
    \/ o.name = "append" /\ Append(o)
    \/ o.name = "prepend" /\ Prepend(o)
    \/ o.name = "insert" /\ Insert(o)
    \/ o.name = "slice" /\ Slice(o)

Spec == Init /\ [][Next]_vars

-----------------------------------------------------------------------------

\* The used part lies inside the block, so that the unsigned differences
\* capacity - offset and capacity - (offset + size) of buffer.c never wrap,
\* and only holds bytes somebody has put there: no operation exposes fresh
\* memory to the caller.
BufferInv ==
  /\ alive \in BOOLEAN /\ capacity \in Nat /\ offset \in Nat /\ size \in Nat
  /\ offset + size <= capacity
  /\ DOMAIN data = 0 .. capacity - 1
  /\ \A i \in 0 .. size - 1 : data[offset + i] \in Bytes
  /\ ~alive => size = 0

\* dc_buffer_get_data and dc_buffer_get_size
Contents == [len |-> size, byte |-> [i \in 0 .. size - 1 |-> data[offset + i]]]

String == INSTANCE ByteString WITH string <- Contents

\* Every operation does to the used part exactly what the operation of that
\* name does to a string of bytes, whatever room there is before and after
\* it and whichever way the bytes are moved; an operation that fails leaves
\* it alone.
StringSpec == String!Spec
=============================================================================
