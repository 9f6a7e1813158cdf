----------------------------- MODULE ByteString -----------------------------
(***************************************************************************)
(* What a dc_buffer_t is to its callers: a string of bytes that can grow   *)
(* and shrink at both ends.  An operation that returns 0 (out of memory or *)
(* invalid arguments) has changed nothing, and only an operation that adds *)
(* bytes or reserves memory can run out of it.                             *)
(***************************************************************************)
EXTENDS Integers

CONSTANTS Ops, Zero

VARIABLES
  alive,     \* the buffer is allocated
  string,    \* [len, byte]: its bytes are byte[0] .. byte[len - 1]
  op,        \* the last operation called: [name, at, len, byte]
  returned   \* whether it succeeded

strvars == <<alive, string, op, returned>>

Text(n, f(_)) == [len |-> n, byte |-> [i \in 0 .. n - 1 |-> f(i)]]

EmptyText == Text(0, LAMBDA i : Zero)

\* The string with the block of operation o put in at position `at'.
With(s, at, o) ==
  Text(s.len + o.len, LAMBDA i : IF i < at THEN s.byte[i]
                                 ELSE IF i < at + o.len THEN o.byte[i - at]
                                 ELSE s.byte[i - o.len])

Effect(s, o) ==
  CASE o.name = "append"  -> With(s, s.len, o)
    [] o.name = "prepend" -> With(s, 0, o)
    [] o.name = "insert"  -> With(s, o.at, o)
    [] o.name = "resize"  -> Text(o.len, LAMBDA i : IF i < s.len THEN s.byte[i] ELSE Zero)
    [] o.name = "slice"   -> Text(o.len, LAMBDA i : s.byte[o.at + i])
    [] o.name = "reserve" -> s
    [] OTHER              -> EmptyText      \* new, clear, free

Legal(s, o) ==
  /\ o.name = "insert" => o.at <= s.len
  /\ o.name = "slice"  => o.at + o.len <= s.len

MayFail(s, o) ==
  \/ ~Legal(s, o)
  \/ o.name \in {"new", "append", "prepend", "insert"} /\ o.len > 0
  \/ o.name = "resize" /\ o.len > s.len
  \/ o.name = "reserve"

Init == ~alive /\ string = EmptyText /\ op = [name |-> "free"] /\ returned = TRUE

Next ==
  \E o \in Ops :
    /\ alive # (o.name = "new")
    /\ op' = o
    /\ \/ /\ Legal(string, o)
          /\ returned' = TRUE
          /\ alive' = (o.name # "free")
          /\ string' = Effect(string, o)
       \/ /\ MayFail(string, o)
          /\ returned' = FALSE
          /\ UNCHANGED <<alive, string>>

Spec == Init /\ [][Next]_strvars
=============================================================================
