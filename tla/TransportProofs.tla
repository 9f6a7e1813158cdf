-------------------------- MODULE TransportProofs --------------------------
(***************************************************************************)
(* Proofs about the loops of the transports, for all timeouts and sizes of *)
(* a call, and any number of bytes and interruptions.                      *)
(***************************************************************************)
EXTENDS Transport, SequenceTheorems, TLAPS

-----------------------------------------------------------------------------
(* Runs of consecutive bytes *)

\* s is a + 1, a + 2, ..., a + n.
Counts(s, a, n) ==
  s \in Seq(Int) /\ Len(s) = n /\ \A i \in 1 .. n : s[i] = a + i

\* The next byte.
LEMMA CountsAppend ==
  ASSUME NEW s, NEW a \in Int, NEW n \in Nat, Counts(s, a, n)
  PROVE  Counts(Append(s, a + n + 1), a, n + 1)
<1>1. s \in Seq(Int) /\ Len(s) = n /\ a + n + 1 \in Int
  BY DEF Counts
<1> DEFINE t == Append(s, a + n + 1)
<1>2. t \in Seq(Int) /\ Len(t) = n + 1 /\ (\A i \in 1 .. n : t[i] = s[i]) /\ t[n + 1] = a + n + 1
  BY <1>1, AppendProperties
<1> HIDE DEF t
<1>3. \A i \in 1 .. n + 1 : t[i] = a + i
  BY <1>2 DEF Counts
<1>4. Counts(t, a, n + 1)
  BY <1>2, <1>3 DEF Counts
<1> QED BY <1>4 DEF t

\* A run that continues another.
LEMMA CountsConcat ==
  ASSUME NEW s, NEW t, NEW a \in Int, NEW m \in Nat, NEW n \in Nat,
         Counts(s, a, m), Counts(t, a + m, n)
  PROVE  Counts(s \o t, a, m + n)
<1>1. s \in Seq(Int) /\ t \in Seq(Int) /\ Len(s) = m /\ Len(t) = n
  BY DEF Counts
<1> DEFINE u == s \o t
<1>2. u \in Seq(Int) /\ Len(u) = m + n
      /\ \A i \in 1 .. m + n : u[i] = IF i <= m THEN s[i] ELSE t[i - m]
  BY <1>1, ConcatProperties
<1> HIDE DEF u
<1>3. ASSUME NEW i \in 1 .. m + n PROVE u[i] = a + i
  <2>1. CASE i <= m
    BY <1>2, <2>1 DEF Counts
  <2>2. CASE ~(i <= m)
    <3>1. i - m \in 1 .. n /\ (a + m) + (i - m) = a + i
      BY <2>2
    <3>2. t[i - m] = (a + m) + (i - m)
      BY <3>1 DEF Counts
    <3> QED BY <1>2, <2>2, <3>1, <3>2
  <2> QED BY <2>1, <2>2
<1>4. Counts(u, a, m + n)
  BY <1>2, <1>3 DEF Counts
<1> QED BY <1>4 DEF u

\* A part of a run.
LEMMA CountsPart ==
  ASSUME NEW s, NEW a \in Int, NEW n \in Nat, Counts(s, a, n),
         NEW k \in 0 .. n, NEW l \in k .. n
  PROVE  Counts(SubSeq(s, k + 1, l), a + k, l - k)
<1> DEFINE u == SubSeq(s, k + 1, l)
<1>1. \A i \in k + 1 .. l : s[i] \in Int
  BY DEF Counts
<1>2. k + 1 \in Int /\ l \in Int
  OBVIOUS
<1>3. u \in Seq(Int) /\ Len(u) = (IF k + 1 <= l THEN l - (k + 1) + 1 ELSE 0)
      /\ \A i \in 1 .. l - (k + 1) + 1 : u[i] = s[(k + 1) + i - 1]
  BY <1>1, <1>2, SubSeqProperties
<1> HIDE DEF u
<1>4. Len(u) = l - k
  BY <1>3
<1>5. ASSUME NEW i \in 1 .. l - k PROVE u[i] = (a + k) + i
  <2>1. i \in 1 .. l - (k + 1) + 1 /\ (k + 1) + i - 1 = k + i /\ k + i \in 1 .. n
        /\ a + (k + i) = (a + k) + i
    OBVIOUS
  <2>2. u[i] = s[k + i]
    BY <1>3, <2>1
  <2>3. s[k + i] = a + (k + i)
    BY <2>1 DEF Counts
  <2> QED BY <2>1, <2>2, <2>3
<1>6. Counts(u, a + k, l - k)
  BY <1>3, <1>4, <1>5 DEF Counts
<1> QED BY <1>6 DEF u

\* The bytes of a write.
LEMMA CountsNew ==
  ASSUME NEW a \in Int, NEW n \in Nat
  PROVE  Counts([i \in 1 .. n |-> a + i], a, n)
<1> DEFINE u == [i \in 1 .. n |-> a + i]
<1>1. u \in [1 .. n -> Int]
  OBVIOUS
<1>2. u \in Seq(Int) /\ Len(u) = n
  BY <1>1
<1> QED BY <1>2 DEF Counts

\* No bytes.
LEMMA CountsNone ==
  ASSUME NEW a \in Int PROVE Counts(<<>>, a, 0)
  BY DEF Counts

-----------------------------------------------------------------------------
(* The inductive invariant *)

TypeInv ==
  /\ kind \in {"serial", "socket"} /\ timeout \in Int
  /\ arrived \in Nat /\ size \in Nat
  /\ op \in {"none", "read", "write", "poll"}
  /\ pc \in {"idle", "loop", "select", "transfer", "drain", "return"}
  /\ nbytes \in 0 .. size
  /\ remaining \in Int /\ left \in Int /\ left >= -1 /\ spent \in Nat
  /\ signals \in 0 .. MaxSignals
  /\ status \in {"none", "SUCCESS", "TIMEOUT", "IO"}

\* Where the program is tells what the call does, and what it has done: only
\* the loop of a read receives, only that of a write sends, and the loop is
\* left with all bytes, with an error, or because the line was closed.
ControlInv ==
  /\ pc \in {"loop", "select", "transfer"} => op # "none"
  /\ pc = "transfer" => op \in {"read", "write"}
  /\ pc = "select" /\ op # "poll" => nbytes < size
  /\ pc = "transfer" => nbytes < size
  /\ op \in {"none", "poll"} => nbytes = 0
  /\ pc \in {"drain", "return", "idle"} /\ op \in {"read", "write"} /\ status = "SUCCESS" =>
       nbytes = size \/ (closed /\ kind = "serial" /\ op = "write")

\* The bytes in the input are the last ones that have arrived, and those of a
\* read are the ones before them.
OrderInv ==
  /\ Len(line) \in Nat /\ Counts(line, arrived - Len(line), Len(line))
  /\ op = "read" => Counts(data, arrived - Len(line) - nbytes, nbytes)
  /\ op = "write" => Counts(data, 0, nbytes)
  /\ data \in Seq(Int) /\ Len(data) = nbytes

SerialRead == kind = "serial" /\ op = "read"

\* dc_serial_read: the time that is left until the target time and the time
\* spent are the timeout, in however many rounds.
DeadlineInv ==
  SerialRead /\ timeout >= 0 =>
    \/ remaining = -1 /\ spent = 0 /\ (pc = "select" => timeout = 0 /\ left = 0)
    \/ timeout > 0 /\ remaining >= 0 /\ spent + remaining = timeout
         /\ (pc = "select" => left = remaining)

\* The selects so far: one for every interruption and for every piece, and
\* the one in progress.
RoundsInv ==
  timeout >= 0 =>
    /\ op = "write" => spent = 0 /\ left = -1
    /\ ~SerialRead /\ pc = "loop" => spent <= timeout * (nbytes + signals)
    /\ ~SerialRead /\ pc = "select" /\ left >= 0 => spent + left <= timeout * (nbytes + signals + 1)
    /\ spent <= timeout * (nbytes + signals + 1)
    /\ SerialRead => spent <= timeout

\* A select that expires has waited for the timeout.
ExpiryInv ==
  timeout >= 0 =>
    /\ pc = "select" /\ left >= 0 => spent + left >= timeout
    /\ status = "TIMEOUT" => closed \/ spent >= timeout

IInv ==
  TypeInv /\ ControlInv /\ OrderInv /\ DeadlineInv /\ RoundsInv /\ ExpiryInv

-----------------------------------------------------------------------------
(* Every step keeps every part *)

\* Types.
LEMMA TypeStep ==
  ASSUME TransportAssumption, IInv, [Next]_vars PROVE TypeInv'
<1> USE DEF input, clock, buffer
<1>0. TypeInv
  BY DEF IInv
<1>1. Timeouts \subseteq Int /\ Sizes \subseteq Nat /\ MaxArrived \in Nat /\ MaxSignals \in Nat
  BY DEF TransportAssumption
<1>2. CASE Arrive
  BY <1>0, <1>1, <1>2 DEF TypeInv, Arrive
<1>3. CASE dc_iostream_read
  BY <1>0, <1>1, <1>3 DEF TypeInv, dc_iostream_read, Call
<1>4. CASE dc_iostream_write
  BY <1>0, <1>1, <1>4 DEF TypeInv, dc_iostream_write, Call
<1>5. CASE dc_iostream_poll
  BY <1>0, <1>1, <1>5 DEF TypeInv, dc_iostream_poll, Call
<1>6. CASE Prepare
  BY <1>0, <1>1, <1>6 DEF TypeInv, Prepare, Target
<1>7. CASE Tick
  BY <1>0, <1>1, <1>7 DEF TypeInv, Tick
<1>8. CASE Selected
  BY <1>0, <1>1, <1>8 DEF TypeInv, Selected
<1>9. CASE Expired
  BY <1>0, <1>1, <1>9 DEF TypeInv, Expired
<1>10. CASE Interrupted
  BY <1>0, <1>1, <1>10 DEF TypeInv, Interrupted
<1>11. CASE Fails
  BY <1>0, <1>1, <1>11 DEF TypeInv, Fails
<1>12. CASE Receive
  BY <1>0, <1>1, <1>12 DEF TypeInv, Receive
<1>13. CASE Send
  BY <1>0, <1>1, <1>13 DEF TypeInv, Send
<1>14. CASE EndOfFile
  BY <1>0, <1>1, <1>14 DEF TypeInv, EndOfFile, AfterLoop, CutShort
<1>15. CASE LoopEnds
  BY <1>0, <1>1, <1>15 DEF TypeInv, LoopEnds, AfterLoop
<1>16. CASE Drain
  BY <1>0, <1>1, <1>16 DEF TypeInv, Drain
<1>17. CASE Return
  BY <1>0, <1>1, <1>17 DEF TypeInv, Return
<1>18. CASE dc_iostream_purge
  BY <1>0, <1>1, <1>18 DEF TypeInv, dc_iostream_purge
<1>19. CASE UNCHANGED vars
  BY <1>0, <1>19 DEF TypeInv, vars
<1> QED BY <1>2, <1>3, <1>4, <1>5, <1>6, <1>7, <1>8, <1>9, <1>10, <1>11, <1>12, <1>13,
           <1>14, <1>15, <1>16, <1>17, <1>18, <1>19 DEF Next

\* The control.
LEMMA ControlStep ==
  ASSUME TransportAssumption, IInv, [Next]_vars PROVE ControlInv'
<1> USE DEF input, clock, buffer
<1>0. TypeInv /\ ControlInv
  BY DEF IInv
<1>1. Sizes \subseteq Nat
  BY DEF TransportAssumption
<1>2. CASE Arrive
  BY <1>0, <1>1, <1>2 DEF TypeInv, ControlInv, Arrive
<1>3. CASE dc_iostream_read
  BY <1>0, <1>1, <1>3 DEF TypeInv, ControlInv, dc_iostream_read, Call
<1>4. CASE dc_iostream_write
  BY <1>0, <1>1, <1>4 DEF TypeInv, ControlInv, dc_iostream_write, Call
<1>5. CASE dc_iostream_poll
  BY <1>0, <1>1, <1>5 DEF TypeInv, ControlInv, dc_iostream_poll, Call
<1>6. CASE Prepare
  BY <1>0, <1>1, <1>6 DEF TypeInv, ControlInv, Prepare, Target
<1>7. CASE Tick
  BY <1>0, <1>1, <1>7 DEF TypeInv, ControlInv, Tick
<1>8. CASE Selected
  BY <1>0, <1>1, <1>8 DEF TypeInv, ControlInv, Selected
<1>9. CASE Expired
  BY <1>0, <1>1, <1>9 DEF TypeInv, ControlInv, Expired
<1>10. CASE Interrupted
  BY <1>0, <1>1, <1>10 DEF TypeInv, ControlInv, Interrupted
<1>11. CASE Fails
  BY <1>0, <1>1, <1>11 DEF TypeInv, ControlInv, Fails
<1>12. CASE Receive
  BY <1>0, <1>1, <1>12 DEF TypeInv, ControlInv, Receive
<1>13. CASE Send
  BY <1>0, <1>1, <1>13 DEF TypeInv, ControlInv, Send
<1>14. CASE EndOfFile
  BY <1>0, <1>1, <1>14 DEF TypeInv, ControlInv, EndOfFile, AfterLoop, CutShort
<1>15. CASE LoopEnds
  BY <1>0, <1>1, <1>15 DEF TypeInv, ControlInv, LoopEnds, AfterLoop
<1>16. CASE Drain
  BY <1>0, <1>1, <1>16 DEF TypeInv, ControlInv, Drain
<1>17. CASE Return
  BY <1>0, <1>1, <1>17 DEF TypeInv, ControlInv, Return
<1>18. CASE dc_iostream_purge
  BY <1>0, <1>1, <1>18 DEF TypeInv, ControlInv, dc_iostream_purge
<1>19. CASE UNCHANGED vars
  BY <1>0, <1>19 DEF ControlInv, vars
<1> QED BY <1>2, <1>3, <1>4, <1>5, <1>6, <1>7, <1>8, <1>9, <1>10, <1>11, <1>12, <1>13,
           <1>14, <1>15, <1>16, <1>17, <1>18, <1>19 DEF Next

\* The order of the bytes: only Arrive, Receive, Send, a new call and a purge
\* touch them.
LEMMA OrderStep ==
  ASSUME TransportAssumption, IInv, [Next]_vars PROVE OrderInv'
<1> USE DEF input, clock, buffer
<1>0. TypeInv /\ ControlInv /\ OrderInv
  BY DEF IInv
<1>t. arrived \in Nat /\ nbytes \in Nat /\ size \in Nat /\ Len(line) \in Nat
      /\ line \in Seq(Int) /\ data \in Seq(Int) /\ Len(data) = nbytes
      /\ Counts(line, arrived - Len(line), Len(line))
  BY <1>0 DEF TypeInv, OrderInv, Counts
<1>1. CASE Arrive
  <2>1. line' = Append(line, arrived + 1) /\ arrived' = arrived + 1
        /\ UNCHANGED <<op, data, nbytes>>
    BY <1>1 DEF Arrive
  <2> DEFINE a == arrived - Len(line)
             n == Len(line)
  <2>2. a \in Int /\ n \in Nat /\ Counts(line, a, n) /\ a + n + 1 = arrived + 1
    BY <1>t
  <2> HIDE DEF a, n
  <2>3. Counts(line', a, n + 1)
    BY <2>1, <2>2, CountsAppend
  <2>4. Len(line') = n + 1 /\ n + 1 \in Nat /\ arrived' - (n + 1) = a
    BY <1>t, <2>1, <2>2, <2>3 DEF Counts, a, n
  <2>5. arrived - Len(line) = a
    BY DEF a
  <2> QED BY <1>0, <2>1, <2>3, <2>4, <2>5 DEF OrderInv
<1>2. CASE dc_iostream_read \/ dc_iostream_write \/ dc_iostream_poll
  <2>1. data' = <<>> /\ nbytes' = 0 /\ UNCHANGED <<line, arrived>>
    BY <1>2 DEF dc_iostream_read, dc_iostream_write, dc_iostream_poll, Call
  <2>2. arrived - Len(line) \in Int /\ arrived - Len(line) - 0 \in Int
    BY <1>t
  <2>3. Counts(<<>>, arrived - Len(line) - 0, 0) /\ Counts(<<>>, 0, 0)
    BY <2>2, CountsNone
  <2>4. <<>> \in Seq(Int) /\ Len(<<>>) = 0
    BY <2>3 DEF Counts
  <2> QED BY <1>t, <2>1, <2>3, <2>4 DEF OrderInv
<1>3. CASE Receive
  <2>1. PICK n \in 1 .. size - nbytes :
          /\ n <= Len(line)
          /\ data' = data \o SubSeq(line, 1, n) /\ nbytes' = nbytes + n
          /\ line' = SubSeq(line, n + 1, Len(line))
    BY <1>3 DEF Receive, Placed
  <2>2. op = "read" /\ op' = op /\ arrived' = arrived
    BY <1>3 DEF Receive
  <2> DEFINE l == Len(line)
             a == arrived - l
             b == a - nbytes
             head == SubSeq(line, 1, n)
             tail == SubSeq(line, n + 1, l)
  <2>3. a \in Int /\ b \in Int /\ l \in Nat /\ n \in 0 .. l /\ n \in Nat /\ b + nbytes = a
        /\ l - n \in Nat
    BY <1>t, <2>1
  <2>4. Counts(line, a, l) /\ Counts(data, b, nbytes)
    BY <1>0, <1>t, <2>2 DEF OrderInv
  <2>5. Counts(head, a, n)
    <3>1. Counts(SubSeq(line, 0 + 1, n), a + 0, n - 0)
      <4>1. 0 \in 0 .. l /\ n \in 0 .. l
        BY <2>3
      <4> HIDE DEF a, l
      <4> QED BY <2>3, <2>4, <4>1, CountsPart
    <3>2. 0 + 1 = 1 /\ a + 0 = a /\ n - 0 = n
      BY <2>3
    <3> QED BY <3>1, <3>2
  <2>6. Counts(tail, a + n, l - n)
    <3>1. n \in 0 .. l /\ l \in n .. l
      BY <2>3
    <3> HIDE DEF a, l
    <3> QED BY <2>3, <2>4, <3>1, CountsPart
  <2>7. Counts(data', b, nbytes + n)
    <3>1. Counts(head, b + nbytes, n)
      BY <2>3, <2>5
    <3> HIDE DEF a, b, l, head
    <3>2. Counts(data \o head, b, nbytes + n)
      BY <1>t, <2>3, <2>4, <3>1, CountsConcat
    <3> QED BY <2>1, <3>2 DEF head
  <2>8. Len(line') = l - n /\ Len(data') = nbytes'
        /\ data' \in Seq(Int)
    BY <2>1, <2>6, <2>7 DEF Counts
  <2>9. arrived' - Len(line') = a + n /\ arrived' - Len(line') - nbytes' = b
    <3>1. Len(line') = l - n /\ nbytes' = nbytes + n /\ arrived' = arrived
      BY <2>1, <2>2, <2>8
    <3> QED BY <1>t, <2>3, <3>1
  <2>10. Counts(line', a + n, l - n) /\ Len(line') \in Nat
    BY <2>1, <2>3, <2>6, <2>8
  <2> HIDE DEF a, b, l
  <2> QED BY <2>1, <2>2, <2>7, <2>8, <2>9, <2>10 DEF OrderInv
<1>4. CASE Send
  <2>1. PICK n \in 1 .. size - nbytes :
          data' = data \o [i \in 1 .. n |-> nbytes + i] /\ nbytes' = nbytes + n
    BY <1>4 DEF Send, Placed
  <2>2. op = "write" /\ UNCHANGED <<op, line, arrived>>
    BY <1>4 DEF Send
  <2> DEFINE more == [i \in 1 .. n |-> nbytes + i]
  <2>3. n \in Nat /\ 0 + nbytes = nbytes /\ 0 \in Int /\ nbytes \in Int
    BY <1>t, <2>1
  <2>4. Counts(more, nbytes, n)
    BY <2>3, CountsNew
  <2>5. Counts(data, 0, nbytes)
    BY <1>0, <2>2 DEF OrderInv
  <2> HIDE DEF more
  <2>6. Counts(data \o more, 0, nbytes + n)
    <3>1. Counts(more, 0 + nbytes, n)
      BY <2>3, <2>4
    <3> QED BY <1>t, <2>3, <2>5, <3>1, CountsConcat
  <2>7. Counts(data', 0, nbytes')
    BY <2>1, <2>6 DEF more
  <2>8. data' \in Seq(Int) /\ Len(data') = nbytes'
    BY <2>7 DEF Counts
  <2> QED BY <1>0, <2>2, <2>7, <2>8 DEF OrderInv
<1>5. CASE dc_iostream_purge
  <2>1. data' = <<>> /\ nbytes' = 0 /\ line' = <<>> /\ op' = "none" /\ arrived' = arrived
    BY <1>5 DEF dc_iostream_purge
  <2>2. arrived - 0 \in Int /\ 0 \in Nat
    BY <1>t
  <2>3. Counts(<<>>, arrived - 0, 0)
    BY <2>2, CountsNone
  <2>4. <<>> \in Seq(Int) /\ Len(<<>>) = 0
    BY <2>3 DEF Counts
  <2> QED BY <2>1, <2>2, <2>3, <2>4 DEF OrderInv
<1>6. ASSUME UNCHANGED <<line, arrived, op, data, nbytes>> PROVE OrderInv'
  BY <1>0, <1>6 DEF OrderInv
<1>7. CASE Prepare
  BY <1>6, <1>7 DEF Prepare
<1>8. CASE Tick
  BY <1>6, <1>8 DEF Tick
<1>9. CASE Selected
  BY <1>6, <1>9 DEF Selected
<1>10. CASE Expired
  BY <1>6, <1>10 DEF Expired
<1>11. CASE Interrupted
  BY <1>6, <1>11 DEF Interrupted
<1>12. CASE Fails
  BY <1>6, <1>12 DEF Fails
<1>13. CASE EndOfFile
  BY <1>6, <1>13 DEF EndOfFile
<1>14. CASE LoopEnds
  BY <1>6, <1>14 DEF LoopEnds
<1>15. CASE Drain
  BY <1>6, <1>15 DEF Drain
<1>16. CASE Return
  BY <1>6, <1>16 DEF Return
<1>17. CASE UNCHANGED vars
  BY <1>6, <1>17 DEF vars
<1> QED BY <1>1, <1>2, <1>3, <1>4, <1>5, <1>7, <1>8, <1>9, <1>10, <1>11, <1>12, <1>13,
           <1>14, <1>15, <1>16, <1>17 DEF Next

\* The deadline of a serial read.
LEMMA DeadlineStep ==
  ASSUME TransportAssumption, IInv, [Next]_vars PROVE DeadlineInv'
<1> USE DEF input, clock, buffer
<1>0. TypeInv /\ DeadlineInv
  BY DEF IInv
<1>1. CASE Arrive
  BY <1>0, <1>1 DEF TypeInv, DeadlineInv, SerialRead, Arrive
<1>2. CASE dc_iostream_read
  BY <1>0, <1>2 DEF TypeInv, DeadlineInv, SerialRead, dc_iostream_read, Call
<1>3. CASE dc_iostream_write
  BY <1>0, <1>3 DEF TypeInv, DeadlineInv, SerialRead, dc_iostream_write, Call
<1>4. CASE dc_iostream_poll
  BY <1>0, <1>4 DEF TypeInv, DeadlineInv, SerialRead, dc_iostream_poll, Call
<1>5. CASE Prepare
  BY <1>0, <1>5 DEF TypeInv, DeadlineInv, SerialRead, Prepare, Target
<1>6. CASE Tick
  BY <1>0, <1>6 DEF TypeInv, DeadlineInv, SerialRead, Tick
<1>7. CASE Selected
  BY <1>0, <1>7 DEF TypeInv, DeadlineInv, SerialRead, Selected
<1>8. CASE Expired
  BY <1>0, <1>8 DEF TypeInv, DeadlineInv, SerialRead, Expired
<1>9. CASE Interrupted
  BY <1>0, <1>9 DEF TypeInv, DeadlineInv, SerialRead, Interrupted
<1>10. CASE Fails
  BY <1>0, <1>10 DEF TypeInv, DeadlineInv, SerialRead, Fails
<1>11. CASE Receive
  BY <1>0, <1>11 DEF TypeInv, DeadlineInv, SerialRead, Receive
<1>12. CASE Send
  BY <1>0, <1>12 DEF TypeInv, DeadlineInv, SerialRead, Send
<1>13. CASE EndOfFile
  BY <1>0, <1>13 DEF TypeInv, DeadlineInv, SerialRead, EndOfFile, AfterLoop, CutShort
<1>14. CASE LoopEnds
  BY <1>0, <1>14 DEF TypeInv, DeadlineInv, SerialRead, LoopEnds, AfterLoop
<1>15. CASE Drain
  BY <1>0, <1>15 DEF TypeInv, DeadlineInv, SerialRead, Drain
<1>16. CASE Return
  BY <1>0, <1>16 DEF TypeInv, DeadlineInv, SerialRead, Return
<1>17. CASE dc_iostream_purge
  BY <1>0, <1>17 DEF TypeInv, DeadlineInv, SerialRead, dc_iostream_purge
<1>18. CASE UNCHANGED vars
  BY <1>0, <1>18 DEF DeadlineInv, SerialRead, vars
<1> QED BY <1>1, <1>2, <1>3, <1>4, <1>5, <1>6, <1>7, <1>8, <1>9, <1>10, <1>11, <1>12,
           <1>13, <1>14, <1>15, <1>16, <1>17, <1>18 DEF Next

\* The timeout of k selects, and of one more.
LEMMA Times ==
  \A t \in Nat, k \in Nat : t * (k + 1) = t * k + t /\ t * k \in Nat
  BY SMT

\* The time of more selects is not less.
LEMMA TimesMonotone ==
  \A t \in Nat, k, l \in Nat : k <= l => t * k <= t * l
  BY SMT

\* The time spent in all selects of a call.
LEMMA RoundsStep ==
  ASSUME TransportAssumption, IInv, [Next]_vars PROVE RoundsInv'
<1> USE DEF input, clock, buffer
<1>0. TypeInv /\ ControlInv /\ DeadlineInv /\ RoundsInv
  BY DEF IInv
<1> SUFFICES ASSUME timeout >= 0, timeout' = timeout PROVE RoundsInv'
  <2>1. timeout' = timeout
    BY DEF Next, vars, Arrive, dc_iostream_read, dc_iostream_write, dc_iostream_poll, Call,
           Prepare, Tick, Selected, Expired, Interrupted, Fails, Receive, Send, EndOfFile,
           LoopEnds, Drain, Return, dc_iostream_purge
  <2> QED BY <2>1 DEF RoundsInv
<1> DEFINE K == nbytes + signals
<1>1. timeout \in Nat /\ K \in Nat /\ nbytes \in Nat /\ signals \in Nat /\ spent \in Nat
      /\ left \in Int
  BY <1>0 DEF TypeInv
<1>2. /\ op = "write" => spent = 0 /\ left = -1
      /\ ~SerialRead /\ pc = "loop" => spent <= timeout * K
      /\ ~SerialRead /\ pc = "select" /\ left >= 0 => spent + left <= timeout * (K + 1)
      /\ spent <= timeout * (K + 1)
      /\ SerialRead => spent <= timeout
  BY <1>0 DEF RoundsInv
<1>3. timeout * (K + 1) = timeout * K + timeout /\ timeout * K \in Nat
  BY <1>1, Times
<1> HIDE DEF K
<1>4. ASSUME UNCHANGED <<op, kind, nbytes, signals, spent, left>>,
             pc' = pc \/ pc' \notin {"loop", "select"}
      PROVE  RoundsInv'
  <2>1. SerialRead' = SerialRead
    BY <1>4 DEF SerialRead
  <2> QED BY <1>0, <1>4, <2>1 DEF RoundsInv
<1>5. CASE Arrive \/ UNCHANGED vars
  BY <1>4, <1>5 DEF Arrive, vars
<1>6. CASE Selected \/ Expired \/ Fails \/ EndOfFile \/ LoopEnds \/ Drain \/ Return
  BY <1>4, <1>6 DEF Selected, Expired, Fails, EndOfFile, LoopEnds, Drain, Return, AfterLoop
<1>7. CASE dc_iostream_read \/ dc_iostream_write \/ dc_iostream_poll
  <2>1. spent' = 0 /\ left' = -1 /\ nbytes' = 0 /\ signals' = 0
    BY <1>7 DEF dc_iostream_read, dc_iostream_write, dc_iostream_poll, Call
  <2>2. timeout * (0 + 0) \in Nat /\ timeout * (0 + 0 + 1) \in Nat
    BY <1>1, Times
  <2> QED BY <1>1, <2>1, <2>2 DEF RoundsInv
<1>8. CASE Prepare
  <2>1. UNCHANGED <<op, kind, nbytes, signals, spent>> /\ pc = "loop" /\ pc' = "select"
    BY <1>8 DEF Prepare
  <2>2. ~SerialRead => left' = (IF op = "write" THEN -1 ELSE timeout)
    BY <1>1, <1>8 DEF Prepare, SerialRead
  <2>3. op = "write" => left' = -1
    BY <2>2 DEF SerialRead
  <2>4. nbytes' + signals' = K /\ SerialRead' = SerialRead
    BY <2>1 DEF K, SerialRead
  <2>5. ~SerialRead /\ left' >= 0 => spent + left' <= timeout * (K + 1)
    BY <1>1, <1>2, <1>3, <2>1, <2>2
  <2> QED BY <1>2, <2>1, <2>3, <2>4, <2>5 DEF RoundsInv
<1>9. CASE Tick
  <2>1. /\ UNCHANGED <<op, kind, nbytes, signals, pc>> /\ pc = "select"
        /\ left > 0 /\ left' = left - 1 /\ spent' = spent + 1
    BY <1>9 DEF Tick
  <2>2. nbytes' + signals' = K /\ SerialRead' = SerialRead
    BY <2>1 DEF K, SerialRead
  <2>3. op # "write"
    BY <1>2, <2>1
  <2>4. SerialRead => spent + 1 <= timeout
    BY <1>0, <1>1, <2>1 DEF DeadlineInv, TypeInv
  <2>5. spent + 1 <= timeout * (K + 1)
    BY <1>1, <1>2, <1>3, <2>1, <2>4
  <2>6. ~SerialRead /\ left' >= 0 => spent' + left' <= timeout * (K + 1)
    BY <1>1, <1>2, <2>1
  <2> QED BY <2>1, <2>2, <2>3, <2>4, <2>5, <2>6 DEF RoundsInv
<1>10. ASSUME UNCHANGED <<op, kind, spent, left>>, pc' \in {"loop", "drain"},
              NEW l \in Nat, nbytes' + signals' = l, K + 1 <= l
       PROVE  RoundsInv'
  <2>1. K + 1 \in Nat
    BY <1>1
  <2>2. timeout * (K + 1) <= timeout * l
    BY <1>1, <1>10, <2>1, TimesMonotone
  <2>3. timeout * l \in Nat /\ timeout * (l + 1) = timeout * l + timeout
    BY <1>1, <1>10, Times
  <2>4. spent' <= timeout * l /\ spent' <= timeout * (l + 1)
    BY <1>1, <1>2, <1>3, <1>10, <2>2, <2>3
  <2>5. SerialRead' = SerialRead
    BY <1>10 DEF SerialRead
  <2> QED BY <1>2, <1>10, <2>4, <2>5 DEF RoundsInv
<1>11. CASE Interrupted
  <2>1. UNCHANGED <<op, kind, spent, left, nbytes>> /\ signals' = signals + 1
        /\ pc' \in {"loop", "drain"}
    BY <1>11 DEF Interrupted
  <2>2. nbytes' + signals' \in Nat /\ K + 1 <= nbytes' + signals'
    BY <1>1, <2>1 DEF K
  <2> QED BY <1>10, <2>1, <2>2
<1>12. CASE Receive \/ Send
  <2>1. PICK n \in 1 .. size - nbytes : nbytes' = nbytes + n
    BY <1>12 DEF Receive, Send
  <2>2. UNCHANGED <<op, kind, spent, left, signals>> /\ pc' \in {"loop", "drain"}
    BY <1>12 DEF Receive, Send
  <2>3. nbytes' + signals' \in Nat /\ K + 1 <= nbytes' + signals'
    BY <1>0, <1>1, <2>1, <2>2 DEF K, TypeInv
  <2> QED BY <1>10, <2>2, <2>3
<1>13. CASE dc_iostream_purge
  <2>1. UNCHANGED <<kind, spent, left, signals, pc>> /\ pc = "idle" /\ nbytes' = 0
        /\ op' = "none" /\ kind = "serial"
    BY <1>13 DEF dc_iostream_purge
  <2>2. timeout * (signals + 1) = timeout * signals + timeout /\ timeout * signals \in Nat
    BY <1>1, Times
  <2>3. spent <= timeout * (signals + 1)
    <3>1. CASE op = "read"
      BY <1>1, <1>2, <2>1, <2>2, <3>1 DEF SerialRead
    <3>2. CASE op = "write"
      BY <1>1, <1>2, <2>2, <3>2
    <3>3. CASE op \in {"none", "poll"}
      <4>1. K = signals
        BY <1>0, <1>1, <3>3 DEF K, ControlInv
      <4> QED BY <1>2, <4>1
    <3> QED BY <1>0, <3>1, <3>2, <3>3 DEF TypeInv
  <2>4. 0 + signals + 1 = signals + 1
    BY <1>1
  <2> QED BY <2>1, <2>3, <2>4 DEF RoundsInv, SerialRead
<1> QED BY <1>5, <1>6, <1>7, <1>8, <1>9, <1>11, <1>12, <1>13 DEF Next

\* The time before a timeout.
LEMMA ExpiryStep ==
  ASSUME TransportAssumption, IInv, [Next]_vars PROVE ExpiryInv'
<1> USE DEF input, clock, buffer
<1>0. TypeInv /\ DeadlineInv /\ ExpiryInv
  BY DEF IInv
<1>1. CASE Arrive
  BY <1>0, <1>1 DEF TypeInv, ExpiryInv, DeadlineInv, SerialRead, Arrive
<1>2. CASE dc_iostream_read
  BY <1>0, <1>2 DEF TypeInv, ExpiryInv, DeadlineInv, SerialRead, dc_iostream_read, Call
<1>3. CASE dc_iostream_write
  BY <1>0, <1>3 DEF TypeInv, ExpiryInv, DeadlineInv, SerialRead, dc_iostream_write, Call
<1>4. CASE dc_iostream_poll
  BY <1>0, <1>4 DEF TypeInv, ExpiryInv, DeadlineInv, SerialRead, dc_iostream_poll, Call
<1>5. CASE Prepare
  BY <1>0, <1>5 DEF TypeInv, ExpiryInv, DeadlineInv, SerialRead, Prepare, Target
<1>6. CASE Tick
  BY <1>0, <1>6 DEF TypeInv, ExpiryInv, DeadlineInv, SerialRead, Tick
<1>7. CASE Selected
  BY <1>0, <1>7 DEF TypeInv, ExpiryInv, DeadlineInv, SerialRead, Selected
<1>8. CASE Expired
  BY <1>0, <1>8 DEF TypeInv, ExpiryInv, DeadlineInv, SerialRead, Expired
<1>9. CASE Interrupted
  BY <1>0, <1>9 DEF TypeInv, ExpiryInv, DeadlineInv, SerialRead, Interrupted
<1>10. CASE Fails
  BY <1>0, <1>10 DEF TypeInv, ExpiryInv, DeadlineInv, SerialRead, Fails
<1>11. CASE Receive
  BY <1>0, <1>11 DEF TypeInv, ExpiryInv, DeadlineInv, SerialRead, Receive
<1>12. CASE Send
  BY <1>0, <1>12 DEF TypeInv, ExpiryInv, DeadlineInv, SerialRead, Send
<1>13. CASE EndOfFile
  BY <1>0, <1>13 DEF TypeInv, ExpiryInv, DeadlineInv, SerialRead, EndOfFile, AfterLoop, CutShort
<1>14. CASE LoopEnds
  BY <1>0, <1>14 DEF TypeInv, ExpiryInv, DeadlineInv, SerialRead, LoopEnds, AfterLoop
<1>15. CASE Drain
  BY <1>0, <1>15 DEF TypeInv, ExpiryInv, DeadlineInv, SerialRead, Drain
<1>16. CASE Return
  BY <1>0, <1>16 DEF TypeInv, ExpiryInv, DeadlineInv, SerialRead, Return
<1>17. CASE dc_iostream_purge
  BY <1>0, <1>17 DEF TypeInv, ExpiryInv, DeadlineInv, SerialRead, dc_iostream_purge
<1>18. CASE UNCHANGED vars
  BY <1>0, <1>18 DEF ExpiryInv, DeadlineInv, SerialRead, vars
<1> QED BY <1>1, <1>2, <1>3, <1>4, <1>5, <1>6, <1>7, <1>8, <1>9, <1>10, <1>11, <1>12,
           <1>13, <1>14, <1>15, <1>16, <1>17, <1>18 DEF Next

-----------------------------------------------------------------------------
(* The theorems *)

LEMMA InitInv == ASSUME TransportAssumption, Init PROVE IInv
<1>1. TypeInv /\ ControlInv /\ DeadlineInv /\ ExpiryInv
  BY DEF Init, TransportAssumption, TypeInv, ControlInv, DeadlineInv, ExpiryInv, SerialRead
<1>2. OrderInv
  <2>1. line = <<>> /\ data = <<>> /\ arrived = 0 /\ nbytes = 0 /\ op = "none"
    BY DEF Init
  <2>2. 0 - 0 \in Int /\ Len(<<>>) = 0 /\ 0 \in Nat
    OBVIOUS
  <2>3. Counts(<<>>, 0 - 0, 0)
    BY <2>2, CountsNone
  <2>4. <<>> \in Seq(Int)
    BY <2>3 DEF Counts
  <2> QED BY <2>1, <2>2, <2>3, <2>4 DEF OrderInv
<1>3. RoundsInv
  <2> SUFFICES ASSUME timeout >= 0 PROVE RoundsInv
    BY DEF RoundsInv
  <2>1. timeout \in Nat /\ spent = 0 /\ nbytes = 0 /\ signals = 0 /\ op = "none" /\ left = -1
    BY DEF Init, TransportAssumption
  <2>2. timeout * (0 + 0) \in Nat /\ timeout * (0 + 0 + 1) \in Nat
    BY <2>1, Times
  <2> QED BY <2>1, <2>2 DEF RoundsInv
<1> QED BY <1>1, <1>2, <1>3 DEF IInv

LEMMA NextInv == ASSUME TransportAssumption, IInv, [Next]_vars PROVE IInv'
BY TypeStep, ControlStep, OrderStep, DeadlineStep, RoundsStep, ExpiryStep DEF IInv

\* The parts of the invariant together.
THEOREM Invariance ==
  ASSUME TransportAssumption PROVE Spec => []IInv
<1>1. Init => IInv
  BY InitInv
<1>2. IInv /\ [Next]_vars => IInv'
  BY NextInv
<1> QED BY <1>1, <1>2, PTL DEF Spec

\* Types and the bounds of the counters.
THEOREM TypeCorrect ==
  ASSUME TransportAssumption PROVE Spec => []TypeOK
<1>1. IInv => TypeOK
  BY DEF IInv, TypeInv, OrderInv, TypeOK
<1> QED BY <1>1, Invariance, PTL

\* Both parts of the bytes count on from one another.
LEMMA CountsInOrder == ASSUME IInv PROVE BytesInOrder
<1>0. TypeInv /\ ControlInv /\ OrderInv
  BY DEF IInv
<1>1. ASSUME op = "read", NEW i \in DOMAIN (data \o line)
      PROVE  (data \o line)[i] = arrived - Len(data \o line) + i
  <2> DEFINE l == Len(line)
             b == arrived - l - nbytes
  <2>1. l \in Nat /\ nbytes \in Nat /\ arrived \in Nat /\ b \in Int /\ b + nbytes = arrived - l
    BY <1>0 DEF TypeInv, OrderInv
  <2>2. Counts(data, b, nbytes) /\ Counts(line, b + nbytes, l)
    BY <1>0, <1>1, <2>1 DEF OrderInv
  <2>3. arrived - (nbytes + l) = b
    BY <2>1
  <2> HIDE DEF b, l
  <2>4. Counts(data \o line, b, nbytes + l)
    BY <2>1, <2>2, CountsConcat
  <2> DEFINE all == data \o line
  <2>5. all \in Seq(Int) /\ Len(all) = nbytes + l /\ \A j \in 1 .. nbytes + l : all[j] = b + j
    BY <2>4 DEF Counts
  <2>6. i \in DOMAIN all
    OBVIOUS
  <2> HIDE DEF all
  <2>7. i \in 1 .. nbytes + l
    BY <2>5, <2>6, LenProperties
  <2>8. all[i] = arrived - Len(all) + i
    BY <2>3, <2>5, <2>7
  <2> QED BY <2>8 DEF all
<1>2. ASSUME op = "write", NEW i \in DOMAIN data PROVE data[i] = i
  <2>1. Counts(data, 0, nbytes)
    BY <1>0, <1>2 DEF OrderInv
  <2>2. DOMAIN data = 1 .. nbytes
    BY <2>1, LenProperties DEF Counts
  <2> QED BY <1>2, <2>1, <2>2 DEF Counts
<1>3. op \in {"read", "write"} /\ pc = "idle" /\ status = "SUCCESS" =>
        nbytes = size \/ (closed /\ kind = "serial" /\ op = "write")
  BY <1>0 DEF ControlInv
<1> QED BY <1>1, <1>2, <1>3 DEF BytesInOrder

\* The bytes of a read come out in the order they arrived and those of a write
\* go out in order, in whatever pieces and whatever interrupts the call, and a
\* call that succeeds has transferred all of them (the loops of dc_serial_read,
\* dc_serial_write, dc_socket_read and dc_socket_write).
THEOREM TransfersInOrder ==
  ASSUME TransportAssumption PROVE Spec => []BytesInOrder
<1>1. IInv => BytesInOrder
  BY CountsInOrder
<1> QED BY <1>1, Invariance, PTL

\* A serial read takes no longer than its timeout in all, a socket no longer
\* than one for every piece and interruption, and no call times out before its
\* time (the target time of dc_serial_read, the selects of socket.c).
THEOREM CallsInTime ==
  ASSUME TransportAssumption PROVE Spec => []InTime
<1>1. IInv => InTime
  BY DEF IInv, RoundsInv, ExpiryInv, SerialRead, InTime
<1> QED BY <1>1, Invariance, PTL
=============================================================================
