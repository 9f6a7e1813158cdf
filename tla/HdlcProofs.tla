----------------------------- MODULE HdlcProofs -----------------------------
(***************************************************************************)
(* Proofs about the HDLC layer, for payloads of any bytes and length, any  *)
(* number of frames and any sizes of the buffers.                          *)
(*                                                                         *)
(* What is on the way from the writer to the reader is described by the    *)
(* places it leads through: a place says which frame comes next, how many  *)
(* bytes of its payload have passed, and whether the last byte was an      *)
(* escape.  A chunk leads from one place to another; the chunks, one after *)
(* the other, lead from where the reader is to where the writer is.        *)
(***************************************************************************)
EXTENDS Hdlc, SequenceTheorems, TLAPS

Chars == {END, ESC, XEND, XESC} \cup PlainBytes

Places == [frame : Nat, index : Nat, at : {"out", "in", "esc"}]

Place(f, i, a) == [frame |-> f, index |-> i, at |-> a]

\* With the frames S sent, the byte c leads from the place p to the place q.
Follows(S, p, c, q) ==
  LET f == p.frame
      i == p.index
  IN  /\ f \in 1 .. Len(S)
      /\ \/ p.at = "out" /\ i = 0 /\ c = END /\ q = Place(f, 0, "in")
         \/ p.at = "in" /\ i = Len(S[f]) /\ c = END /\ q = Place(f + 1, 0, "out")
         \/ /\ p.at = "in" /\ i < Len(S[f]) /\ ~Special(S[f][i + 1])
            /\ c = S[f][i + 1] /\ q = Place(f, i + 1, "in")
         \/ /\ p.at = "in" /\ i < Len(S[f]) /\ Special(S[f][i + 1])
            /\ c = ESC /\ q = Place(f, i, "esc")
         \/ /\ p.at = "esc" /\ i < Len(S[f]) /\ Special(S[f][i + 1])
            /\ c = Flip(S[f][i + 1]) /\ q = Place(f, i + 1, "in")

\* The bytes s lead from p to q, through the places of g.
Through(S, p, s, q, g) ==
  /\ g \in [0 .. Len(s) -> Places] /\ g[0] = p /\ g[Len(s)] = q
  /\ \A j \in 1 .. Len(s) : Follows(S, g[j - 1], s[j], g[j])

Leads(S, p, s, q) == \E g : Through(S, p, s, q, g)

\* What is read and not looked at (r), the chunks on their way (w) and what
\* is not flushed (b) lead from p to q; m has the places between the chunks.
Marked(S, p, r, w, b, q, m) ==
  /\ m \in [0 .. Len(w) -> Places]
  /\ Leads(S, p, r, m[0])
  /\ \A k \in 1 .. Len(w) : Leads(S, m[k - 1], w[k], m[k])
  /\ Leads(S, m[Len(w)], b, q)

Chain(S, p, r, w, b, q) == \E m : Marked(S, p, r, w, b, q, m)

-----------------------------------------------------------------------------
(* Places and bytes *)

\* Distinct constants: what hdlc.c compares with, and what it writes instead.
LEMMA CharFacts ==
  ASSUME HdlcAssumption
  PROVE  /\ \A c \in Chars : Flip(c) \in Chars
         /\ \A c : Special(c) => ~Special(Flip(c)) /\ Flip(Flip(c)) = c
         /\ Special(END) /\ Special(ESC) /\ END # ESC
         /\ END \in Chars /\ ESC \in Chars
BY DEF HdlcAssumption, Chars, Flip, Special

\* A byte leads from a place to a place.
LEMMA FollowsPlaces ==
  ASSUME NEW S, NEW p \in Places, NEW c, NEW q, Follows(S, p, c, q)
  PROVE  q \in Places
BY DEF Follows, Places, Place

\* No bytes lead from a place to itself, and only there.
LEMMA LeadsEmpty ==
  ASSUME NEW S, NEW p \in Places, NEW q
  PROVE  Leads(S, p, <<>>, q) <=> p = q
<1> DEFINE g == [j \in 0 .. 0 |-> p]
<1>1. Len(<<>>) = 0 /\ 1 .. 0 = {} /\ 0 .. 0 = {0}
  BY EmptySeq
<1>2. Through(S, p, <<>>, p, g)
  BY <1>1 DEF Through
<1>3. ASSUME NEW h, Through(S, p, <<>>, q, h) PROVE p = q
  BY <1>1, <1>3 DEF Through
<1> QED BY <1>2, <1>3 DEF Leads

\* One more byte behind s leads one place further.
LEMMA LeadsAppend ==
  ASSUME NEW S, NEW p, NEW s \in Seq(Chars), NEW q \in Places,
         NEW c \in Chars, NEW r, Leads(S, p, s, q), Follows(S, q, c, r)
  PROVE  Leads(S, p, Append(s, c), r)
<1> DEFINE n == Len(s)
           t == Append(s, c)
<1>1. n \in Nat
  BY LenProperties
<1>2. Len(t) = n + 1 /\ t[n + 1] = c /\ \A j \in 1 .. n : t[j] = s[j]
  BY AppendProperties
<1>3. PICK g : Through(S, p, s, q, g)
  BY DEF Leads
<1>4. r \in Places
  BY FollowsPlaces
<1> DEFINE h == [j \in 0 .. n + 1 |-> IF j = n + 1 THEN r ELSE g[j]]
<1>5. g \in [0 .. n -> Places] /\ g[0] = p /\ g[n] = q
      /\ \A j \in 1 .. n : Follows(S, g[j - 1], s[j], g[j])
  BY <1>3 DEF Through
<1> HIDE DEF n, t
<1>6. h \in [0 .. n + 1 -> Places] /\ h[0] = p /\ h[n + 1] = r /\ h[n] = q
      /\ \A j \in 0 .. n : h[j] = g[j]
  BY <1>1, <1>4, <1>5
<1> HIDE DEF h
<1>7. ASSUME NEW j \in 1 .. n + 1 PROVE Follows(S, h[j - 1], t[j], h[j])
  <2>1. CASE j = n + 1
    <3>1. j - 1 = n
      BY <1>1, <2>1
    <3> QED BY <1>2, <1>6, <2>1, <3>1
  <2>2. CASE j # n + 1
    <3>1. j \in 1 .. n /\ j - 1 \in 0 .. n /\ j \in 0 .. n
      BY <1>1, <2>2
    <3> QED BY <1>2, <1>5, <1>6, <3>1
  <2> QED BY <2>1, <2>2
<1> QED BY <1>2, <1>6, <1>7 DEF Through, Leads, t

\* The first byte of s leads to a place from which the rest of s leads on.
LEMMA LeadsHead ==
  ASSUME NEW S, NEW p, NEW s \in Seq(Chars), s # <<>>, NEW q, Leads(S, p, s, q)
  PROVE  \E r \in Places : Follows(S, p, Head(s), r) /\ Leads(S, r, Tail(s), q)
<1> DEFINE n == Len(s)
           t == Tail(s)
<1>1. n \in Nat /\ n >= 1 /\ s[1] = Head(s)
  BY LenProperties, EmptySeq
<1>2. Len(t) = n - 1 /\ \A j \in 1 .. n - 1 : t[j] = s[j + 1]
  BY HeadTailProperties
<1>3. PICK g : Through(S, p, s, q, g)
  BY DEF Leads
<1>4. g \in [0 .. n -> Places] /\ g[0] = p /\ g[n] = q
      /\ \A j \in 1 .. n : Follows(S, g[j - 1], s[j], g[j])
  BY <1>3 DEF Through
<1> DEFINE h == [j \in 0 .. n - 1 |-> g[j + 1]]
<1> HIDE DEF n, t
<1>5. h \in [0 .. n - 1 -> Places] /\ h[0] = g[1] /\ h[n - 1] = q
      /\ \A j \in 0 .. n - 1 : h[j] = g[j + 1]
  BY <1>1, <1>4
<1> HIDE DEF h
<1>6. ASSUME NEW j \in 1 .. n - 1 PROVE Follows(S, h[j - 1], t[j], h[j])
  <2>1. j + 1 \in 1 .. n /\ (j + 1) - 1 = j /\ j - 1 \in 0 .. n - 1 /\ j \in 0 .. n - 1
        /\ (j - 1) + 1 = j
    BY <1>1
  <2>2. h[j - 1] = g[j] /\ h[j] = g[j + 1] /\ t[j] = s[j + 1]
    BY <1>2, <1>5, <2>1
  <2>3. Follows(S, g[(j + 1) - 1], s[j + 1], g[j + 1])
    BY <1>4, <2>1
  <2> QED BY <2>1, <2>2, <2>3
<1>7. Leads(S, g[1], t, q)
  BY <1>2, <1>5, <1>6 DEF Through, Leads
<1>8. 1 \in 1 .. n /\ 1 - 1 = 0 /\ 1 \in 0 .. n
  BY <1>1
<1>9. Follows(S, p, Head(s), g[1]) /\ g[1] \in Places
  BY <1>1, <1>4, <1>8
<1> QED BY <1>7, <1>9 DEF t

\* The frames sent later do not change where bytes lead.
LEMMA LeadsMore ==
  ASSUME NEW S \in Seq(Seq(Chars)), NEW x \in Seq(Chars),
         NEW p, NEW s, NEW q, Leads(S, p, s, q)
  PROVE  Leads(Append(S, x), p, s, q)
<1> DEFINE T == Append(S, x)
<1>1. Len(S) \in Nat /\ Len(T) = Len(S) + 1 /\ \A f \in 1 .. Len(S) : T[f] = S[f]
  BY AppendProperties, LenProperties
<1> HIDE DEF T
<1>2. ASSUME NEW a, NEW c, NEW b, Follows(S, a, c, b) PROVE Follows(T, a, c, b)
  <2>1. a.frame \in 1 .. Len(S) /\ a.frame \in 1 .. Len(T) /\ T[a.frame] = S[a.frame]
    BY <1>1, <1>2 DEF Follows
  <2> QED BY <1>2, <2>1, Zenon DEF Follows
<1>3. Leads(T, p, s, q)
  BY <1>2 DEF Leads, Through
<1> QED BY <1>3 DEF T

-----------------------------------------------------------------------------
(* What is on its way *)

\* Nothing on its way: the reader is where the writer is.
LEMMA ChainEmpty ==
  ASSUME NEW S, NEW p \in Places
  PROVE  Chain(S, p, <<>>, <<>>, <<>>, p)
<1> DEFINE m == [k \in 0 .. 0 |-> p]
<1>1. Len(<<>>) = 0 /\ 1 .. 0 = {} /\ m \in [0 .. 0 -> Places] /\ m[0] = p
  BY EmptySeq
<1>2. Leads(S, p, <<>>, p)
  BY LeadsEmpty
<1> HIDE DEF m
<1> QED BY <1>1, <1>2 DEF Marked, Chain

\* A byte into the write buffer.
LEMMA ChainPut ==
  ASSUME NEW S, NEW p, NEW r, NEW w \in Seq(Seq(Chars)), NEW b \in Seq(Chars), NEW q \in Places,
         NEW c \in Chars, NEW t, Chain(S, p, r, w, b, q), Follows(S, q, c, t)
  PROVE  Chain(S, p, r, w, Append(b, c), t)
<1>1. PICK m : Marked(S, p, r, w, b, q, m)
  BY DEF Chain
<1>2. Leads(S, m[Len(w)], Append(b, c), t)
  BY <1>1, LeadsAppend DEF Marked
<1> QED BY <1>1, <1>2 DEF Marked, Chain

\* The write buffer is flushed.
LEMMA ChainFlush ==
  ASSUME NEW S, NEW p, NEW r, NEW w \in Seq(Seq(Chars)), NEW b \in Seq(Chars), NEW q \in Places,
         Chain(S, p, r, w, b, q)
  PROVE  Chain(S, p, r, Append(w, b), <<>>, q)
<1> DEFINE n == Len(w)
           v == Append(w, b)
<1>1. n \in Nat /\ Len(v) = n + 1 /\ v[n + 1] = b /\ \A k \in 1 .. n : v[k] = w[k]
  BY LenProperties, AppendProperties
<1>2. PICK m : Marked(S, p, r, w, b, q, m)
  BY DEF Chain
<1>3. /\ m \in [0 .. n -> Places] /\ Leads(S, p, r, m[0])
      /\ \A k \in 1 .. n : Leads(S, m[k - 1], w[k], m[k])
      /\ Leads(S, m[n], b, q)
  BY <1>2 DEF Marked
<1> DEFINE l == [k \in 0 .. n + 1 |-> IF k = n + 1 THEN q ELSE m[k]]
<1> HIDE DEF n, v
<1>4. l \in [0 .. n + 1 -> Places] /\ l[0] = m[0] /\ l[n + 1] = q /\ \A k \in 0 .. n : l[k] = m[k]
  BY <1>1, <1>3
<1> HIDE DEF l
<1>5. ASSUME NEW k \in 1 .. n + 1 PROVE Leads(S, l[k - 1], v[k], l[k])
  <2>1. CASE k = n + 1
    <3>1. k - 1 = n /\ n \in 0 .. n
      BY <1>1, <2>1
    <3> QED BY <1>1, <1>3, <1>4, <2>1, <3>1
  <2>2. CASE k # n + 1
    <3>1. k \in 1 .. n /\ k - 1 \in 0 .. n /\ k \in 0 .. n
      BY <1>1, <2>2
    <3> QED BY <1>1, <1>3, <1>4, <3>1
  <2> QED BY <2>1, <2>2
<1>6. Leads(S, l[n + 1], <<>>, q)
  BY <1>4, LeadsEmpty
<1>7. Marked(S, p, r, v, <<>>, q, l)
  BY <1>1, <1>3, <1>4, <1>5, <1>6 DEF Marked
<1> QED BY <1>7 DEF Chain, v

\* The reader looks at the next byte.
LEMMA ChainTake ==
  ASSUME NEW S, NEW p, NEW r \in Seq(Chars), r # <<>>, NEW w, NEW b, NEW q,
         Chain(S, p, r, w, b, q)
  PROVE  \E t \in Places : Follows(S, p, Head(r), t) /\ Chain(S, t, Tail(r), w, b, q)
<1>1. PICK m : Marked(S, p, r, w, b, q, m)
  BY DEF Chain
<1>2. PICK t \in Places : Follows(S, p, Head(r), t) /\ Leads(S, t, Tail(r), m[0])
  BY <1>1, LeadsHead DEF Marked
<1>3. Marked(S, t, Tail(r), w, b, q, m)
  BY <1>1, <1>2 DEF Marked
<1> QED BY <1>2, <1>3 DEF Chain

\* The reader takes the next chunk.
LEMMA ChainNext ==
  ASSUME NEW S, NEW p \in Places, NEW w \in Seq(Seq(Chars)), w # <<>>, NEW b, NEW q,
         Chain(S, p, <<>>, w, b, q)
  PROVE  Chain(S, p, Head(w), Tail(w), b, q)
<1> DEFINE n == Len(w)
           v == Tail(w)
<1>1. n \in Nat /\ n >= 1 /\ w[1] = Head(w)
  BY LenProperties, EmptySeq
<1>2. Len(v) = n - 1 /\ \A k \in 1 .. n - 1 : v[k] = w[k + 1]
  BY HeadTailProperties
<1>3. PICK m : Marked(S, p, <<>>, w, b, q, m)
  BY DEF Chain
<1>4. /\ m \in [0 .. n -> Places] /\ Leads(S, p, <<>>, m[0])
      /\ \A k \in 1 .. n : Leads(S, m[k - 1], w[k], m[k])
      /\ Leads(S, m[n], b, q)
  BY <1>3 DEF Marked
<1>5. m[0] = p
  BY <1>4, LeadsEmpty
<1> DEFINE l == [k \in 0 .. n - 1 |-> m[k + 1]]
<1> HIDE DEF n, v
<1>6. l \in [0 .. n - 1 -> Places] /\ l[0] = m[1] /\ l[n - 1] = m[n]
      /\ \A k \in 0 .. n - 1 : l[k] = m[k + 1]
  BY <1>1, <1>4
<1> HIDE DEF l
<1>7. ASSUME NEW k \in 1 .. n - 1 PROVE Leads(S, l[k - 1], v[k], l[k])
  <2>1. k + 1 \in 1 .. n /\ (k + 1) - 1 = k /\ k - 1 \in 0 .. n - 1 /\ k \in 0 .. n - 1
        /\ (k - 1) + 1 = k
    BY <1>1
  <2>2. l[k - 1] = m[k] /\ l[k] = m[k + 1] /\ v[k] = w[k + 1]
    BY <1>2, <1>6, <2>1
  <2>3. Leads(S, m[(k + 1) - 1], w[k + 1], m[k + 1])
    BY <1>4, <2>1
  <2> QED BY <2>1, <2>2, <2>3
<1>8. Leads(S, p, Head(w), m[1])
  <2>1. 1 \in 1 .. n /\ 1 - 1 = 0
    BY <1>1
  <2>2. Leads(S, m[1 - 1], w[1], m[1])
    BY <1>4, <2>1
  <2> QED BY <1>1, <1>5, <2>1, <2>2
<1>9. Marked(S, p, Head(w), v, b, q, l)
  BY <1>2, <1>4, <1>6, <1>7, <1>8 DEF Marked
<1> QED BY <1>9 DEF Chain, v

\* One more frame is sent.
LEMMA ChainMore ==
  ASSUME NEW S \in Seq(Seq(Chars)), NEW x \in Seq(Chars),
         NEW p, NEW r, NEW w, NEW b, NEW q, Chain(S, p, r, w, b, q)
  PROVE  Chain(Append(S, x), p, r, w, b, q)
<1>1. PICK m : Marked(S, p, r, w, b, q, m)
  BY DEF Chain
<1>2. Marked(Append(S, x), p, r, w, b, q, m)
  BY <1>1, LeadsMore DEF Marked
<1> QED BY <1>2 DEF Chain

-----------------------------------------------------------------------------
(* The inductive invariant *)

Results == [status : {"SUCCESS", "IO", "FAILED"}, size : Nat, data : Seq(Chars)]

TypeInv ==
  /\ TypeOK
  /\ todo \in Seq(Chars) /\ wbuf \in Seq(Chars) /\ wire \in Seq(Seq(Chars))
  /\ rbuf \in Seq(Chars) /\ data \in Seq(Chars) /\ size \in Nat
  /\ sent \in Seq(Seq(Chars)) /\ received \in Seq(Results)

\* The n bytes t are the last ones of s.
Rest(t, s) ==
  /\ Len(t) <= Len(s)
  /\ \A j \in 1 .. Len(t) : t[j] = s[(Len(s) - Len(t)) + j]

\* What dc_hdlc_write still has to write is the rest of its frame.
WriterInv ==
  /\ wpc = "idle" => todo = <<>> /\ wbuf = <<>>
  /\ wpc # "idle" => sent # <<>> /\ Rest(todo, sent[Len(sent)])
  /\ wpc = "start" => todo = sent[Len(sent)]
  /\ wpc = "escaped" => todo # <<>> /\ Special(Head(todo))

Started(d, s) == Len(d) <= Len(s) /\ \A j \in 1 .. Len(d) : d[j] = s[j]

\* What dc_hdlc_read has of its frame are the first bytes of it.
ReaderInv ==
  /\ rpc = "read" /\ ~initialized => data = <<>> /\ ~escaped
  /\ intact /\ rpc = "read" /\ initialized =>
       Len(received) < Len(sent) /\ Started(data, sent[Len(received) + 1])

WriterPlace ==
  IF wpc = "idle" THEN Place(Len(sent) + 1, 0, "out")
  ELSE IF wpc = "start" THEN Place(Len(sent), 0, "out")
  ELSE Place(Len(sent), Len(sent[Len(sent)]) - Len(todo), IF wpc = "escaped" THEN "esc" ELSE "in")

ReaderPlace ==
  IF rpc = "read" /\ initialized
    THEN Place(Len(received) + 1, Len(data), IF escaped THEN "esc" ELSE "in")
    ELSE Place(Len(received) + 1, 0, "out")

\* As long as nothing failed, what is on its way leads from the one to the other.
FlightInv == intact => Chain(sent, ReaderPlace, rbuf, wire, wbuf, WriterPlace)

IInv == TypeInv /\ WriterInv /\ ReaderInv /\ FlightInv /\ FramesArrive

-----------------------------------------------------------------------------
(* Lemmas for the steps *)

LEMMA PlaceFacts ==
  ASSUME TypeInv, WriterInv
  PROVE  WriterPlace \in Places /\ ReaderPlace \in Places
<1>1. Len(sent) \in Nat /\ Len(received) \in Nat /\ Len(data) \in Nat /\ Len(todo) \in Nat
  BY LenProperties DEF TypeInv
<1>2. wpc # "idle" => Len(sent[Len(sent)]) - Len(todo) \in Nat
  <2> SUFFICES ASSUME wpc # "idle" PROVE Len(sent[Len(sent)]) - Len(todo) \in Nat
    OBVIOUS
  <2>1. Len(sent) \in 1 .. Len(sent)
    BY <1>1, EmptySeq DEF TypeInv, WriterInv
  <2>2. Len(sent[Len(sent)]) \in Nat
    BY <2>1, ElementOfSeq, LenProperties DEF TypeInv
  <2> QED BY <1>1, <2>2 DEF WriterInv, Rest
<1> QED BY <1>1, <1>2 DEF WriterPlace, ReaderPlace, Place, Places

\* A byte into the write buffer: hdlc.c stores it before it looks whether
\* the buffer is full, so that there is always room for the next one.
LEMMA PutFacts ==
  ASSUME HdlcAssumption, TypeInv, NEW c \in Chars, Put(c)
  PROVE  /\ wbuf' \in Seq(Chars) /\ wire' \in Seq(Seq(Chars))
         /\ Len(wbuf') < osize /\ \A i \in DOMAIN wire' : Len(wire'[i]) <= osize
         /\ \A S, p, t : \A q \in Places :
              Chain(S, p, rbuf, wire, wbuf, q) /\ Follows(S, q, c, t)
                => Chain(S, p, rbuf, wire', wbuf', t)
<1> DEFINE b == Append(wbuf, c)
<1>1. /\ wbuf \in Seq(Chars) /\ wire \in Seq(Seq(Chars)) /\ Len(wbuf) \in Nat
      /\ osize \in Nat /\ osize >= 1 /\ Len(wbuf) < osize
      /\ \A i \in DOMAIN wire : Len(wire[i]) <= osize
      /\ DOMAIN wire = 1 .. Len(wire) /\ Len(wire) \in Nat
  BY LenProperties DEF HdlcAssumption, TypeInv, TypeOK
<1>2. b \in Seq(Chars) /\ Len(b) = Len(wbuf) + 1
  BY <1>1, AppendProperties
<1>3. ASSUME NEW S, NEW p, NEW t, NEW q \in Places,
             Chain(S, p, rbuf, wire, wbuf, q), Follows(S, q, c, t)
      PROVE  Chain(S, p, rbuf, wire, b, t) /\ t \in Places
  BY <1>1, <1>3, ChainPut, FollowsPlaces
<1> HIDE DEF b
<1>4. CASE Len(wbuf) + 1 >= osize
  <2>1. wbuf' = <<>> /\ wire' = Append(wire, b)
    BY <1>4 DEF Put, b
  <2>2. wbuf' \in Seq(Chars) /\ Len(wbuf') = 0
    BY <2>1, EmptySeq
  <2>3. /\ wire' \in Seq(Seq(Chars)) /\ Len(wire') = Len(wire) + 1
        /\ wire'[Len(wire) + 1] = b /\ \A i \in 1 .. Len(wire) : wire'[i] = wire[i]
    BY <1>1, <1>2, <2>1, AppendProperties
  <2>4. ASSUME NEW i \in DOMAIN wire' PROVE Len(wire'[i]) <= osize
    <3>1. i \in 1 .. Len(wire) + 1
      BY <2>3, LenProperties
    <3>2. CASE i = Len(wire) + 1
      BY <1>1, <1>2, <2>3, <3>2
    <3>3. CASE i # Len(wire) + 1
      <4>1. i \in 1 .. Len(wire)
        BY <1>1, <3>1, <3>3
      <4> QED BY <1>1, <2>3, <4>1
    <3> QED BY <3>2, <3>3
  <2>5. ASSUME NEW S, NEW p, NEW t, NEW q \in Places,
               Chain(S, p, rbuf, wire, wbuf, q), Follows(S, q, c, t)
        PROVE  Chain(S, p, rbuf, wire', wbuf', t)
    BY <1>1, <1>2, <1>3, <2>1, <2>5, ChainFlush
  <2> QED BY <1>1, <2>2, <2>3, <2>4, <2>5
<1>5. CASE ~(Len(wbuf) + 1 >= osize)
  <2>1. wbuf' = b /\ wire' = wire
    BY <1>5 DEF Put, b
  <2> QED BY <1>1, <1>2, <1>3, <1>5, <2>1
<1> QED BY <1>4, <1>5

\* The byte dc_hdlc_write is at, and what it has left behind that byte.
LEMMA RestFacts ==
  ASSUME NEW t \in Seq(Chars), NEW s \in Seq(Chars), Rest(t, s), t # <<>>
  PROVE  /\ Len(s) - Len(t) \in Nat /\ Len(s) - Len(t) < Len(s)
         /\ Head(t) \in Chars /\ Head(t) = s[(Len(s) - Len(t)) + 1]
         /\ Tail(t) \in Seq(Chars) /\ Rest(Tail(t), s)
         /\ Len(s) - Len(Tail(t)) = (Len(s) - Len(t)) + 1
<1> DEFINE n == Len(t)
           k == Len(s)
           u == Tail(t)
<1>1. n \in Nat /\ k \in Nat /\ n >= 1 /\ n <= k /\ Head(t) = t[1]
  BY LenProperties, EmptySeq DEF Rest
<1>2. /\ Head(t) \in Chars /\ u \in Seq(Chars) /\ Len(u) = n - 1
      /\ \A i \in 1 .. n - 1 : u[i] = t[i + 1]
  BY HeadTailProperties
<1>3. \A j \in 1 .. n : t[j] = s[(k - n) + j]
  BY DEF Rest
<1> HIDE DEF n, k, u
<1>4. ASSUME NEW j \in 1 .. n - 1 PROVE u[j] = s[(k - (n - 1)) + j]
  <2>1. j + 1 \in 1 .. n /\ (k - n) + (j + 1) = (k - (n - 1)) + j
    BY <1>1
  <2> QED BY <1>2, <1>3, <2>1
<1>5. 1 \in 1 .. n /\ k - (n - 1) = (k - n) + 1
  BY <1>1
<1>6. k - n \in Nat /\ k - n < k /\ n - 1 <= k
  BY <1>1
<1>7. Head(t) = s[(k - n) + 1]
  BY <1>1, <1>3, <1>5
<1> USE DEF n, k, u
<1>8. Rest(u, s)
  BY <1>2, <1>4, <1>6 DEF Rest
<1> QED BY <1>2, <1>5, <1>6, <1>7, <1>8

\* Steps of the writer leave the reader alone.
LEMMA ReaderKept ==
  ASSUME ReaderInv, FramesArrive, UNCHANGED <<reader, sent, received, intact>>
  PROVE  ReaderInv' /\ FramesArrive' /\ ReaderPlace' = ReaderPlace
BY DEF ReaderInv, FramesArrive, Delivers, ReaderPlace, reader

\* Steps of the reader leave the writer alone.
LEMMA WriterKept ==
  ASSUME WriterInv, UNCHANGED <<writer, sent>>
  PROVE  WriterInv' /\ WriterPlace' = WriterPlace
BY DEF WriterInv, WriterPlace, writer

-----------------------------------------------------------------------------
(* Steps of the writer *)

LEMMA WriteInv ==
  ASSUME HdlcAssumption, IInv, NEW p \in Payloads, Write(p)
  PROVE  IInv'
<1> USE DEF IInv
<1>1. /\ wpc = "idle" /\ sent' = Append(sent, p) /\ todo' = p /\ wbuf' = <<>> /\ wpc' = "start"
      /\ UNCHANGED <<osize, wire, rbuf, received, intact>>
      /\ UNCHANGED <<rpc, initialized, escaped, data, size, rstatus>>
  BY DEF Write, reader
<1>2. p \in Seq(Chars)
  BY DEF HdlcAssumption, Chars
<1>3. /\ sent \in Seq(Seq(Chars)) /\ Len(sent) \in Nat /\ sent' \in Seq(Seq(Chars))
      /\ Len(sent') = Len(sent) + 1 /\ sent'[Len(sent) + 1] = p
      /\ \A f \in 1 .. Len(sent) : sent'[f] = sent[f]
  BY <1>1, <1>2, AppendProperties, LenProperties DEF TypeInv
<1>4. wbuf = <<>> /\ todo = <<>>
  BY <1>1 DEF WriterInv
<1>5. TypeInv'
  BY <1>1, <1>2, <1>3, <1>4 DEF TypeInv, TypeOK
<1>6. WriterInv'
  <2>1. sent' # <<>> /\ todo' = sent'[Len(sent')]
    BY <1>1, <1>3, EmptySeq
  <2>2. Len(p) \in Nat /\ \A j \in 1 .. Len(p) : (Len(p) - Len(p)) + j = j
    BY <1>2, LenProperties
  <2>3. Rest(p, p)
    BY <2>2 DEF Rest
  <2> QED BY <1>1, <2>1, <2>3 DEF WriterInv
<1>7. Len(received) \in Nat /\ DOMAIN received = 1 .. Len(received)
  BY LenProperties DEF TypeInv
<1>8. ReaderInv'
  <2>1. rpc' = "read" /\ ~initialized' => data' = <<>> /\ ~escaped'
    BY <1>1 DEF ReaderInv
  <2>2. ASSUME intact', rpc' = "read", initialized'
        PROVE  Len(received') < Len(sent') /\ Started(data', sent'[Len(received') + 1])
    <3>1. Len(received) < Len(sent) /\ Started(data, sent[Len(received) + 1])
      BY <1>1, <2>2 DEF ReaderInv
    <3>2. Len(received) + 1 \in 1 .. Len(sent)
      BY <1>3, <1>7, <3>1
    <3> QED BY <1>1, <1>3, <1>7, <3>1, <3>2
  <2> QED BY <2>1, <2>2 DEF ReaderInv
<1>9. FramesArrive'
  <2> SUFFICES ASSUME intact
               PROVE  /\ Len(received') <= Len(sent')
                      /\ \A i \in DOMAIN received' : Delivers(received'[i], sent'[i])
    BY <1>1 DEF FramesArrive, Delivers
  <2>1. Len(received) <= Len(sent) /\ \A i \in DOMAIN received : Delivers(received[i], sent[i])
    BY DEF FramesArrive
  <2>2. ASSUME NEW i \in DOMAIN received PROVE sent'[i] = sent[i]
    <3>1. i \in 1 .. Len(sent)
      BY <1>3, <1>7, <2>1
    <3> QED BY <1>3, <3>1
  <2> QED BY <1>1, <1>3, <1>7, <2>1, <2>2
<1>10. FlightInv'
  <2> SUFFICES ASSUME intact PROVE Chain(sent', ReaderPlace', rbuf', wire', wbuf', WriterPlace')
    BY <1>1 DEF FlightInv
  <2>1. Chain(sent, ReaderPlace, rbuf, wire, wbuf, WriterPlace)
    BY DEF FlightInv
  <2>2. Chain(sent', ReaderPlace, rbuf, wire, wbuf, WriterPlace)
    BY <1>1, <1>2, <1>3, <2>1, ChainMore
  <2>3. ReaderPlace' = ReaderPlace
    BY <1>1 DEF ReaderPlace
  <2>4. WriterPlace' = WriterPlace
    BY <1>1, <1>3 DEF WriterPlace
  <2> QED BY <1>1, <1>4, <2>2, <2>3, <2>4
<1> QED BY <1>5, <1>6, <1>8, <1>9, <1>10

\* A step of the writer that puts the byte that follows next.
LEMMA PutInv ==
  ASSUME HdlcAssumption, IInv, NEW c \in Chars, Put(c),
         UNCHANGED <<osize, rbuf, reader, sent, received, intact>>,
         wpc' \in {"body", "escaped"}, todo' \in Seq(Chars), WriterInv',
         Follows(sent, WriterPlace, c, WriterPlace')
  PROVE  IInv'
<1>1. /\ wbuf' \in Seq(Chars) /\ wire' \in Seq(Seq(Chars))
      /\ Len(wbuf') < osize /\ \A i \in DOMAIN wire' : Len(wire'[i]) <= osize
  BY PutFacts DEF IInv
<1>2. TypeInv'
  BY <1>1 DEF IInv, TypeInv, TypeOK, reader
<1>3. ReaderInv' /\ FramesArrive' /\ ReaderPlace' = ReaderPlace
  BY ReaderKept DEF IInv
<1>4. FlightInv'
  <2> SUFFICES ASSUME intact PROVE Chain(sent, ReaderPlace, rbuf, wire', wbuf', WriterPlace')
    BY <1>3 DEF FlightInv
  <2>1. Chain(sent, ReaderPlace, rbuf, wire, wbuf, WriterPlace) /\ WriterPlace \in Places
    BY PlaceFacts DEF IInv, FlightInv
  <2> HIDE DEF WriterPlace, ReaderPlace
  <2> QED BY <2>1, PutFacts DEF IInv
<1> QED BY <1>2, <1>3, <1>4 DEF IInv

\* Where the writer is while it writes a frame.
LEMMA WritingFacts ==
  ASSUME IInv, wpc # "idle"
  PROVE  /\ Len(sent) \in 1 .. Len(sent) /\ sent[Len(sent)] \in Seq(Chars)
         /\ Len(sent[Len(sent)]) \in Nat /\ todo \in Seq(Chars) /\ Len(todo) \in Nat
         /\ Rest(todo, sent[Len(sent)])
         /\ Len(todo) <= Len(sent[Len(sent)])
<1>1. sent \in Seq(Seq(Chars)) /\ sent # <<>> /\ Rest(todo, sent[Len(sent)]) /\ todo \in Seq(Chars)
  BY DEF IInv, TypeInv, WriterInv
<1>2. Len(sent) \in 1 .. Len(sent)
  BY <1>1, EmptySeq, LenProperties
<1>3. sent[Len(sent)] \in Seq(Chars)
  BY <1>1, <1>2, ElementOfSeq
<1> QED BY <1>1, <1>2, <1>3, LenProperties DEF Rest

LEMMA WriteStartInv == ASSUME HdlcAssumption, IInv, WriteStart PROVE IInv'
<1>1. /\ wpc = "start" /\ Put(END) /\ wpc' = "body"
      /\ UNCHANGED <<osize, todo, rbuf, reader, sent, received, intact>>
  BY DEF WriteStart
<1>2. /\ Len(sent) \in 1 .. Len(sent) /\ Len(todo) \in Nat /\ todo \in Seq(Chars)
      /\ Rest(todo, sent[Len(sent)]) /\ todo = sent[Len(sent)]
  BY <1>1, WritingFacts DEF IInv, WriterInv
<1>3. WriterInv'
  BY <1>1, <1>2 DEF IInv, WriterInv
<1>4. WriterPlace = Place(Len(sent), 0, "out") /\ WriterPlace' = Place(Len(sent), 0, "in")
  BY <1>1, <1>2 DEF WriterPlace
<1>5. Follows(sent, WriterPlace, END, WriterPlace')
  BY <1>2, <1>4 DEF Follows, Place
<1>6. END \in Chars
  BY DEF Chars
<1> QED BY <1>1, <1>2, <1>3, <1>5, <1>6, PutInv

LEMMA WriteEscapeInv == ASSUME HdlcAssumption, IInv, WriteEscape PROVE IInv'
<1> DEFINE f == Len(sent)
           s == sent[Len(sent)]
           i == Len(sent[Len(sent)]) - Len(todo)
<1>1. /\ wpc = "body" /\ todo # <<>> /\ Special(Head(todo)) /\ Put(ESC) /\ wpc' = "escaped"
      /\ UNCHANGED <<osize, todo, rbuf, reader, sent, received, intact>>
  BY DEF WriteEscape
<1>2. /\ f \in 1 .. f /\ todo \in Seq(Chars) /\ s \in Seq(Chars) /\ Rest(todo, s)
  BY <1>1, WritingFacts
<1>3. i \in Nat /\ i < Len(s) /\ Head(todo) = s[i + 1]
  BY <1>1, <1>2, RestFacts
<1>4. WriterInv'
  BY <1>1 DEF IInv, WriterInv
<1>5. WriterPlace = Place(f, i, "in") /\ WriterPlace' = Place(f, i, "esc")
  BY <1>1 DEF WriterPlace
<1>6. Follows(sent, WriterPlace, ESC, WriterPlace')
  BY <1>1, <1>2, <1>3, <1>5 DEF Follows, Place
<1>7. ESC \in Chars
  BY DEF Chars
<1> QED BY <1>1, <1>2, <1>4, <1>6, <1>7, PutInv

LEMMA WriteByteInv == ASSUME HdlcAssumption, IInv, WriteByte PROVE IInv'
<1> DEFINE f == Len(sent)
           s == sent[Len(sent)]
           i == Len(sent[Len(sent)]) - Len(todo)
           h == Head(todo)
<1>1. /\ todo' = Tail(todo) /\ wpc' = "body" /\ todo # <<>> /\ wpc \in {"body", "escaped"}
      /\ UNCHANGED <<osize, rbuf, reader, sent, received, intact>>
  BY DEF WriteByte, IInv, WriterInv
<1>2. /\ f \in 1 .. f /\ todo \in Seq(Chars) /\ s \in Seq(Chars) /\ Rest(todo, s)
  BY <1>1, WritingFacts
<1>3. /\ i \in Nat /\ i < Len(s) /\ h \in Chars /\ h = s[i + 1] /\ Tail(todo) \in Seq(Chars)
      /\ Rest(Tail(todo), s) /\ Len(s) - Len(Tail(todo)) = i + 1
  BY <1>1, <1>2, RestFacts
<1>4. WriterInv'
  BY <1>1, <1>3 DEF IInv, WriterInv
<1>5. WriterPlace' = Place(f, i + 1, "in")
  BY <1>1, <1>3 DEF WriterPlace
<1>6. CASE wpc = "body"
  <2>1. ~Special(h) /\ Put(h)
    BY <1>6 DEF WriteByte
  <2>2. WriterPlace = Place(f, i, "in")
    BY <1>6 DEF WriterPlace
  <2>3. Follows(sent, WriterPlace, h, WriterPlace')
    BY <1>2, <1>3, <1>5, <2>1, <2>2 DEF Follows, Place
  <2> QED BY <1>1, <1>3, <1>4, <2>1, <2>3, PutInv
<1>7. CASE wpc = "escaped"
  <2>1. Special(h) /\ Put(Flip(h))
    BY <1>7 DEF WriteByte, IInv, WriterInv
  <2>2. WriterPlace = Place(f, i, "esc")
    BY <1>7 DEF WriterPlace
  <2>3. Follows(sent, WriterPlace, Flip(h), WriterPlace')
    BY <1>2, <1>3, <1>5, <2>1, <2>2 DEF Follows, Place
  <2>4. Flip(h) \in Chars
    BY <1>3, CharFacts
  <2> QED BY <1>1, <1>3, <1>4, <2>1, <2>3, <2>4, PutInv
<1> QED BY <1>1, <1>6, <1>7

LEMMA WriteEndInv == ASSUME HdlcAssumption, IInv, WriteEnd PROVE IInv'
<1> DEFINE f == Len(sent)
           b == Append(wbuf, END)
<1>1. /\ wpc = "body" /\ todo = <<>> /\ wire' = Append(wire, b) /\ wbuf' = <<>> /\ wpc' = "idle"
      /\ UNCHANGED <<osize, todo, rbuf, reader, sent, received, intact>>
  BY DEF WriteEnd
<1>2. f \in 1 .. f /\ Len(sent[f]) \in Nat /\ Len(<<>>) = 0
  BY <1>1, WritingFacts, EmptySeq
<1>3. /\ wbuf \in Seq(Chars) /\ wire \in Seq(Seq(Chars)) /\ Len(wbuf) \in Nat
      /\ osize \in Nat /\ Len(wbuf) < osize /\ \A i \in DOMAIN wire : Len(wire[i]) <= osize
      /\ DOMAIN wire = 1 .. Len(wire) /\ Len(wire) \in Nat /\ END \in Chars
  BY LenProperties DEF HdlcAssumption, IInv, TypeInv, TypeOK, Chars
<1>4. b \in Seq(Chars) /\ Len(b) = Len(wbuf) + 1
  BY <1>3, AppendProperties
<1> HIDE DEF b
<1>5. /\ wire' \in Seq(Seq(Chars)) /\ Len(wire') = Len(wire) + 1
      /\ wire'[Len(wire) + 1] = b /\ \A i \in 1 .. Len(wire) : wire'[i] = wire[i]
  BY <1>1, <1>3, <1>4, AppendProperties
<1>6. ASSUME NEW i \in DOMAIN wire' PROVE Len(wire'[i]) <= osize
  <2>1. i \in 1 .. Len(wire) + 1
    BY <1>5, LenProperties
  <2>2. CASE i = Len(wire) + 1
    BY <1>3, <1>4, <1>5, <2>2
  <2>3. CASE i # Len(wire) + 1
    <3>1. i \in 1 .. Len(wire)
      BY <1>3, <2>1, <2>3
    <3> QED BY <1>3, <1>5, <3>1
  <2> QED BY <2>2, <2>3
<1>7. TypeInv'
  <2>1. wbuf' \in Seq(Chars) /\ Len(wbuf') < osize
    BY <1>1, <1>2, <1>3, EmptySeq
  <2> QED BY <1>1, <1>5, <1>6, <2>1 DEF IInv, TypeInv, TypeOK, reader
<1>8. WriterInv'
  BY <1>1 DEF WriterInv
<1>9. ReaderInv' /\ FramesArrive' /\ ReaderPlace' = ReaderPlace
  BY <1>1, ReaderKept DEF IInv
<1>10. FlightInv'
  <2> SUFFICES ASSUME intact PROVE Chain(sent, ReaderPlace, rbuf, wire', wbuf', WriterPlace')
    BY <1>1, <1>9 DEF FlightInv
  <2>1. Chain(sent, ReaderPlace, rbuf, wire, wbuf, WriterPlace) /\ WriterPlace \in Places
    BY PlaceFacts DEF IInv, FlightInv
  <2>2. WriterPlace = Place(f, Len(sent[f]), "in") /\ WriterPlace' = Place(f + 1, 0, "out")
    BY <1>1, <1>2 DEF WriterPlace
  <2>3. Follows(sent, WriterPlace, END, WriterPlace')
    BY <1>2, <2>2 DEF Follows, Place
  <2> HIDE DEF WriterPlace, ReaderPlace
  <2>4. WriterPlace' \in Places
    BY <2>1, <2>3, FollowsPlaces
  <2>5. Chain(sent, ReaderPlace, rbuf, wire, b, WriterPlace')
    BY <1>3, <2>1, <2>3, ChainPut DEF b
  <2> QED BY <1>1, <1>3, <1>4, <2>4, <2>5, ChainFlush
<1> QED BY <1>7, <1>8, <1>9, <1>10 DEF IInv

\* After a failure the invariant asks nothing of what is on its way.
LEMMA WriteFailsInv == ASSUME HdlcAssumption, IInv, WriteFails PROVE IInv'
<1>1. /\ wpc' = "idle" /\ todo' = <<>> /\ wbuf' = <<>> /\ intact' = FALSE
      /\ UNCHANGED <<osize, wire, rbuf, reader, sent, received>>
  BY DEF WriteFails
<1>2. todo' \in Seq(Chars) /\ wbuf' \in Seq(Chars) /\ Len(wbuf') < osize
  <2>1. Len(<<>>) = 0 /\ osize \in Nat \ {0}
    BY EmptySeq DEF HdlcAssumption, IInv, TypeInv, TypeOK
  <2> QED BY <1>1, <2>1, EmptySeq
<1>3. TypeInv'
  BY <1>1, <1>2 DEF IInv, TypeInv, TypeOK, reader
<1>4. WriterInv' /\ ReaderInv'
  BY <1>1 DEF IInv, WriterInv, ReaderInv, reader
<1> QED BY <1>1, <1>3, <1>4 DEF IInv, FlightInv, FramesArrive

-----------------------------------------------------------------------------
(* Steps of the reader *)

LEMMA ReadInv ==
  ASSUME HdlcAssumption, IInv, NEW n \in Sizes, Read(n) PROVE IInv'
<1>1. /\ rpc = "idle" /\ rpc' = "read" /\ size' = n /\ initialized' = FALSE /\ escaped' = FALSE
      /\ data' = <<>> /\ rstatus' = "SUCCESS"
      /\ UNCHANGED <<osize, writer, wire, rbuf, sent, received, intact>>
  BY DEF Read
<1>2. TypeInv'
  <2>1. n \in Nat /\ <<>> \in Seq(Chars)
    BY EmptySeq DEF HdlcAssumption
  <2> QED BY <1>1, <2>1 DEF IInv, TypeInv, TypeOK, writer
<1>3. WriterInv' /\ WriterPlace' = WriterPlace
  BY <1>1, WriterKept DEF IInv
<1>4. ReaderInv'
  BY <1>1 DEF ReaderInv
<1>5. ReaderPlace' = ReaderPlace
  BY <1>1 DEF ReaderPlace
<1>6. FlightInv'
  BY <1>1, <1>3, <1>5 DEF IInv, FlightInv, writer
<1>7. FramesArrive'
  BY <1>1 DEF IInv, FramesArrive, Delivers
<1> QED BY <1>2, <1>3, <1>4, <1>6, <1>7 DEF IInv

LEMMA ReadChunkInv == ASSUME HdlcAssumption, IInv, ReadChunk PROVE IInv'
<1>1. /\ rbuf = <<>> /\ wire # <<>> /\ rbuf' = Head(wire) /\ wire' = Tail(wire)
      /\ UNCHANGED <<osize, writer, reader, sent, received, intact>>
  BY DEF ReadChunk
<1>2. wire \in Seq(Seq(Chars)) /\ Len(wire) \in Nat /\ DOMAIN wire = 1 .. Len(wire)
  BY LenProperties DEF IInv, TypeInv
<1>3. /\ rbuf' \in Seq(Chars) /\ wire' \in Seq(Seq(Chars)) /\ Len(wire') = Len(wire) - 1
      /\ \A i \in 1 .. Len(wire') : wire'[i] = wire[i + 1]
  BY <1>1, <1>2, HeadTailProperties
<1>4. \A i \in DOMAIN wire' : Len(wire'[i]) <= osize
  <2> SUFFICES ASSUME NEW i \in 1 .. Len(wire') PROVE Len(wire'[i]) <= osize
    BY <1>3, LenProperties
  <2>1. i + 1 \in DOMAIN wire
    BY <1>2, <1>3
  <2> QED BY <1>3, <2>1 DEF IInv, TypeInv, TypeOK
<1>5. TypeInv'
  BY <1>1, <1>3, <1>4 DEF IInv, TypeInv, TypeOK, writer, reader
<1>6. WriterInv' /\ WriterPlace' = WriterPlace
  BY <1>1, WriterKept DEF IInv
<1>7. ReaderInv' /\ FramesArrive' /\ ReaderPlace' = ReaderPlace
  BY <1>1, ReaderKept DEF IInv
<1>8. FlightInv'
  <2> SUFFICES ASSUME intact PROVE Chain(sent, ReaderPlace, rbuf', wire', wbuf, WriterPlace)
    BY <1>1, <1>6, <1>7 DEF FlightInv, writer
  <2>1. Chain(sent, ReaderPlace, rbuf, wire, wbuf, WriterPlace) /\ ReaderPlace \in Places
    BY PlaceFacts DEF IInv, FlightInv
  <2> HIDE DEF WriterPlace, ReaderPlace
  <2> QED BY <1>1, <1>2, <2>1, ChainNext
<1> QED BY <1>5, <1>6, <1>7, <1>8 DEF IInv

\* The end of a read: its result is one more, with what fits of the frame.
LEMMA OutFacts ==
  ASSUME TypeInv, NEW st \in {"SUCCESS", "IO", "FAILED"}, NEW d \in Seq(Chars), Out(st, d)
  PROVE  /\ rpc' = "idle" /\ rstatus' \in {"SUCCESS", "IO", "FAILED"} /\ data' = d
         /\ received' \in Seq(Results) /\ Len(received) \in Nat
         /\ Len(received') = Len(received) + 1
         /\ \A i \in 1 .. Len(received) : received'[i] = received[i]
         /\ st = "SUCCESS" => Delivers(received'[Len(received) + 1], d)
<1> DEFINE result == IF Len(d) > size /\ st = "SUCCESS" THEN "IO" ELSE st
           n == IF Len(d) > size THEN size ELSE Len(d)
           r == [status |-> result, size |-> size, data |-> SubSeq(d, 1, n)]
<1>1. size \in Nat /\ Len(d) \in Nat /\ received \in Seq(Results) /\ Len(received) \in Nat
  BY LenProperties DEF TypeInv
<1>2. n \in Nat /\ n <= Len(d)
  BY <1>1
<1>3. \A i \in 1 .. n : d[i] \in Chars
  BY <1>1, <1>2, ElementOfSeq
<1>4. SubSeq(d, 1, n) \in Seq(Chars)
  BY <1>2, <1>3, SubSeqProperties
<1>5. result \in {"SUCCESS", "IO", "FAILED"}
  OBVIOUS
<1>6. r \in Results
  BY <1>1, <1>4, <1>5 DEF Results
<1>7. rpc' = "idle" /\ rstatus' = result /\ data' = d /\ received' = Append(received, r)
  BY DEF Out
<1>8. st = "SUCCESS" => Delivers(r, d)
  <2> SUFFICES ASSUME st = "SUCCESS" PROVE Delivers(r, d)
    OBVIOUS
  <2>1. CASE Len(d) > size
    BY <1>1, <2>1 DEF Delivers
  <2>2. CASE ~(Len(d) > size)
    <3>1. SubSeq(d, 1, Len(d)) = d
      BY SubSeqFull
    <3> QED BY <1>1, <2>2, <3>1 DEF Delivers
  <2> QED BY <2>1, <2>2
<1> HIDE DEF r, result
<1>9. /\ Append(received, r) \in Seq(Results) /\ Len(Append(received, r)) = Len(received) + 1
      /\ Append(received, r)[Len(received) + 1] = r
      /\ \A i \in 1 .. Len(received) : Append(received, r)[i] = received[i]
  BY <1>1, <1>6, AppendProperties
<1> QED BY <1>1, <1>5, <1>7, <1>8, <1>9

\* A read that fails: the invariant asks nothing of what is on its way.
LEMMA FailedInv ==
  ASSUME HdlcAssumption, IInv, NEW st \in {"SUCCESS", "IO", "FAILED"}, Out(st, data), intact' = FALSE,
         rbuf' \in Seq(Chars), initialized' \in BOOLEAN, escaped' \in BOOLEAN,
         UNCHANGED <<osize, writer, wire, size, sent>>
  PROVE  IInv'
<1>1. /\ rpc' = "idle" /\ rstatus' \in {"SUCCESS", "IO", "FAILED"} /\ data' = data
      /\ received' \in Seq(Results)
  BY OutFacts DEF IInv, TypeInv
<1>2. TypeInv'
  BY <1>1 DEF IInv, TypeInv, TypeOK, writer
<1>3. WriterInv'
  BY WriterKept DEF IInv
<1>4. ReaderInv'
  BY <1>1 DEF ReaderInv
<1> QED BY <1>2, <1>3, <1>4 DEF IInv, FlightInv, FramesArrive

LEMMA ReadFailsInv == ASSUME HdlcAssumption, IInv, ReadFails PROVE IInv'
<1>1. /\ Out("FAILED", data) /\ intact' = FALSE
      /\ UNCHANGED <<osize, writer, wire, rbuf, initialized, escaped, size, sent>>
  BY DEF ReadFails
<1>2. rbuf' \in Seq(Chars) /\ initialized' \in BOOLEAN /\ escaped' \in BOOLEAN
  BY <1>1 DEF IInv, TypeInv, TypeOK
<1> QED BY <1>1, <1>2, FailedInv

\* The next byte leads from where the reader is to where the rest starts.
LEMMA NextByte ==
  ASSUME IInv, intact, rbuf # <<>>
  PROVE  \E t \in Places : /\ Follows(sent, ReaderPlace, Head(rbuf), t)
                           /\ Chain(sent, t, Tail(rbuf), wire, wbuf, WriterPlace)
<1>1. rbuf \in Seq(Chars) /\ Chain(sent, ReaderPlace, rbuf, wire, wbuf, WriterPlace)
  BY DEF IInv, TypeInv, FlightInv
<1> HIDE DEF WriterPlace, ReaderPlace
<1> QED BY <1>1, ChainTake

\* A step of the reader that goes on behind the byte it has looked at.
LEMMA TakeInv ==
  ASSUME HdlcAssumption, IInv, rbuf # <<>>, rbuf' = Tail(rbuf), rpc = "read", rpc' = "read",
         initialized' \in BOOLEAN, escaped' \in BOOLEAN, data' \in Seq(Chars), ReaderInv',
         UNCHANGED <<osize, writer, wire, size, rstatus, sent, received, intact>>,
         intact => \A t : Follows(sent, ReaderPlace, Head(rbuf), t) => t = ReaderPlace'
  PROVE  IInv'
<1>1. rbuf' \in Seq(Chars)
  BY HeadTailProperties DEF IInv, TypeInv
<1>2. TypeInv'
  BY <1>1 DEF IInv, TypeInv, TypeOK, writer
<1>3. WriterInv' /\ WriterPlace' = WriterPlace
  BY WriterKept DEF IInv
<1>4. FlightInv'
  <2> SUFFICES ASSUME intact PROVE Chain(sent, ReaderPlace', rbuf', wire, wbuf, WriterPlace)
    BY <1>3 DEF FlightInv, writer
  <2> HIDE DEF WriterPlace, ReaderPlace
  <2> QED BY NextByte
<1>5. FramesArrive'
  BY DEF IInv, FramesArrive, Delivers
<1> QED BY <1>2, <1>3, <1>4, <1>5 DEF IInv

\* What the reader knows of the frame it reads.
LEMMA ReadingFacts ==
  ASSUME IInv, intact, rpc = "read"
  PROVE  /\ Len(received) \in Nat /\ Len(sent) \in Nat /\ Len(data) \in Nat
         /\ initialized => /\ Len(received) + 1 \in 1 .. Len(sent)
                           /\ sent[Len(received) + 1] \in Seq(Chars)
                           /\ Len(sent[Len(received) + 1]) \in Nat
                           /\ Started(data, sent[Len(received) + 1])
<1>1. Len(received) \in Nat /\ Len(sent) \in Nat /\ Len(data) \in Nat
  BY LenProperties DEF IInv, TypeInv
<1>2. ASSUME initialized
      PROVE  Len(received) + 1 \in 1 .. Len(sent) /\ Started(data, sent[Len(received) + 1])
  BY <1>1, <1>2 DEF IInv, ReaderInv
<1>3. ASSUME initialized
      PROVE  sent[Len(received) + 1] \in Seq(Chars) /\ Len(sent[Len(received) + 1]) \in Nat
  BY <1>2, <1>3, ElementOfSeq, LenProperties DEF IInv, TypeInv
<1> QED BY <1>1, <1>2, <1>3

\* A frame starts with END.
LEMMA FromOut ==
  ASSUME NEW S, NEW f, NEW i, NEW c, NEW t, Follows(S, Place(f, i, "out"), c, t)
  PROVE  f \in 1 .. Len(S) /\ c = END /\ t = Place(f, 0, "in")
BY DEF Follows, Place

\* Within a frame every byte says by itself what it is.
LEMMA FromIn ==
  ASSUME HdlcAssumption, NEW S, NEW f, NEW i, NEW c, NEW t, Follows(S, Place(f, i, "in"), c, t)
  PROVE  /\ c = END => i = Len(S[f]) /\ t = Place(f + 1, 0, "out")
         /\ c = ESC => t = Place(f, i, "esc")
         /\ ~Special(c) => i < Len(S[f]) /\ c = S[f][i + 1] /\ t = Place(f, i + 1, "in")
BY CharFacts DEF Follows, Place, Special

\* Behind an escape comes neither an END nor an escape.
LEMMA FromEsc ==
  ASSUME HdlcAssumption, NEW S, NEW f, NEW i, NEW c, NEW t, Follows(S, Place(f, i, "esc"), c, t)
  PROVE  ~Special(c) /\ i < Len(S[f]) /\ Flip(c) = S[f][i + 1] /\ t = Place(f, i + 1, "in")
<1>1. i < Len(S[f]) /\ Special(S[f][i + 1]) /\ c = Flip(S[f][i + 1]) /\ t = Place(f, i + 1, "in")
  BY DEF Follows, Place
<1> QED BY <1>1, CharFacts

LEMMA ReadNoiseInv == ASSUME HdlcAssumption, IInv, ReadNoise PROVE IInv'
<1>1. /\ rpc = "read" /\ rbuf # <<>> /\ Head(rbuf) # END /\ ~initialized /\ rbuf' = Tail(rbuf)
      /\ UNCHANGED <<osize, writer, wire, reader, sent, received, intact>>
  BY DEF ReadNoise
<1>2. ReaderInv' /\ rpc' = "read" /\ initialized' \in BOOLEAN /\ escaped' \in BOOLEAN
      /\ data' \in Seq(Chars) /\ UNCHANGED <<size, rstatus>>
  BY <1>1, ReaderKept DEF IInv, TypeInv, TypeOK, reader
<1>3. ~intact
  <2>1. ReaderPlace = Place(Len(received) + 1, 0, "out")
    BY <1>1 DEF ReaderPlace
  <2> QED BY <1>1, <2>1, NextByte, FromOut
<1> QED BY <1>1, <1>2, <1>3, TakeInv

LEMMA ReadEndInv == ASSUME HdlcAssumption, IInv, ReadEnd PROVE IInv'
<1> DEFINE f == Len(received) + 1
<1>1. /\ rpc = "read" /\ rbuf # <<>> /\ Head(rbuf) = END /\ rbuf' = Tail(rbuf)
      /\ UNCHANGED <<osize, writer, wire, escaped, size, sent>>
  BY DEF ReadEnd
<1>2. /\ rbuf' \in Seq(Chars) /\ data \in Seq(Chars) /\ sent \in Seq(Seq(Chars))
      /\ initialized \in BOOLEAN /\ escaped \in BOOLEAN
  BY <1>1, HeadTailProperties DEF IInv, TypeInv, TypeOK
<1>3. CASE escaped /\ Out("IO", data) /\ intact' = FALSE /\ UNCHANGED initialized
  BY <1>1, <1>2, <1>3, FailedInv
<1>4. CASE ~escaped /\ initialized /\ Out("SUCCESS", data) /\ UNCHANGED <<initialized, intact>>
  <2>1. /\ rpc' = "idle" /\ rstatus' \in {"SUCCESS", "IO", "FAILED"} /\ data' = data
        /\ received' \in Seq(Results) /\ Len(received) \in Nat /\ Len(received') = f
        /\ \A i \in 1 .. Len(received) : received'[i] = received[i]
        /\ Delivers(received'[f], data)
    BY <1>2, <1>4, OutFacts DEF IInv
  <2>2. TypeInv'
    BY <1>1, <1>2, <1>4, <2>1 DEF IInv, TypeInv, TypeOK, writer
  <2>3. WriterInv' /\ WriterPlace' = WriterPlace
    BY <1>1, WriterKept DEF IInv
  <2>4. ReaderInv'
    BY <2>1 DEF ReaderInv
  <2>5. ASSUME intact
        PROVE  /\ f \in 1 .. Len(sent) /\ Len(sent) \in Nat /\ data = sent[f]
               /\ Chain(sent, ReaderPlace', rbuf', wire, wbuf, WriterPlace)
    <3>1. ReaderPlace = Place(f, Len(data), "in") /\ ReaderPlace' = Place(f + 1, 0, "out")
      BY <1>1, <1>4, <2>1 DEF ReaderPlace
    <3>2. PICK t : /\ Follows(sent, ReaderPlace, END, t)
                   /\ Chain(sent, t, Tail(rbuf), wire, wbuf, WriterPlace)
      BY <1>1, <2>5, NextByte
    <3>3. Len(data) = Len(sent[f]) /\ t = ReaderPlace'
      BY <3>1, <3>2, FromIn
    <3>4. /\ f \in 1 .. Len(sent) /\ Len(sent) \in Nat /\ sent[f] \in Seq(Chars)
          /\ Started(data, sent[f])
      BY <1>1, <1>4, <2>5, ReadingFacts
    <3>5. data = sent[f]
      BY <1>2, <3>3, <3>4, SeqEqual DEF Started
    <3> QED BY <1>1, <3>2, <3>3, <3>4, <3>5
  <2>6. FlightInv'
    BY <1>1, <1>4, <2>3, <2>5 DEF FlightInv, writer
  <2>7. FramesArrive'
    <3> SUFFICES ASSUME intact
                 PROVE  /\ Len(received') <= Len(sent)
                        /\ \A i \in DOMAIN received' : Delivers(received'[i], sent[i])
      BY <1>1, <1>4 DEF FramesArrive, Delivers
    <3>1. DOMAIN received' = 1 .. f /\ DOMAIN received = 1 .. Len(received)
      BY <2>1, LenProperties DEF IInv, TypeInv
    <3>2. ASSUME NEW i \in 1 .. f PROVE Delivers(received'[i], sent[i])
      <4>1. CASE i = f
        BY <2>1, <2>5, <4>1
      <4>2. CASE i # f
        <5>1. i \in 1 .. Len(received)
          BY <2>1, <4>2
        <5> QED BY <2>1, <3>1, <5>1 DEF IInv, FramesArrive
      <4> QED BY <4>1, <4>2
    <3>3. f <= Len(sent)
      BY <2>1, <2>5
    <3> QED BY <2>1, <3>1, <3>2, <3>3
  <2> QED BY <2>2, <2>3, <2>4, <2>6, <2>7 DEF IInv
<1>5. CASE /\ ~escaped /\ ~initialized /\ initialized' = TRUE
           /\ UNCHANGED <<rpc, data, rstatus, received, intact>>
  <2>1. data = <<>> /\ Len(<<>>) = 0
    BY <1>1, <1>5, EmptySeq DEF IInv, ReaderInv
  <2>2. ReaderPlace = Place(f, 0, "out") /\ ReaderPlace' = Place(f, 0, "in")
    BY <1>1, <1>5, <2>1 DEF ReaderPlace
  <2>3. intact => \A t : Follows(sent, ReaderPlace, Head(rbuf), t) => t = ReaderPlace'
    BY <2>2, FromOut
  <2>4. ReaderInv'
    <3> SUFFICES ASSUME intact PROVE Len(received) < Len(sent) /\ Started(data, sent[f])
      BY <1>1, <1>5 DEF ReaderInv
    <3>1. f \in 1 .. Len(sent)
      BY <1>1, <2>2, NextByte, FromOut
    <3>2. Len(received) \in Nat /\ Len(sent) \in Nat
      BY LenProperties DEF IInv, TypeInv
    <3>3. Len(sent[f]) \in Nat
      BY <1>2, <3>1, ElementOfSeq, LenProperties
    <3> QED BY <2>1, <3>1, <3>2, <3>3 DEF Started
  <2> QED BY <1>1, <1>2, <1>5, <2>3, <2>4, TakeInv
<1> QED BY <1>3, <1>4, <1>5 DEF ReadEnd

LEMMA ReadEscapeInv == ASSUME HdlcAssumption, IInv, ReadEscape PROVE IInv'
<1> DEFINE f == Len(received) + 1
<1>1. /\ rpc = "read" /\ rbuf # <<>> /\ Head(rbuf) = ESC /\ initialized /\ rbuf' = Tail(rbuf)
      /\ UNCHANGED <<osize, writer, wire, initialized, size, sent>>
  BY DEF ReadEscape
<1>2. /\ rbuf' \in Seq(Chars) /\ data \in Seq(Chars)
      /\ initialized \in BOOLEAN /\ escaped \in BOOLEAN
  BY <1>1, HeadTailProperties DEF IInv, TypeInv, TypeOK
<1>3. CASE escaped /\ Out("IO", data) /\ intact' = FALSE /\ UNCHANGED escaped
  BY <1>1, <1>2, <1>3, FailedInv
<1>4. CASE ~escaped /\ escaped' = TRUE /\ UNCHANGED <<rpc, data, rstatus, received, intact>>
  <2>1. ReaderPlace = Place(f, Len(data), "in") /\ ReaderPlace' = Place(f, Len(data), "esc")
    BY <1>1, <1>4 DEF ReaderPlace
  <2>2. intact => \A t : Follows(sent, ReaderPlace, Head(rbuf), t) => t = ReaderPlace'
    BY <1>1, <2>1, FromIn
  <2>3. ReaderInv'
    BY <1>1, <1>4 DEF IInv, ReaderInv
  <2> QED BY <1>1, <1>2, <1>4, <2>2, <2>3, TakeInv
<1> QED BY <1>3, <1>4 DEF ReadEscape

LEMMA ReadByteInv == ASSUME HdlcAssumption, IInv, ReadByte PROVE IInv'
<1> DEFINE f == Len(received) + 1
           i == Len(data)
           c == IF escaped THEN Flip(Head(rbuf)) ELSE Head(rbuf)
<1>1. /\ rpc = "read" /\ rbuf # <<>> /\ ~Special(Head(rbuf)) /\ initialized /\ rbuf' = Tail(rbuf)
      /\ data' = Append(data, c) /\ escaped' = FALSE
      /\ UNCHANGED <<osize, writer, wire, rpc, initialized, size, rstatus, sent, received, intact>>
  BY DEF ReadByte
<1>2. data \in Seq(Chars) /\ i \in Nat /\ Head(rbuf) \in Chars /\ initialized' \in BOOLEAN
  BY <1>1, HeadTailProperties, LenProperties DEF IInv, TypeInv, TypeOK
<1>3. c \in Chars
  BY <1>2, CharFacts
<1>4. data' \in Seq(Chars) /\ Len(data') = i + 1 /\ data'[i + 1] = c
      /\ \A j \in 1 .. i : data'[j] = data[j]
  BY <1>1, <1>2, <1>3, AppendProperties
<1>5. ASSUME NEW t, Follows(sent, ReaderPlace, Head(rbuf), t)
      PROVE  t = ReaderPlace' /\ i < Len(sent[f]) /\ c = sent[f][i + 1]
  <2>1. ReaderPlace' = Place(f, i + 1, "in")
    BY <1>1, <1>4 DEF ReaderPlace
  <2>2. CASE escaped
    <3>1. ReaderPlace = Place(f, i, "esc")
      BY <1>1, <2>2 DEF ReaderPlace
    <3> QED BY <1>5, <2>1, <2>2, <3>1, FromEsc
  <2>3. CASE ~escaped
    <3>1. ReaderPlace = Place(f, i, "in")
      BY <1>1, <2>3 DEF ReaderPlace
    <3> QED BY <1>1, <1>5, <2>1, <2>3, <3>1, FromIn
  <2> QED BY <2>2, <2>3
<1>6. ReaderInv'
  <2> SUFFICES ASSUME intact PROVE Len(received) < Len(sent) /\ Started(data', sent[f])
    BY <1>1 DEF ReaderInv
  <2>1. i < Len(sent[f]) /\ c = sent[f][i + 1]
    BY <1>1, <1>5, NextByte
  <2>2. /\ Len(received) \in Nat /\ Len(sent) \in Nat /\ f \in 1 .. Len(sent)
        /\ Len(sent[f]) \in Nat /\ Started(data, sent[f])
    BY <1>1, ReadingFacts
  <2> HIDE DEF c
  <2>3. ASSUME NEW j \in 1 .. i + 1 PROVE data'[j] = sent[f][j]
    <3>1. CASE j = i + 1
      BY <1>4, <2>1, <3>1
    <3>2. CASE j # i + 1
      <4>1. j \in 1 .. i
        BY <1>2, <3>2
      <4> QED BY <1>4, <2>2, <4>1 DEF Started
    <3> QED BY <3>1, <3>2
  <2> QED BY <1>2, <1>4, <2>1, <2>2, <2>3 DEF Started
<1> HIDE DEF c
<1> QED BY <1>1, <1>2, <1>4, <1>5, <1>6, TakeInv

\* After a purge nothing is on its way and both ends are before a frame.
LEMMA PurgeInv == ASSUME HdlcAssumption, IInv, Purge PROVE IInv'
<1>1. /\ rpc = "idle" /\ wpc = "idle" /\ rbuf' = <<>> /\ wire' = <<>> /\ sent' = <<>>
      /\ received' = <<>> /\ intact' = TRUE /\ UNCHANGED <<osize, writer, reader>>
  BY DEF Purge
<1>2. Len(<<>>) = 0 /\ DOMAIN <<>> = {} /\ \A T : <<>> \in Seq(T)
  BY EmptySeq
<1>3. wbuf = <<>> /\ todo = <<>>
  BY <1>1 DEF IInv, WriterInv
<1>4. TypeInv'
  BY <1>1, <1>2 DEF IInv, TypeInv, TypeOK, writer, reader
<1>5. WriterInv' /\ ReaderInv'
  BY <1>1, <1>3 DEF WriterInv, ReaderInv, writer, reader
<1>6. ReaderPlace' = Place(1, 0, "out") /\ WriterPlace' = Place(1, 0, "out")
  BY <1>1, <1>2 DEF ReaderPlace, WriterPlace, writer, reader
<1>7. Place(1, 0, "out") \in Places
  BY DEF Place, Places
<1>8. FlightInv'
  BY <1>1, <1>3, <1>6, <1>7, ChainEmpty DEF FlightInv, writer
<1>9. FramesArrive'
  BY <1>1, <1>2 DEF FramesArrive
<1> QED BY <1>4, <1>5, <1>8, <1>9 DEF IInv

-----------------------------------------------------------------------------
(* The theorems *)

LEMMA InitInv == ASSUME HdlcAssumption, Init PROVE IInv
<1>1. Len(<<>>) = 0 /\ DOMAIN <<>> = {} /\ \A T : <<>> \in Seq(T)
  BY EmptySeq
<1>2. TypeInv
  <2>1. osize \in OSizes /\ osize \in Nat \ {0}
    BY DEF HdlcAssumption, Init
  <2>2. Len(wbuf) < osize /\ \A i \in DOMAIN wire : Len(wire[i]) <= osize
    BY <1>1, <2>1 DEF Init
  <2>3. TypeOK
    BY <2>1, <2>2 DEF Init, TypeOK
  <2>4. /\ todo \in Seq(Chars) /\ wbuf \in Seq(Chars) /\ wire \in Seq(Seq(Chars))
        /\ rbuf \in Seq(Chars) /\ data \in Seq(Chars) /\ size \in Nat
        /\ sent \in Seq(Seq(Chars)) /\ received \in Seq(Results)
    BY <1>1 DEF Init
  <2> QED BY <2>3, <2>4 DEF TypeInv
<1>3. WriterInv /\ ReaderInv
  BY DEF Init, WriterInv, ReaderInv
<1>4. ReaderPlace = Place(1, 0, "out") /\ WriterPlace = Place(1, 0, "out")
  BY <1>1 DEF Init, ReaderPlace, WriterPlace
<1>5. Place(1, 0, "out") \in Places
  BY DEF Place, Places
<1>6. FlightInv
  BY <1>4, <1>5, ChainEmpty DEF Init, FlightInv
<1>7. FramesArrive
  BY <1>1 DEF Init, FramesArrive
<1> QED BY <1>2, <1>3, <1>6, <1>7 DEF IInv

LEMMA NextInv == ASSUME HdlcAssumption, IInv, [Next]_vars PROVE IInv'
<1>1. CASE UNCHANGED vars
  <2>1. UNCHANGED <<writer, reader, sent, received, intact>> /\ UNCHANGED <<osize, wire, rbuf>>
    BY <1>1 DEF vars
  <2>2. WriterInv' /\ WriterPlace' = WriterPlace
    BY <2>1, WriterKept DEF IInv
  <2>3. ReaderInv' /\ FramesArrive' /\ ReaderPlace' = ReaderPlace
    BY <2>1, ReaderKept DEF IInv
  <2>4. TypeInv'
    BY <2>1 DEF IInv, TypeInv, TypeOK, writer, reader
  <2>5. FlightInv'
    BY <2>1, <2>2, <2>3 DEF IInv, FlightInv, writer
  <2> QED BY <2>2, <2>3, <2>4, <2>5 DEF IInv
<1> QED BY <1>1, WriteInv, WriteStartInv, WriteEscapeInv, WriteByteInv, WriteEndInv, WriteFailsInv,
           ReadInv, ReadChunkInv, ReadFailsInv, ReadEndInv, ReadNoiseInv, ReadEscapeInv,
           ReadByteInv, PurgeInv DEF Next

\* Every state of the HDLC layer satisfies the inductive invariant.
THEOREM Invariance == ASSUME HdlcAssumption PROVE Spec => []IInv
<1>1. Init => IInv
  BY InitInv
<1>2. IInv /\ [Next]_vars => IInv'
  BY NextInv
<1> QED BY <1>1, <1>2, PTL DEF Spec

\* Types, and the bounds of the write buffer: dc_hdlc_write stores a byte
\* before it looks whether the buffer is full.
THEOREM TypeCorrect == ASSUME HdlcAssumption PROVE Spec => []TypeOK
<1>1. IInv => TypeOK
  BY DEF IInv, TypeInv
<1> QED BY <1>1, Invariance, PTL

\* The n-th dc_hdlc_read returns the n-th frame that dc_hdlc_write was given,
\* whatever bytes it holds and wherever the chunks cut it, unless something
\* has failed since the last purge.
THEOREM FramesDelivered == ASSUME HdlcAssumption PROVE Spec => []FramesArrive
<1>1. IInv => FramesArrive
  BY DEF IInv
<1> QED BY <1>1, Invariance, PTL
=============================================================================
