-------------------------- MODULE TransfersProofs --------------------------
(***************************************************************************)
(* Proofs about reading the memory of a dive computer.  The first part:    *)
(* the commands and answers of CommandTransfer, for any number of blocks,  *)
(* downloads and faults: what is stored is intact, and the retries recover *)
(* from what they are meant for.  The second part: the pages of an Oceanic *)
(* Atom 2, of which each is read with such a command; with every page      *)
(* size, every size of the memory and any number of calls, the cache of    *)
(* the last big page never hands out anything but what the memory holds.   *)
(***************************************************************************)
EXTENDS CommandTransfer, SequenceTheorems, FiniteSetTheorems, TLAPS

Names == {"echo", "head", "data", "sum", "tail", "ack", "nak", "start", "busy", "junk", "none"}
Parts == [kind : Names, of : Nat]

Statuses == {"none", "SUCCESS", "CANCELLED", "TIMEOUT", "PROTOCOL", "REFUSED"}

TypeInv ==
  /\ p \in Protocols /\ line \in Seq(Parts) /\ late \in Seq(Parts) /\ faults \in Nat
  /\ cancelled \in BOOLEAN /\ call \in Nat /\ block \in 1 .. NBlocks
  /\ pc \in {"idle", "send", "read", "pause"} /\ part \in DOMAIN p.reads
  /\ nretries \in 0 .. p.retries /\ data \in Parts /\ got \in Seq(Nat) /\ status \in Statuses
  /\ late # <<>> => "late" \in seen

\* The blocks so far are as many as the transfer has asked for.
CountInv ==
  /\ pc # "idle" => Len(got) = block - 1 /\ status = "none"
  /\ status = "SUCCESS" => Len(got) = NBlocks

Clean == seen \cap Hazards = {}

\* The drivers whose answers repeat the address; those that read all of an
\* answer before they reject it; and two that are a case of their own.
Tagged == {suunto_d9, suunto_vyper2}
Whole  == {cressi_leonardo, oceanic_atom2, liquivision_lynx, sporasub_sp2, mares_common,
           divesystem_idive, seac_screen, oceanic_vtpro}

\* The parts of the read k, those of an answer, and how many of them are left
\* from the read k on.
KindsOf(d, k) == IF k \in DOMAIN d.reads THEN d.reads[k].kinds ELSE <<>>
Kinds(d)      == KindsOf(d, 1) \o KindsOf(d, 2) \o KindsOf(d, 3)
Left(d, k)    == Len(KindsOf(d, k)) + Len(KindsOf(d, k + 1)) + Len(KindsOf(d, k + 2))

\* Data in the line is that of the block b.
Fresh(l, b) == \A i \in DOMAIN l : l[i].kind = "data" => l[i].of = b

FreshInv == p \in Whole \cup {oceanic_veo250} /\ pc = "read" => Fresh(line, block)

WholeInv ==
  p \in Whole =>
    IF pc = "read"
      THEN /\ Len(line) <= Left(p, part)
           /\ Acknowledged /\ part = 1 => Len(line) <= 1 \/ line[1].kind = "ack"
      ELSE line = <<>>

\* Without a checksum the data of the block b is what stands, behind the first
\* k parts of the line, between the parts around it.
Between(l, k, b) == Len(l) <= k + 2 /\ (Len(l) = k + 2 => l[k + 1] = Part("data", b))

BetweenInv ==
  p \in {cressi_edy, mares_iconhd} /\ pc = "read" =>
    /\ part = 2 => Between(line, 0, block)
    /\ part = 3 => Len(line) <= 1 /\ (Len(line) = 1 => data = Part("data", block))

\* Behind the first k parts there is at most the end of an answer.
Stale(l, k) == Len(l) <= k \/ (Len(l) = k + 1 /\ l[k + 1].kind = "tail")

EdyInv ==
  p = cressi_edy =>
    /\ pc = "read" /\ part = 1 /\ Len(line) > 0 =>
         IF line[1].kind = "echo"
           THEN line[1].of = block /\ Between(line, 1, block)
           ELSE nretries = 0 \/ Stale(line, 1)
    /\ pc \in {"send", "idle"} => Stale(line, 0)
    /\ pc = "send" => Len(line) = 0 \/ nretries = 0

IconhdInv ==
  p = mares_iconhd =>
    /\ pc = "read" /\ part = 1 =>
         \A i \in DOMAIN line : line[i].kind = "ack" => i = 1 /\ Between(line, 1, block)
    /\ pc # "read" => Len(line) = 0

LineInv == Clean => FreshInv /\ WholeInv /\ BetweenInv /\ EdyInv /\ IconhdInv

GotInv == Clean => \A k \in DOMAIN got : got[k] = k

IInv == TypeInv /\ CountInv /\ LineInv /\ GotInv
-----------------------------------------------------------------------------
\* All reads the drivers make.
Reads ==
  {Exact(<<"echo">>), Loose(<<"echo">>), Exact(<<"ack">>), Scan("ack"), Scan("start"),
   Loose(<<"data">>), Exact(<<"data">>), Exact(<<"tail">>), Final(<<"data", "sum">>),
   Exact(<<"ack", "data", "sum">>), Packet}

Readable(r) ==
  /\ r.kinds \in Seq(Names) /\ Len(r.kinds) \in 1 .. 3
  /\ r.mode \in {"exact", "loose", "scan", "final"}

LEMMA ReadFacts == \A r \in Reads : Readable(r)
<1>1. /\ <<"echo">> \in Seq(Names) /\ <<"ack">> \in Seq(Names) /\ <<"start">> \in Seq(Names)
      /\ <<"data">> \in Seq(Names) /\ <<"tail">> \in Seq(Names)
  BY DEF Names
<1>2. /\ <<"data", "sum">> \in Seq(Names)
      /\ <<"ack", "data", "sum">> \in Seq(Names) /\ <<"head", "data", "sum">> \in Seq(Names)
  BY DEF Names
<1>3. \A k \in Seq(Names) :
        Len(k) \in 1 .. 3 => Readable(Exact(k)) /\ Readable(Loose(k)) /\ Readable(Final(k))
  BY DEF Exact, Loose, Final, Readable
<1>4. Readable(Scan("ack")) /\ Readable(Scan("start"))
  <2>1. Len(<<"ack">>) \in 1 .. 3 /\ Len(<<"start">>) \in 1 .. 3
    OBVIOUS
  <2>2. /\ Scan("ack").kinds = <<"ack">> /\ Scan("ack").mode = "scan"
        /\ Scan("start").kinds = <<"start">> /\ Scan("start").mode = "scan"
    BY DEF Scan
  <2> QED BY <1>1, <2>1, <2>2 DEF Readable
<1>5. /\ Len(<<"echo">>) \in 1 .. 3 /\ Len(<<"ack">>) \in 1 .. 3
      /\ Len(<<"data">>) \in 1 .. 3 /\ Len(<<"tail">>) \in 1 .. 3
      /\ Len(<<"data", "sum">>) \in 1 .. 3
      /\ Len(<<"ack", "data", "sum">>) \in 1 .. 3 /\ Len(<<"head", "data", "sum">>) \in 1 .. 3
  OBVIOUS
<1>6. Readable(Packet)
  BY <1>2, <1>3, <1>5 DEF Packet
<1>7. /\ Readable(Exact(<<"echo">>)) /\ Readable(Loose(<<"echo">>)) /\ Readable(Exact(<<"ack">>))
      /\ Readable(Loose(<<"data">>)) /\ Readable(Exact(<<"data">>)) /\ Readable(Exact(<<"tail">>))
      /\ Readable(Final(<<"data", "sum">>)) /\ Readable(Exact(<<"ack", "data", "sum">>))
  BY <1>1, <1>2, <1>3, <1>5
<1> QED BY <1>4, <1>6, <1>7 DEF Reads

\* What the records of all drivers have in common.
LEMMA DriverFacts ==
  ASSUME p \in Protocols
  PROVE  /\ p.retries \in Nat \ {0}
         /\ Len(p.reads) \in 1 .. 3 /\ DOMAIN p.reads = 1 .. Len(p.reads)
         /\ \A k \in DOMAIN p.reads : p.reads[k] \in Reads
         /\ p.naks \subseteq {<<"nak">>, <<"start", "nak">>, <<"start", "busy">>}
<1>1. CASE p = mares_common
  BY <1>1 DEF mares_common, Reads
<1>2. CASE p = cressi_edy
  BY <1>2 DEF cressi_edy, Reads
<1>3. CASE p = cressi_leonardo
  BY <1>3 DEF cressi_leonardo, Reads
<1>4. CASE p = oceanic_vtpro
  BY <1>4 DEF oceanic_vtpro, Reads
<1>5. CASE p = oceanic_veo250
  BY <1>5 DEF oceanic_veo250, Reads
<1>6. CASE p = oceanic_atom2
  BY <1>6 DEF oceanic_atom2, Reads
<1>7. CASE p = divesystem_idive
  BY <1>7 DEF divesystem_idive, Reads
<1>8. CASE p = seac_screen
  BY <1>8 DEF seac_screen, Reads
<1>9. CASE p = liquivision_lynx
  BY <1>9 DEF liquivision_lynx, Reads
<1>10. CASE p = mares_iconhd
  BY <1>10 DEF mares_iconhd, Reads
<1>11. CASE p = sporasub_sp2
  BY <1>11 DEF sporasub_sp2, Reads
<1>12. CASE p = suunto_d9
  BY <1>12 DEF suunto_d9, Reads
<1>13. CASE p = suunto_vyper2
  BY <1>13 DEF suunto_vyper2, Reads
<1> QED BY <1>1, <1>2, <1>3, <1>4, <1>5, <1>6, <1>7, <1>8, <1>9, <1>10, <1>11, <1>12, <1>13 DEF Protocols

LEMMA KindsFacts ==
  ASSUME p \in Protocols
  PROVE  /\ \A k \in DOMAIN p.reads : Readable(p.reads[k]) /\ KindsOf(p, k) = p.reads[k].kinds
         /\ \A k \in Nat : KindsOf(p, k) \in Seq(Names) /\ Len(KindsOf(p, k)) \in Nat
         /\ Kinds(p) \in Seq(Names) /\ Len(Kinds(p)) = Left(p, 1)
         /\ p = cressi_edy => Len(Kinds(p)) = 3 /\ Kinds(p)[1] = "echo" /\ Kinds(p)[2] = "data" /\ Kinds(p)[3] = "tail"
         /\ p = mares_iconhd => Len(Kinds(p)) = 3 /\ Kinds(p)[1] = "ack" /\ Kinds(p)[2] = "data" /\ Kinds(p)[3] = "tail"
         /\ p = oceanic_vtpro => Kinds(p)[1] = "ack"
<1>1. \A k \in DOMAIN p.reads : Readable(p.reads[k]) /\ KindsOf(p, k) = p.reads[k].kinds
  BY DriverFacts, ReadFacts DEF KindsOf
<1>2. \A k \in Nat : KindsOf(p, k) \in Seq(Names) /\ Len(KindsOf(p, k)) \in Nat
  <2>1. <<>> \in Seq(Names) /\ Len(<<>>) = 0
    BY EmptySeq
  <2> QED BY <1>1, <2>1 DEF KindsOf, Readable
<1>3. Kinds(p) \in Seq(Names) /\ Len(Kinds(p)) = Left(p, 1)
  BY <1>2, ConcatProperties DEF Kinds, Left
<1>4. ASSUME p = oceanic_vtpro PROVE Kinds(p)[1] = "ack"
  <2>1. KindsOf(p, 1) = <<"ack">> /\ KindsOf(p, 2) = <<"data", "sum">>
    BY <1>4 DEF oceanic_vtpro, KindsOf, Exact, Final
  <2>2. KindsOf(p, 3) \in Seq(Names)
    BY <1>2
  <2> QED BY <2>1, <2>2 DEF Kinds
<1>5. ASSUME p = cressi_edy
      PROVE  Len(Kinds(p)) = 3 /\ Kinds(p)[1] = "echo" /\ Kinds(p)[2] = "data" /\ Kinds(p)[3] = "tail"
  <2>1. KindsOf(p, 1) = <<"echo">> /\ KindsOf(p, 2) = <<"data">> /\ KindsOf(p, 3) = <<"tail">>
    BY <1>5 DEF cressi_edy, KindsOf, Exact, Loose
  <2> QED BY <2>1 DEF Kinds
<1>6. ASSUME p = mares_iconhd
      PROVE  Len(Kinds(p)) = 3 /\ Kinds(p)[1] = "ack" /\ Kinds(p)[2] = "data" /\ Kinds(p)[3] = "tail"
  <2>1. KindsOf(p, 1) = <<"ack">> /\ KindsOf(p, 2) = <<"data">> /\ KindsOf(p, 3) = <<"tail">>
    BY <1>6 DEF mares_iconhd, KindsOf, Scan, Loose, Exact
  <2> QED BY <2>1 DEF Kinds
<1> QED BY <1>1, <1>2, <1>3, <1>4, <1>5, <1>6

\* A driver that rejects an answer has read all of it: only its last read can
\* fail, but for the acknowledgement of the VT Pro.
LEMMA WholeFacts ==
  ASSUME p \in Whole
  PROVE  /\ p \in Protocols /\ p.purge # "send" /\ "overdue" \in Hazards
         /\ p.purge = "retry" \/ "late" \in Hazards
         /\ Acknowledged => /\ p = oceanic_vtpro /\ ~p.tag /\ {"cut", "junk"} \subseteq Hazards
                            /\ p.reads[1].mode = "exact"
         /\ \A k \in DOMAIN p.reads : k < Len(p.reads) =>
               \/ p.reads[k].mode \in {"loose", "scan"}
               \/ Acknowledged /\ k = 1 /\ p.reads[k].mode = "exact" /\ p.reads[k].kinds = <<"ack">>
         /\ \A nak \in p.naks : Len(nak) <= Left(p, 1) /\ (Acknowledged => Len(nak) = 1)
<1>1. CASE p = cressi_leonardo
  BY <1>1 DEF cressi_leonardo, Exact, Loose, Scan, Final, Packet, Hazards,
    Resynchronizes, Acknowledged, Protocols, Left, KindsOf
<1>2. CASE p = oceanic_atom2
  BY <1>2 DEF oceanic_atom2, Exact, Loose, Scan, Final, Packet, Hazards,
    Resynchronizes, Acknowledged, Protocols, Left, KindsOf
<1>3. CASE p = liquivision_lynx
  BY <1>3 DEF liquivision_lynx, Exact, Loose, Scan, Final, Packet, Hazards,
    Resynchronizes, Acknowledged, Protocols, Left, KindsOf
<1>4. CASE p = sporasub_sp2
  BY <1>4 DEF sporasub_sp2, Exact, Loose, Scan, Final, Packet, Hazards,
    Resynchronizes, Acknowledged, Protocols, Left, KindsOf
<1>5. CASE p = mares_common
  BY <1>5 DEF mares_common, Exact, Loose, Scan, Final, Packet, Hazards,
    Resynchronizes, Acknowledged, Protocols, Left, KindsOf
<1>6. CASE p = divesystem_idive
  <2>1. /\ p \in Protocols /\ Len(p.reads) = 2 /\ DOMAIN p.reads = {1, 2}
        /\ p.reads[1] = Scan("start") /\ p.reads[2] = Exact(<<"data">>)
        /\ ~p.tag
    BY <1>6 DEF divesystem_idive, Protocols
  <2>2. p.reads[1].mode = "scan" /\ p.reads[2].mode = "exact" /\ ~Acknowledged
    BY <2>1 DEF Scan, Exact, Acknowledged
  <2>3. Left(p, 1) = 2
    <3>1. KindsOf(p, 1) = <<"start">> /\ KindsOf(p, 2) = <<"data">> /\ KindsOf(p, 3) = <<>>
      BY <2>1 DEF Scan, Exact, KindsOf
    <3>2. 1 + 1 = 2 /\ 1 + 2 = 3 /\ Len(<<"start">>) = 1 /\ Len(<<"data">>) = 1 /\ Len(<<>>) = 0
      OBVIOUS
    <3>3. Left(p, 1) = 1 + 1 + 0
      BY <3>1, <3>2, Zenon DEF Left
    <3> QED BY <3>3
  <2>4. \A nak \in p.naks : Len(nak) = 2
    BY <1>6 DEF divesystem_idive
  <2>5. p.purge # "send" /\ "overdue" \in Hazards /\ (p.purge = "retry" \/ "late" \in Hazards)
    BY <1>6 DEF divesystem_idive, Hazards
  <2>6. \A k \in DOMAIN p.reads : k < Len(p.reads) => p.reads[k].mode \in {"loose", "scan"}
    BY <2>1, <2>2
  <2>7. \A nak \in p.naks : Len(nak) <= Left(p, 1)
    <3>1. 2 <= 2
      OBVIOUS
    <3> QED BY <2>3, <2>4, <3>1, Zenon
  <2> QED BY <2>1, <2>2, <2>5, <2>6, <2>7
<1>7. CASE p = seac_screen
  <2>1. /\ p \in Protocols /\ Len(p.reads) = 2 /\ DOMAIN p.reads = {1, 2}
        /\ p.reads[1] = Scan("start") /\ p.reads[2] = Exact(<<"data">>)
        /\ ~p.tag
    BY <1>7 DEF seac_screen, Protocols
  <2>2. p.reads[1].mode = "scan" /\ p.reads[2].mode = "exact" /\ ~Acknowledged
    BY <2>1 DEF Scan, Exact, Acknowledged
  <2>3. Left(p, 1) = 2
    <3>1. KindsOf(p, 1) = <<"start">> /\ KindsOf(p, 2) = <<"data">> /\ KindsOf(p, 3) = <<>>
      BY <2>1 DEF Scan, Exact, KindsOf
    <3>2. 1 + 1 = 2 /\ 1 + 2 = 3 /\ Len(<<"start">>) = 1 /\ Len(<<"data">>) = 1 /\ Len(<<>>) = 0
      OBVIOUS
    <3>3. Left(p, 1) = 1 + 1 + 0
      BY <3>1, <3>2, Zenon DEF Left
    <3> QED BY <3>3
  <2>4. \A nak \in p.naks : Len(nak) = 2
    BY <1>7 DEF seac_screen
  <2>5. p.purge # "send" /\ "overdue" \in Hazards /\ (p.purge = "retry" \/ "late" \in Hazards)
    BY <1>7 DEF seac_screen, Hazards
  <2>6. \A k \in DOMAIN p.reads : k < Len(p.reads) => p.reads[k].mode \in {"loose", "scan"}
    BY <2>1, <2>2
  <2>7. \A nak \in p.naks : Len(nak) <= Left(p, 1)
    <3>1. 2 <= 2
      OBVIOUS
    <3> QED BY <2>3, <2>4, <3>1, Zenon
  <2> QED BY <2>1, <2>2, <2>5, <2>6, <2>7
<1>8. CASE p = oceanic_vtpro
  BY <1>8 DEF oceanic_vtpro, Exact, Loose, Scan, Final, Packet, Hazards,
    Resynchronizes, Acknowledged, Protocols, Left, KindsOf
<1> QED BY <1>1, <1>2, <1>3, <1>4, <1>5, <1>6, <1>7, <1>8 DEF Whole

-----------------------------------------------------------------------------
(* What the line carries *)

LEMMA AnswerFacts ==
  ASSUME TypeInv
  PROVE  /\ Answer(block) \in Seq(Parts) /\ Len(Answer(block)) = Len(Kinds(p))
         /\ \A i \in 1 .. Len(Kinds(p)) : Answer(block)[i] = Part(Kinds(p)[i], block)
<1>1. Kinds(p) \in Seq(Names) /\ block \in Nat
  BY KindsFacts DEF TypeInv
<1>2. Answer(block) = [i \in DOMAIN Kinds(p) |-> Part(Kinds(p)[i], block)]
  BY DEF Answer, Kinds, KindsOf
<1>3. DOMAIN Kinds(p) = 1 .. Len(Kinds(p)) /\ Len(Kinds(p)) \in Nat /\ \A i \in 1 .. Len(Kinds(p)) : Kinds(p)[i] \in Names
  BY <1>1
<1>4. \A i \in 1 .. Len(Kinds(p)) : Part(Kinds(p)[i], block) \in Parts
  BY <1>1, <1>3 DEF Part, Parts
<1> HIDE DEF Kinds
<1> QED BY <1>2, <1>3, <1>4

\* An answer without one of its parts.
LEMMA CutFacts ==
  ASSUME NEW S, NEW a \in Seq(S), NEW i \in DOMAIN a
  PROVE  /\ RemoveAt(a, i) \in Seq(S) /\ Len(RemoveAt(a, i)) = Len(a) - 1
         /\ \A j \in 1 .. Len(a) - 1 : RemoveAt(a, i)[j] = IF j < i THEN a[j] ELSE a[j + 1]
<1>1. Len(a) \in Nat /\ i \in 1 .. Len(a)
  OBVIOUS
<1> DEFINE l == SubSeq(a, 1, i - 1)
           r == SubSeq(a, i + 1, Len(a))
<1>2. l \in Seq(S) /\ Len(l) = i - 1 /\ \A j \in 1 .. i - 1 : l[j] = a[j]
  BY <1>1, SubSeqProperties
<1>3. r \in Seq(S) /\ Len(r) = Len(a) - i /\ \A j \in 1 .. Len(a) - i : r[j] = a[i + j]
  BY <1>1, SubSeqProperties
<1>4. RemoveAt(a, i) = l \o r
  BY DEF RemoveAt
<1> HIDE DEF l, r
<1>5. /\ l \o r \in Seq(S) /\ Len(l \o r) = Len(l) + Len(r)
      /\ \A j \in 1 .. Len(l) + Len(r) : (l \o r)[j] = IF j <= Len(l) THEN l[j] ELSE r[j - Len(l)]
  BY <1>2, <1>3, ConcatProperties
<1> DEFINE c == l \o r
           n == Len(a)
<1>6. n \in Nat /\ i \in 1 .. n
  BY <1>1
<1>7. c \in Seq(S) /\ Len(c) = n - 1
  BY <1>1, <1>2, <1>3, <1>5
<1>8. \A j \in 1 .. n - 1 : c[j] = IF j <= i - 1 THEN l[j] ELSE r[j - (i - 1)]
  <2>1. Len(l) = i - 1 /\ Len(l) + Len(r) = n - 1
    BY <1>1, <1>2, <1>3
  <2> QED BY <1>5, <2>1, Zenon
<1>9. \A j \in 1 .. i - 1 : l[j] = a[j]
  BY <1>2
<1>10. \A j \in 1 .. n - i : r[j] = a[i + j]
  BY <1>3
<1> HIDE DEF c, n
<1>11. ASSUME NEW j \in 1 .. n - 1 PROVE c[j] = IF j < i THEN a[j] ELSE a[j + 1]
  <2>1. CASE j < i
    <3>1. j \in 1 .. i - 1 /\ j <= i - 1
      BY <1>6, <2>1
    <3> QED BY <1>8, <1>9, <2>1, <3>1
  <2>2. CASE ~(j < i)
    <3>1. j - (i - 1) \in 1 .. n - i /\ ~(j <= i - 1) /\ i + (j - (i - 1)) = j + 1
      BY <1>6, <2>2
    <3> QED BY <1>8, <1>10, <2>2, <3>1
  <2> QED BY <2>1, <2>2
<1> QED BY <1>4, <1>7, <1>11 DEF c, n

\* What a command can bring into the line.
Coming ==
  {<<>>, Answer(block)} \cup Cuts(Answer(block)) \cup Junks(Answer(block)) \cup Refusals(block)

LEMMA ComingFacts ==
  ASSUME TypeInv, NEW s \in Coming
  PROVE  /\ s \in Seq(Parts) /\ \A i \in DOMAIN s : s[i].of = block \/ s[i].kind = "junk"
         /\ p \in Whole => Len(s) <= Left(p, 1)
<1> DEFINE a == Answer(block)
<1>0. p \in Protocols /\ block \in Nat
  BY DEF TypeInv
<1>1. a \in Seq(Parts) /\ Len(a) = Left(p, 1) /\ \A i \in DOMAIN a : a[i].of = block
  <2>1. a \in Seq(Parts) /\ Len(a) = Len(Kinds(p)) /\ DOMAIN a = 1 .. Len(Kinds(p))
    BY AnswerFacts
  <2>2. Len(Kinds(p)) = Left(p, 1)
    BY <1>0, KindsFacts
  <2>3. \A i \in 1 .. Len(Kinds(p)) : a[i] = Part(Kinds(p)[i], block)
    BY AnswerFacts
  <2>4. \A k : Part(k, block).of = block
    BY DEF Part
  <2> HIDE DEF a
  <2> QED BY <2>1, <2>2, <2>3, <2>4
<1>2. Left(p, 1) \in Nat
  BY <1>1
<1> HIDE DEF a
<1>3. CASE s = <<>>
  BY <1>2, <1>3, EmptySeq
<1>4. CASE s = a
  BY <1>1, <1>2, <1>4
<1>5. CASE s \in Cuts(a)
  <2>1. PICK i \in DOMAIN a : s = RemoveAt(a, i)
    BY <1>5 DEF Cuts
  <2>2. /\ s \in Seq(Parts) /\ Len(s) = Len(a) - 1
        /\ \A j \in 1 .. Len(a) - 1 : s[j] = IF j < i THEN a[j] ELSE a[j + 1]
    BY <1>1, <2>1, CutFacts
  <2>3. \A j \in 1 .. Len(a) - 1 : j \in DOMAIN a /\ j + 1 \in DOMAIN a
    BY <1>1
  <2> QED BY <1>1, <1>2, <2>2, <2>3
<1>6. CASE s \in Junks(a)
  <2>1. PICK i \in DOMAIN a : s = [a EXCEPT ![i] = Part("junk", 0)]
    BY <1>6 DEF Junks, ReplaceAt
  <2>2. Part("junk", 0) \in Parts /\ Part("junk", 0).kind = "junk"
    BY DEF Part, Parts, Names
  <2> QED BY <1>1, <1>2, <2>1, <2>2
<1>7. CASE s \in Refusals(block)
  <2>1. PICK nak \in p.naks : s = [i \in DOMAIN nak |-> Part(nak[i], block)]
    BY <1>7 DEF Refusals
  <2>2. nak \in Seq(Names)
    <3>1. /\ <<"nak">> \in Seq(Names) /\ <<"start", "nak">> \in Seq(Names)
          /\ <<"start", "busy">> \in Seq(Names)
      BY DEF Names
    <3> QED BY <1>0, <3>1, DriverFacts
  <2>3. \A i \in DOMAIN nak : Part(nak[i], block) \in Parts /\ Part(nak[i], block).of = block
    BY <1>0, <2>2 DEF Part, Parts
  <2>4. s \in Seq(Parts) /\ Len(s) = Len(nak) /\ \A i \in DOMAIN s : s[i].of = block
    BY <2>1, <2>2, <2>3
  <2> QED BY <2>4, WholeFacts
<1> QED BY <1>3, <1>4, <1>5, <1>6, <1>7 DEF Coming, a

\* A command is answered by one of these; only an overdue answer comes before
\* it.
LEMMA SendFacts ==
  ASSUME TypeInv, Send
  PROVE  \E s \in Coming :
           /\ \/ line' = Kept \o s
              \/ line' = Kept \o late \o s /\ "overdue" \in seen'
           /\ \/ s \in {<<>>, Answer(block)}
              \/ s \in Cuts(Answer(block)) /\ "cut" \in seen'
              \/ s \in Junks(Answer(block)) /\ "junk" \in seen'
              \/ s \in Refusals(block)
           /\ seen \subseteq seen' /\ faults' \in Nat
           /\ late' \in Seq(Parts) /\ (late' # <<>> => "late" \in seen')
<1> DEFINE a == Answer(block)
<1>0. a \in Seq(Parts) /\ late \in Seq(Parts) /\ Kept \in Seq(Parts) /\ faults \in Nat
      /\ (late # <<>> => "late" \in seen)
  BY AnswerFacts DEF TypeInv, Kept
<1>1. Kept \o <<>> = Kept /\ <<>> \in Coming /\ a \in Coming /\ late \o a \in Seq(Parts) /\ <<>> \in Seq(Parts)
  BY <1>0 DEF Coming
<1>2. Cuts(a) \subseteq Coming /\ Junks(a) \subseteq Coming /\ Refusals(block) \subseteq Coming
  BY DEF Coming
<1> HIDE DEF a
<1>3. CASE line' = Kept \o late \o a /\ late' = <<>> /\ faults' = faults
           /\ seen' = (IF late = <<>> THEN seen ELSE seen \cup {"overdue"})
  <2>1. CASE late = <<>>
    <3>1. line' = Kept \o a
      BY <1>0, <1>1, <1>3, <2>1
    <3> QED BY <1>0, <1>1, <1>3, <2>1, <3>1 DEF a
  <2>2. CASE late # <<>>
    BY <1>0, <1>1, <1>3, <2>2 DEF a
  <2> QED BY <2>1, <2>2
<1>4. CASE line' = Kept /\ late' = late /\ faults' = faults + 1 /\ seen' = seen \cup {"lost"}
  <2>1. line' = Kept \o <<>> /\ faults' \in Nat /\ seen \subseteq seen'
        /\ late' \in Seq(Parts) /\ (late' # <<>> => "late" \in seen')
    BY <1>0, <1>1, <1>4
  <2> QED BY <1>1, <2>1, Zenon
<1>5. CASE line' = Kept /\ late' = late \o a /\ faults' = faults + 1 /\ seen' = seen \cup {"late"}
  BY <1>0, <1>1, <1>5
<1>6. CASE /\ late' = late /\ faults' = faults + 1 /\ seen' = seen \cup {"cut"}
           /\ \E s \in Cuts(a) : line' = Kept \o s
  <2>1. PICK s \in Cuts(a) : line' = Kept \o s
    BY <1>6
  <2>2. s \in Coming /\ faults + 1 \in Nat /\ seen \subseteq seen'
    BY <1>0, <1>2, <1>6
  <2> QED BY <1>0, <1>6, <2>1, <2>2 DEF a
<1>7. CASE /\ late' = late /\ faults' = faults + 1 /\ seen' = seen \cup {"junk"}
           /\ \E s \in Junks(a) : line' = Kept \o s
  <2>1. PICK s \in Junks(a) : line' = Kept \o s
    BY <1>7
  <2>2. s \in Coming /\ faults + 1 \in Nat /\ seen \subseteq seen'
    BY <1>0, <1>2, <1>7
  <2> QED BY <1>0, <1>7, <2>1, <2>2 DEF a
<1>8. CASE /\ late' = late /\ faults' = faults + 1 /\ seen' = seen \cup {"nak"}
           /\ \E s \in Refusals(block) : line' = Kept \o s
  <2>1. PICK s \in Refusals(block) : line' = Kept \o s
    BY <1>8
  <2>2. s \in Coming /\ faults + 1 \in Nat /\ seen \subseteq seen'
    BY <1>0, <1>2, <1>8
  <2> QED BY <1>0, <1>8, <2>1, <2>2 DEF a
<1> QED BY <1>3, <1>4, <1>5, <1>6, <1>7, <1>8 DEF Send, a

-----------------------------------------------------------------------------
(* Types, and the blocks counted *)

\* The rest of the line, and what was taken from it.
LEMMA TakeFacts ==
  ASSUME NEW S, NEW l \in Seq(S), NEW n \in Nat, n <= Len(l)
  PROVE  /\ SubSeq(l, 1, n) \in Seq(S) /\ Len(SubSeq(l, 1, n)) = n
         /\ \A i \in 1 .. n : SubSeq(l, 1, n)[i] = l[i]
         /\ SubSeq(l, n + 1, Len(l)) \in Seq(S) /\ Len(SubSeq(l, n + 1, Len(l))) = Len(l) - n
         /\ \A i \in 1 .. Len(l) - n : SubSeq(l, n + 1, Len(l))[i] = l[n + i]
<1>1. Len(l) \in Nat
  OBVIOUS
<1> QED BY <1>1, SubSeqProperties

\* After a failed attempt there is another one, or the transfer is over.
GivenUp(s) == pc' = "idle" /\ status' = s /\ nretries' = nretries

LEMMA AttemptFacts ==
  ASSUME NEW s \in {"TIMEOUT", "PROTOCOL"}, Attempt(s)
  PROVE  \/ pc' = "pause" /\ nretries' = nretries + 1 /\ nretries < p.retries /\ status' = status
         \/ GivenUp(s) /\ (Current.mode = "final" \/ ~(nretries < p.retries))
BY DEF Attempt, Fail, GivenUp, Retryable

\* The read in progress.
LEMMA CurrentFacts ==
  ASSUME TypeInv
  PROVE  /\ Readable(Current) /\ KindsOf(p, part) = Current.kinds
         /\ part \in 1 .. Len(p.reads) /\ Len(p.reads) \in 1 .. 3 /\ p.retries \in Nat \ {0}
         /\ DOMAIN p.reads = 1 .. Len(p.reads)
BY KindsFacts, DriverFacts DEF TypeInv, Current

Rejected ==
  \/ pc' = "pause" /\ nretries' = nretries + 1 /\ nretries < p.retries /\ status' = status
  \/ /\ \E s \in {"TIMEOUT", "PROTOCOL", "REFUSED"} : GivenUp(s)
     /\ Current.mode = "final" \/ p.fatal # {} \/ ~(nretries < p.retries)

\* A scan ends before the last read.
LEMMA ScanFacts ==
  ASSUME p \in Protocols, NEW k \in DOMAIN p.reads, p.reads[k].mode = "scan"
  PROVE  k < Len(p.reads) /\ Len(p.reads[k].kinds) = 1
<1> USE DEF Exact, Loose, Scan, Final, Packet
<1>1. CASE p = mares_common
  BY <1>1 DEF mares_common
<1>2. CASE p = cressi_edy
  BY <1>2 DEF cressi_edy
<1>3. CASE p = cressi_leonardo
  BY <1>3 DEF cressi_leonardo
<1>4. CASE p = oceanic_vtpro
  BY <1>4 DEF oceanic_vtpro
<1>5. CASE p = oceanic_veo250
  BY <1>5 DEF oceanic_veo250
<1>6. CASE p = oceanic_atom2
  BY <1>6 DEF oceanic_atom2
<1>7. CASE p = divesystem_idive
  BY <1>7 DEF divesystem_idive
<1>8. CASE p = seac_screen
  BY <1>8 DEF seac_screen
<1>9. CASE p = liquivision_lynx
  BY <1>9 DEF liquivision_lynx
<1>10. CASE p = mares_iconhd
  BY <1>10 DEF mares_iconhd
<1>11. CASE p = sporasub_sp2
  BY <1>11 DEF sporasub_sp2
<1>12. CASE p = suunto_d9
  BY <1>12 DEF suunto_d9
<1>13. CASE p = suunto_vyper2
  BY <1>13 DEF suunto_vyper2
<1> QED BY <1>1, <1>2, <1>3, <1>4, <1>5, <1>6, <1>7, <1>8, <1>9, <1>10, <1>11, <1>12, <1>13 DEF Protocols

\* The parts that a read takes.
Taken == SubSeq(line, 1, Len(Current.kinds))

LEMMA DataFacts ==
  ASSUME NEW s
  PROVE  \/ DataOf(s) = data /\ \A i \in DOMAIN s : Current.kinds[i] # "data"
         \/ \E i \in DOMAIN s : Current.kinds[i] = "data" /\ DataOf(s) = s[i]
<1> DEFINE at == {i \in DOMAIN s : Current.kinds[i] = "data"}
<1>1. DataOf(s) = IF at = {} THEN data ELSE s[CHOOSE i \in at : TRUE]
  BY DEF DataOf
<1>2. at # {} => (CHOOSE i \in at : TRUE) \in at
  OBVIOUS
<1> QED BY <1>1, <1>2

\* What a read of parts does.
LEMMA PartsFacts ==
  ASSUME TypeInv, ReadParts
  PROVE  /\ pc = "read" /\ Current.mode # "scan" /\ Len(Current.kinds) \in 1 .. 3
         /\ Taken \in Seq(Parts) /\ Len(Taken) = Len(Current.kinds)
         /\ \A i \in DOMAIN Taken : i \in DOMAIN line /\ Taken[i] = line[i]
         /\ line' \in Seq(Parts) /\ Len(line') = Len(line) - Len(Current.kinds)
         /\ \A i \in DOMAIN line' : Len(Current.kinds) + i \in DOMAIN line /\ line'[i] = line[Len(Current.kinds) + i]
         /\ DataOf(Taken) \in Parts
         /\ UNCHANGED <<p, late, seen, faults, cancelled, call>>
         /\ \/ /\ Current.mode = "loose" \/ Valid(Taken, Current.kinds)
               /\ part = Len(p.reads) /\ Store(DataOf(Taken)) /\ UNCHANGED <<part, data>>
            \/ /\ Current.mode = "loose" \/ Valid(Taken, Current.kinds)
               /\ part # Len(p.reads) /\ part' = part + 1 /\ data' = DataOf(Taken)
               /\ UNCHANGED <<block, pc, nretries, got, status>>
            \/ /\ Current.mode # "loose" /\ ~Valid(Taken, Current.kinds)
               /\ Rejected /\ UNCHANGED <<block, part, data, got>>
<1> DEFINE n == Len(Current.kinds)
<1>1. n \in 1 .. 3 /\ line \in Seq(Parts) /\ data \in Parts
  BY CurrentFacts DEF TypeInv, Readable
<1>2. pc = "read" /\ Current.mode # "scan" /\ Len(line) >= n /\ line' = SubSeq(line, n + 1, Len(line))
  BY DEF ReadParts
<1> HIDE DEF n
<1>3. n \in Nat /\ n <= Len(line) /\ Len(line) \in Nat
  BY <1>1, <1>2
<1>4. /\ SubSeq(line, 1, n) \in Seq(Parts) /\ Len(SubSeq(line, 1, n)) = n
      /\ \A i \in 1 .. n : SubSeq(line, 1, n)[i] = line[i]
      /\ line' \in Seq(Parts) /\ Len(line') = Len(line) - n
      /\ \A i \in 1 .. Len(line) - n : line'[i] = line[n + i]
  BY <1>1, <1>2, <1>3, TakeFacts
<1>5. Taken = SubSeq(line, 1, n)
  BY DEF Taken, n
<1> HIDE DEF Taken
<1>6. /\ Taken \in Seq(Parts) /\ Len(Taken) = n /\ DOMAIN Taken = 1 .. n
      /\ \A i \in DOMAIN Taken : i \in DOMAIN line /\ Taken[i] = line[i]
  BY <1>1, <1>3, <1>4, <1>5
<1>7. \A i \in DOMAIN line' : n + i \in DOMAIN line /\ line'[i] = line[n + i]
  BY <1>1, <1>3, <1>4
<1>8. DataOf(Taken) \in Parts
  BY <1>1, <1>6, DataFacts
<1>9. /\ UNCHANGED <<p, late, seen, faults, cancelled, call>>
      /\ IF Current.mode = "loose" \/ Valid(Taken, Current.kinds)
           THEN IF part = Len(p.reads)
                  THEN Store(DataOf(Taken)) /\ UNCHANGED <<part, data>>
                  ELSE part' = part + 1 /\ data' = DataOf(Taken)
                       /\ UNCHANGED <<block, pc, nretries, got, status>>
           ELSE /\ IF Refused(Taken) THEN Fail("REFUSED") ELSE Attempt("PROTOCOL")
                /\ UNCHANGED <<block, part, data, got>>
  BY DEF ReadParts, Taken
<1>10. ASSUME Attempt("PROTOCOL") PROVE Rejected
  BY <1>10, AttemptFacts DEF Rejected
<1>11. ASSUME Refused(Taken), Fail("REFUSED") PROVE Rejected
  BY <1>11 DEF Rejected, GivenUp, Fail, Refused
<1> QED BY <1>1, <1>2, <1>4, <1>6, <1>7, <1>8, <1>9, <1>10, <1>11 DEF n

\* A block is stored.
LEMMA StoreFacts ==
  ASSUME TransferAssumption, TypeInv, CountInv, pc = "read", NEW d \in Parts, Store(d)
  PROVE  /\ got' \in Seq(Nat) /\ Len(got') = block /\ Len(got) = block - 1
         /\ \A k \in 1 .. block - 1 : got'[k] = got[k]
         /\ got'[block] = IF d.kind = "data" THEN d.of ELSE 0
         /\ nretries' = 0 /\ block' \in 1 .. NBlocks
         /\ \/ pc' = "idle" /\ status' = "SUCCESS" /\ block = NBlocks
            \/ pc' = "send" /\ block' = block + 1 /\ status' = status
<1>1. got \in Seq(Nat) /\ block \in 1 .. NBlocks /\ Len(got) = block - 1 /\ NBlocks \in Nat
  BY DEF TransferAssumption, TypeInv, CountInv
<1> DEFINE x == IF d.kind = "data" THEN d.of ELSE 0
<1>2. x \in Nat
  BY DEF Parts
<1>3. got' = Append(got, x)
  BY DEF Store
<1> HIDE DEF x
<1>4. /\ got' \in Seq(Nat) /\ Len(got') = block /\ got'[block] = x
      /\ \A k \in 1 .. block - 1 : got'[k] = got[k]
  BY <1>1, <1>2, <1>3, AppendProperties
<1>5. /\ nretries' = 0 /\ block' \in 1 .. NBlocks
      /\ \/ pc' = "idle" /\ status' = "SUCCESS" /\ block = NBlocks
         \/ pc' = "send" /\ block' = block + 1 /\ status' = status
  BY <1>1 DEF Store
<1> QED BY <1>1, <1>4, <1>5 DEF x

LEMMA TypeStep ==
  ASSUME TransferAssumption, TypeInv, CountInv, [Next]_vars
  PROVE  TypeInv' /\ CountInv'
<1> USE DEF TypeInv, CountInv, Statuses, wire
<1>0. 1 \in 1 .. NBlocks /\ NBlocks \in Nat /\ 1 \in DOMAIN p.reads /\ 0 \in 0 .. p.retries /\ p.retries \in Nat
  BY DriverFacts DEF TransferAssumption
<1>1. CASE Foreach
  <2>1. <<>> \in Seq(Nat) /\ Len(<<>>) = 1 - 1
    BY EmptySeq
  <2>2. /\ call' = call + 1 /\ block' = 1 /\ pc' = "send" /\ nretries' = 0
        /\ got' = <<>> /\ status' = "none" /\ cancelled' = FALSE
        /\ UNCHANGED <<p, line, late, seen, faults, part, data>>
    BY <1>1 DEF Foreach
  <2>3. CountInv'
    BY <2>1, <2>2
  <2>4. got' \in Seq(Nat)
    BY <2>1, <2>2
  <2>5. cancelled' \in BOOLEAN
    BY <2>2, Zenon
  <2>6. call' \in Nat
    BY <2>2
  <2>7. block' \in 1 .. NBlocks /\ nretries' \in 0 .. p.retries
    BY <1>0, <2>2, Zenon
  <2>8. TypeInv'
    BY <2>2, <2>4, <2>5, <2>6, <2>7
  <2> QED BY <2>3, <2>8
<1>2. CASE Cancel
  BY <1>2 DEF Cancel
<1>3. CASE Cancelled
  BY <1>3 DEF Cancelled, Fail
<1>4. CASE Send
  <2>1. PICK s \in Coming :
           /\ line' = Kept \o s \/ line' = Kept \o late \o s
           /\ faults' \in Nat /\ late' \in Seq(Parts) /\ (late' # <<>> => "late" \in seen')
    BY <1>4, SendFacts
  <2>2. s \in Seq(Parts) /\ Kept \in Seq(Parts)
    BY ComingFacts DEF Kept
  <2>3. line' \in Seq(Parts)
    <3>1. Kept \o s \in Seq(Parts) /\ Kept \o late \in Seq(Parts)
      BY <2>2, ConcatProperties
    <3>2. Kept \o late \o s \in Seq(Parts)
      BY <2>2, <3>1, ConcatProperties
    <3> QED BY <2>1, <3>1, <3>2
  <2>4. /\ pc = "send" /\ pc' = "read" /\ part' = 1 /\ data' = Nothing
        /\ UNCHANGED <<p, cancelled, call, block, nretries, got, status>>
    BY <1>4 DEF Send
  <2>5. Nothing \in Parts
    BY DEF Nothing, Part, Parts, Names
  <2> QED BY <1>0, <2>1, <2>3, <2>4, <2>5
<1>5. CASE ReadShort
  <2>1. /\ pc = "read" /\ line' = <<>>
        /\ UNCHANGED <<p, late, seen, faults, cancelled, call, block, part, data, got>>
    BY <1>5 DEF ReadShort
  <2>2. \/ pc' = "pause" /\ nretries' = nretries + 1 /\ nretries < p.retries /\ status' = status
        \/ GivenUp("TIMEOUT")
    BY <1>5, AttemptFacts DEF ReadShort
  <2> QED BY <1>0, <2>1, <2>2 DEF GivenUp
<1>6. CASE ReadParts
  <2>1. /\ pc = "read" /\ line' \in Seq(Parts) /\ DataOf(Taken) \in Parts
        /\ UNCHANGED <<p, late, seen, faults, cancelled, call>>
    BY <1>6, PartsFacts
  <2>2. CASE part = Len(p.reads) /\ Store(DataOf(Taken)) /\ UNCHANGED <<part, data>>
    <3>1. /\ got' \in Seq(Nat) /\ Len(got') = block
          /\ nretries' = 0 /\ block' \in 1 .. NBlocks
          /\ \/ pc' = "idle" /\ status' = "SUCCESS" /\ block = NBlocks
             \/ pc' = "send" /\ block' = block + 1 /\ status' = status
      BY <2>1, <2>2, StoreFacts
    <3>2. CASE pc' = "idle" /\ status' = "SUCCESS" /\ block = NBlocks
      BY <1>0, <2>1, <2>2, <3>1, <3>2
    <3>3. CASE pc' = "send" /\ block' = block + 1 /\ status' = status
      <4>1. Len(got') = block' - 1 /\ status' = "none"
        BY <2>1, <3>1, <3>3
      <4>2. CountInv'
        BY <3>3, <4>1
      <4> QED BY <1>0, <2>1, <2>2, <3>1, <3>3, <4>1, <4>2
    <3> QED BY <3>1, <3>2, <3>3
  <2>3. CASE /\ part # Len(p.reads) /\ part' = part + 1 /\ data' = DataOf(Taken)
             /\ UNCHANGED <<block, pc, nretries, got, status>>
    <3>1. part + 1 \in DOMAIN p.reads
      BY <2>3, CurrentFacts
    <3> QED BY <2>1, <2>3, <3>1
  <2>4. CASE Rejected /\ UNCHANGED <<block, part, data, got>>
    BY <1>0, <2>1, <2>4 DEF Rejected, GivenUp
  <2> QED BY <1>6, <2>2, <2>3, <2>4, PartsFacts
<1>7. CASE ReadScan
  <2>1. pc = "read" /\ UNCHANGED <<p, late, seen, faults, cancelled, call, block, data, got>>
    BY <1>7 DEF ReadScan
  <2>2. CASE line = <<>>
    <3>1. \/ pc' = "pause" /\ nretries' = nretries + 1 /\ nretries < p.retries /\ status' = status
          \/ GivenUp("TIMEOUT")
      BY <1>7, <2>2, AttemptFacts DEF ReadScan
    <3>2. UNCHANGED <<line, part>>
      BY <1>7, <2>2 DEF ReadScan
    <3> QED BY <1>0, <2>1, <3>1, <3>2 DEF GivenUp
  <2>3. CASE line # <<>>
    <3>1. line' = Tail(line) /\ part' \in {part, part + 1} /\ UNCHANGED <<pc, nretries, status>>
      BY <1>7, <2>3 DEF ReadScan
    <3>2. line' \in Seq(Parts)
      BY <2>3, <3>1
    <3>3. part + 1 \in DOMAIN p.reads
      <4>1. part < Len(p.reads)
        BY <1>7, ScanFacts DEF ReadScan, Current
      <4> QED BY <4>1, CurrentFacts
    <3> QED BY <2>1, <3>1, <3>2, <3>3
  <2> QED BY <2>2, <2>3
<1>8. CASE Pause
  <2>1. /\ pc' = "send" /\ pc = "pause"
        /\ UNCHANGED <<p, seen, faults, cancelled, call, block, part, nretries, data, got, status>>
        /\ late' \in {<<>>, late} /\ line' \in {<<>>, line, line \o late}
    BY <1>8 DEF Pause, Purged
  <2>2. line' \in Seq(Parts) /\ late' \in Seq(Parts)
    <3>1. line \o late \in Seq(Parts) /\ <<>> \in Seq(Parts)
      BY ConcatProperties, EmptySeq
    <3> QED BY <2>1, <3>1
  <2> QED BY <2>1, <2>2
<1>9. CASE Arrive
  BY <1>9 DEF Arrive
<1>10. CASE UNCHANGED vars
  BY <1>10 DEF vars
<1> QED BY <1>1, <1>2, <1>3, <1>4, <1>5, <1>6, <1>7, <1>8, <1>9, <1>10 DEF Next, Finished

-----------------------------------------------------------------------------
(* The line *)

\* The driver stays the same, and what went wrong is not forgotten.
LEMMA CleanFacts ==
  ASSUME TypeInv, [Next]_vars
  PROVE  /\ p' = p /\ Hazards' = Hazards /\ Acknowledged' = Acknowledged
         /\ Clean' => Clean
<1>1. p' = p /\ seen \subseteq seen'
  <2>1. CASE Send
    BY <2>1, SendFacts DEF Send
  <2>2. CASE ReadParts
    BY <2>2, PartsFacts
  <2>3. CASE ReadShort \/ ReadScan
    BY <2>3 DEF ReadShort, ReadScan
  <2>4. CASE Foreach \/ Cancel \/ Cancelled \/ Pause \/ Arrive \/ UNCHANGED vars
    BY <2>4 DEF Foreach, Cancel, Cancelled, Pause, Arrive, vars, wire
  <2> QED BY <2>1, <2>2, <2>3, <2>4 DEF Next, Finished
<1>2. Hazards' = Hazards /\ Acknowledged' = Acknowledged
  BY <1>1 DEF Hazards, Resynchronizes, Acknowledged
<1> QED BY <1>1, <1>2 DEF Clean

\* What is left of an answer behind a read.
LEMMA LeftFacts ==
  ASSUME TypeInv
  PROVE  /\ Left(p, part) \in Nat /\ Left(p, 1) \in Nat
         /\ part = Len(p.reads) => Left(p, part) = Len(Current.kinds)
         /\ Left(p, part + 1) \in Nat /\ Left(p, part) <= Len(Current.kinds) + Left(p, part + 1)
<1>1. part \in 1 .. Len(p.reads) /\ Len(p.reads) \in 1 .. 3 /\ DOMAIN p.reads = 1 .. Len(p.reads)
      /\ KindsOf(p, part) = Current.kinds
  BY CurrentFacts
<1>2. part \in Nat /\ part + 1 \in Nat /\ part + 2 \in Nat /\ part + 3 \in Nat
      /\ (part + 1) + 1 = part + 2 /\ (part + 1) + 2 = part + 3 /\ 1 + 1 \in Nat /\ 1 + 2 \in Nat
  BY <1>1
<1>3. \A k \in Nat : Len(KindsOf(p, k)) \in Nat
  BY KindsFacts DEF TypeInv
<1>4. Left(p, part) = Len(Current.kinds) + Len(KindsOf(p, part + 1)) + Len(KindsOf(p, part + 2))
  BY <1>1 DEF Left
<1>5. Left(p, part + 1) = Len(KindsOf(p, part + 1)) + Len(KindsOf(p, part + 2)) + Len(KindsOf(p, part + 3))
  BY <1>2 DEF Left
<1>6. /\ Len(Current.kinds) \in Nat /\ Len(KindsOf(p, part + 1)) \in Nat
      /\ Len(KindsOf(p, part + 2)) \in Nat /\ Len(KindsOf(p, part + 3)) \in Nat
  BY <1>1, <1>2, <1>3
<1>7. ASSUME part = Len(p.reads) PROVE Left(p, part) = Len(Current.kinds)
  <2>1. part + 1 \notin DOMAIN p.reads /\ part + 2 \notin DOMAIN p.reads
    BY <1>1, <1>7
  <2>2. KindsOf(p, part + 1) = <<>> /\ KindsOf(p, part + 2) = <<>> /\ Len(<<>>) = 0
    BY <2>1 DEF KindsOf
  <2>3. Left(p, part) = Len(Current.kinds) + 0 + 0
    BY <1>4, <2>2, Zenon
  <2> QED BY <1>6, <2>3
<1>8. Left(p, 1) \in Nat
  <2>1. Len(KindsOf(p, 1)) \in Nat /\ Len(KindsOf(p, 1 + 1)) \in Nat /\ Len(KindsOf(p, 1 + 2)) \in Nat
    BY <1>2, <1>3
  <2>2. Left(p, 1) = Len(KindsOf(p, 1)) + Len(KindsOf(p, 1 + 1)) + Len(KindsOf(p, 1 + 2))
    BY Zenon DEF Left
  <2> QED BY <2>1, <2>2
<1>9. Left(p, part) \in Nat /\ Left(p, part + 1) \in Nat
      /\ Left(p, part) <= Len(Current.kinds) + Left(p, part + 1)
  <2> DEFINE a == Len(Current.kinds)
             b == Len(KindsOf(p, part + 1))
             c == Len(KindsOf(p, part + 2))
             d == Len(KindsOf(p, part + 3))
             m == Left(p, part)
             n == Left(p, part + 1)
  <2>1. m = a + b + c /\ n = b + c + d /\ a \in Nat /\ b \in Nat /\ c \in Nat /\ d \in Nat
    BY <1>4, <1>5, <1>6, Zenon
  <2> HIDE DEF a, b, c, d, m, n
  <2>2. m \in Nat /\ n \in Nat /\ m <= a + n
    BY <2>1
  <2> QED BY <2>2 DEF a, m, n
<1> QED BY <1>7, <1>8, <1>9

\* The two that purge, or do not have to.
LEMMA AnsweredFacts ==
  ASSUME TypeInv, LineInv, Clean, Clean', Send, p \in Whole \cup {oceanic_veo250}
  PROVE  \E s \in Coming :
           /\ line' = s
           /\ \/ s \in {<<>>, Answer(block)}
              \/ s \in Cuts(Answer(block)) /\ "cut" \in seen'
              \/ s \in Junks(Answer(block)) /\ "junk" \in seen'
              \/ s \in Refusals(block)
<1>1. "overdue" \in Hazards
  BY WholeFacts DEF Hazards, oceanic_veo250
<1>2. Kept = <<>>
  <2>1. pc = "send"
    BY DEF Send
  <2>2. CASE p \in Whole
    BY <2>1, <2>2 DEF LineInv, WholeInv, Kept
  <2>3. CASE p = oceanic_veo250
    BY <2>3 DEF Kept, oceanic_veo250
  <2> QED BY <2>2, <2>3
<1>3. Hazards' = Hazards
  BY CleanFacts DEF Next
<1>4. "overdue" \notin seen'
  BY <1>1, <1>3 DEF Clean
<1>5. PICK s \in Coming :
         /\ \/ line' = Kept \o s
            \/ line' = Kept \o late \o s /\ "overdue" \in seen'
         /\ \/ s \in {<<>>, Answer(block)}
            \/ s \in Cuts(Answer(block)) /\ "cut" \in seen'
            \/ s \in Junks(Answer(block)) /\ "junk" \in seen'
            \/ s \in Refusals(block)
  BY SendFacts
<1>6. s \in Seq(Parts)
  BY ComingFacts
<1>7. line' = s
  BY <1>2, <1>4, <1>5, <1>6
<1> QED BY <1>5, <1>7

LEMMA FreshStep ==
  ASSUME TypeInv, LineInv, [Next]_vars, Clean, Clean'
  PROVE  FreshInv'
<1> SUFFICES ASSUME p' \in Whole \cup {oceanic_veo250}, pc' = "read"
             PROVE  Fresh(line', block')
  BY DEF FreshInv
<1>0. p' = p /\ p \in Whole \cup {oceanic_veo250}
  BY CleanFacts
<1>1. CASE Send
  <2>1. PICK s \in Coming : line' = s
    BY <1>0, <1>1, AnsweredFacts
  <2>2. \A i \in DOMAIN s : s[i].of = block \/ s[i].kind = "junk"
    BY ComingFacts
  <2>3. block' = block
    BY <1>1 DEF Send
  <2> QED BY <2>1, <2>2, <2>3 DEF Fresh
<1>2. CASE ReadParts
  <2>1. pc = "read" /\ \A i \in DOMAIN line' : Len(Current.kinds) + i \in DOMAIN line
                                             /\ line'[i] = line[Len(Current.kinds) + i]
    BY <1>2, PartsFacts
  <2>2. block' = block
    BY <1>2, PartsFacts DEF Store, Rejected, GivenUp
  <2>3. Fresh(line, block)
    BY <1>0, <2>1 DEF LineInv, FreshInv
  <2> QED BY <2>1, <2>2, <2>3 DEF Fresh
<1>3. CASE ReadScan
  <2>1. pc = "read" /\ block' = block
    BY <1>3 DEF ReadScan
  <2>2. Fresh(line, block)
    BY <1>0, <2>1 DEF LineInv, FreshInv
  <2>3. line # <<>> /\ line' = Tail(line)
    BY <1>3, AttemptFacts DEF ReadScan, GivenUp
  <2>4. \A i \in DOMAIN line' : i + 1 \in DOMAIN line /\ line'[i] = line[i + 1]
    BY <2>3 DEF TypeInv
  <2> QED BY <2>1, <2>2, <2>4 DEF Fresh
<1>4. CASE ReadShort
  BY <1>4, AttemptFacts DEF ReadShort, GivenUp
<1>5. CASE Foreach \/ Cancelled \/ Pause
  BY <1>5 DEF Foreach, Cancelled, Pause, Fail
<1>6. CASE Arrive
  BY <1>6 DEF Arrive
<1>7. CASE Cancel \/ UNCHANGED vars
  BY <1>0, <1>7 DEF Cancel, vars, wire, LineInv, FreshInv
<1> QED BY <1>1, <1>2, <1>3, <1>4, <1>5, <1>6, <1>7 DEF Next, Finished

\* The line is as long as what is left to read, and empty behind it.
LEMMA WholeStep ==
  ASSUME TransferAssumption, TypeInv, CountInv, LineInv, [Next]_vars, Clean, Clean'
  PROVE  WholeInv'
<1> SUFFICES ASSUME p' \in Whole
             PROVE  IF pc' = "read"
                      THEN /\ Len(line') <= Left(p', part')
                           /\ Acknowledged' /\ part' = 1 => Len(line') <= 1 \/ line'[1].kind = "ack"
                      ELSE line' = <<>>
  BY DEF WholeInv
<1>0. /\ p' = p /\ p \in Whole /\ Acknowledged' = Acknowledged /\ Hazards' = Hazards
      /\ "overdue" \notin seen' /\ WholeInv /\ line \in Seq(Parts)
  BY CleanFacts, WholeFacts DEF Clean, LineInv, TypeInv
<1>1. CASE Send
  <2>1. PICK s \in Coming :
           /\ line' = s
           /\ \/ s \in {<<>>, Answer(block)}
              \/ s \in Cuts(Answer(block)) /\ "cut" \in seen'
              \/ s \in Junks(Answer(block)) /\ "junk" \in seen'
              \/ s \in Refusals(block)
    BY <1>0, <1>1, AnsweredFacts
  <2>2. part' = 1 /\ pc' = "read"
    BY <1>1 DEF Send
  <2>3. Len(s) <= Left(p, 1)
    BY <1>0, ComingFacts
  <2>4. ASSUME Acknowledged PROVE Len(s) <= 1 \/ s[1].kind = "ack"
    <3>1. "cut" \notin seen' /\ "junk" \notin seen' /\ p = oceanic_vtpro
      BY <1>0, <2>4, WholeFacts DEF Clean
    <3>2. CASE s = <<>>
      BY <3>2
    <3>3. CASE s = Answer(block)
      <4>1. Kinds(p)[1] = "ack" /\ Kinds(p) \in Seq(Names)
        BY <3>1, KindsFacts DEF TypeInv
      <4>2. Len(s) = Len(Kinds(p)) /\ \A i \in 1 .. Len(Kinds(p)) : s[i] = Part(Kinds(p)[i], block)
        BY <3>3, AnswerFacts
      <4>3. Len(s) \in Nat /\ (Len(s) <= 1 \/ 1 \in 1 .. Len(Kinds(p)))
        BY <4>1, <4>2
      <4>4. Part("ack", block).kind = "ack"
        BY DEF Part
      <4>5. CASE 1 \in 1 .. Len(Kinds(p))
        <5>1. s[1] = Part("ack", block)
          BY <4>1, <4>2, <4>5
        <5> QED BY <4>4, <5>1
      <4> QED BY <4>3, <4>5
    <3>4. CASE s \in Refusals(block)
      <4>1. PICK nak \in p.naks : s = [i \in DOMAIN nak |-> Part(nak[i], block)]
        BY <3>4 DEF Refusals
      <4>2. Len(nak) = 1 /\ nak \in {<<"nak">>, <<"start", "nak">>, <<"start", "busy">>}
        BY <1>0, <2>4, WholeFacts, DriverFacts
      <4>3. Len(s) = 1
        BY <4>1, <4>2
      <4> QED BY <4>3
    <3> QED BY <2>1, <3>1, <3>2, <3>3, <3>4
  <2> QED BY <1>0, <2>1, <2>2, <2>3, <2>4
<1>2. CASE ReadShort
  <2>1. line' = <<>> /\ pc' # "read"
    BY <1>2, AttemptFacts DEF ReadShort, GivenUp
  <2> QED BY <2>1
<1>3. CASE ReadParts
  <2> DEFINE n == Len(Current.kinds)
  <2>1. /\ pc = "read" /\ Current.mode # "scan" /\ n \in 1 .. 3
        /\ Taken \in Seq(Parts) /\ Len(Taken) = n
        /\ \A i \in DOMAIN Taken : i \in DOMAIN line /\ Taken[i] = line[i]
        /\ line' \in Seq(Parts) /\ Len(line') = Len(line) - n /\ DataOf(Taken) \in Parts
    BY <1>3, PartsFacts
  <2>2. /\ Len(line) <= Left(p, part) /\ Len(line) \in Nat
        /\ Acknowledged /\ part = 1 => Len(line) <= 1 \/ line[1].kind = "ack"
    BY <1>0, <2>1 DEF WholeInv
  <2>3. /\ Left(p, part) \in Nat /\ (part = Len(p.reads) => Left(p, part) = n)
        /\ Left(p, part + 1) \in Nat /\ Left(p, part) <= n + Left(p, part + 1)
    BY LeftFacts
  <2>4. part \in 1 .. Len(p.reads) /\ Len(p.reads) \in 1 .. 3 /\ DOMAIN p.reads = 1 .. Len(p.reads)
    BY CurrentFacts
  <2> HIDE DEF n
  <2>5. ASSUME Len(line') <= 0 PROVE line' = <<>>
    BY <2>1, <2>5, EmptySeq
  <2>6. part = Len(p.reads) => line' = <<>>
    <3>1. part = Len(p.reads) => Len(line') <= 0
      BY <2>1, <2>2, <2>3
    <3> QED BY <2>5, <3>1
  <2>7. CASE part = Len(p.reads) /\ Store(DataOf(Taken))
    <3>1. pc' # "read"
      BY <2>1, <2>7, StoreFacts
    <3> QED BY <2>6, <2>7, <3>1
  <2>8. CASE part # Len(p.reads) /\ part' = part + 1 /\ UNCHANGED <<block, pc, nretries, got, status>>
    <3>1. Len(line') <= Left(p, part + 1)
      BY <2>1, <2>2, <2>3
    <3>2. part' # 1 /\ pc' = "read"
      BY <2>1, <2>4, <2>8
    <3> QED BY <1>0, <2>8, <3>1, <3>2
  <2>9. CASE Current.mode # "loose" /\ ~Valid(Taken, Current.kinds) /\ Rejected
    <3>1. pc' # "read"
      BY <2>9 DEF Rejected, GivenUp
    <3>2. CASE part # Len(p.reads)
      <4>1. /\ Acknowledged /\ part = 1 /\ Current.mode = "exact" /\ Current.kinds = <<"ack">>
            /\ ~p.tag
        <5>1. part \in DOMAIN p.reads /\ part < Len(p.reads)
          BY <2>4, <3>2
        <5>2. \/ p.reads[part].mode \in {"loose", "scan"}
              \/ /\ Acknowledged /\ part = 1
                 /\ p.reads[part].mode = "exact" /\ p.reads[part].kinds = <<"ack">>
          BY <1>0, <5>1, WholeFacts
        <5> QED BY <1>0, <2>1, <2>9, <5>2, WholeFacts DEF Current
      <4>2. n = 1 /\ DOMAIN Taken = {1} /\ Taken[1] = line[1] /\ Current.kinds[1] = "ack"
        BY <2>1, <4>1 DEF n
      <4>3. ASSUME line[1].kind = "ack" PROVE FALSE
        <5>1. OneAnswer(Taken)
          BY <4>2 DEF OneAnswer
        <5>2. Fits(Taken[1], "ack")
          BY <4>1, <4>2, <4>3 DEF Fits
        <5> QED BY <2>9, <4>2, <5>1, <5>2 DEF Valid
      <4>4. Len(line') <= 0
        BY <2>1, <2>2, <4>1, <4>2, <4>3
      <4> QED BY <2>5, <3>1, <4>4
    <3> QED BY <2>6, <3>1, <3>2
  <2> QED BY <1>3, <2>7, <2>8, <2>9, PartsFacts
<1>4. CASE ReadScan
  <2>1. pc = "read" /\ Current.mode = "scan"
    BY <1>4 DEF ReadScan
  <2>2. CASE line = <<>>
    BY <1>4, <2>2, AttemptFacts DEF ReadScan, GivenUp
  <2>3. CASE line # <<>>
    <3>1. /\ line' = Tail(line) /\ pc' = "read"
          /\ part' = part \/ part' = part + 1
      BY <1>4, <2>1, <2>3 DEF ReadScan
    <3>2. Len(line') = Len(line) - 1 /\ Len(line) \in Nat
      BY <1>0, <2>3, <3>1
    <3>3. Len(Current.kinds) = 1
      BY <2>1, ScanFacts DEF TypeInv, Current
    <3>4. /\ Left(p, part) \in Nat /\ Left(p, part + 1) \in Nat
          /\ Left(p, part) <= 1 + Left(p, part + 1)
      BY <3>3, LeftFacts
    <3>5. Len(line) <= Left(p, part)
      BY <1>0, <2>1 DEF WholeInv
    <3>6. Len(line') <= Left(p, part')
      <4> DEFINE m == Left(p, part)
                 r == Left(p, part + 1)
      <4>1. m \in Nat /\ r \in Nat /\ m <= 1 + r /\ Len(line) <= m
        BY <3>4, <3>5
      <4> HIDE DEF m, r
      <4>2. Len(line') <= m /\ Len(line') <= r
        BY <3>2, <4>1
      <4>3. Len(line') <= Left(p, part) /\ Len(line') <= Left(p, part + 1)
        BY <4>2 DEF m, r
      <4> QED BY <3>1, <4>3
    <3>7. ~(Acknowledged /\ part' = 1)
      <4>1. part \in 1 .. Len(p.reads) /\ Len(p.reads) \in 1 .. 3
        BY CurrentFacts
      <4>2. Acknowledged => part # 1
        BY <1>0, <2>1, WholeFacts DEF Current
      <4> QED BY <3>1, <4>1, <4>2
    <3> QED BY <1>0, <3>1, <3>6, <3>7
  <2> QED BY <2>2, <2>3
<1>5. CASE Pause
  <2>1. pc = "pause" /\ pc' = "send" /\ line = <<>> /\ UNCHANGED seen
    BY <1>0, <1>5 DEF Pause, WholeInv
  <2>2. CASE p.purge = "retry"
    BY <1>5, <2>1, <2>2 DEF Pause, Purged
  <2>3. CASE "late" \in Hazards
    <3>1. late = <<>>
      BY <2>3 DEF Clean, TypeInv
    <3>2. <<>> \o <<>> = <<>>
      OBVIOUS
    <3> QED BY <1>5, <2>1, <3>1, <3>2 DEF Pause, Purged
  <2> QED BY <1>0, <2>2, <2>3, WholeFacts
<1>6. CASE Foreach \/ Cancelled
  BY <1>0, <1>6 DEF Foreach, Cancelled, Fail, wire, WholeInv
<1>7. CASE Arrive
  BY <1>0, <1>7 DEF Arrive
<1>8. CASE Cancel \/ UNCHANGED vars
  BY <1>0, <1>8 DEF Cancel, vars, wire, WholeInv
<1> QED BY <1>1, <1>2, <1>3, <1>4, <1>5, <1>6, <1>7, <1>8 DEF Next, Finished

\* The two drivers without a checksum.
LEMMA PlainFacts ==
  ASSUME p \in {cressi_edy, mares_iconhd}
  PROVE  /\ {"junk", "overdue"} \subseteq Hazards /\ p.purge = "retry" /\ p.naks = {} /\ p.fatal = {}
         /\ ~p.sum /\ p.retries = 4 /\ Len(p.reads) = 3
         /\ p = cressi_edy => p.reads[1].mode = "exact" /\ p.reads[1].kinds = <<"echo">>
         /\ p = mares_iconhd => p.reads[1].mode = "scan" /\ p.reads[1].kinds = <<"ack">>
         /\ p.reads[2].mode = "loose" /\ p.reads[2].kinds = <<"data">>
         /\ p.reads[3].mode = "exact" /\ p.reads[3].kinds = <<"tail">>
<1>1. CASE p = cressi_edy
  <2>1. /\ p.reads = <<Exact(<<"echo">>), Loose(<<"data">>), Exact(<<"tail">>)>>
        /\ ~p.sum /\ ~p.tag /\ p.purge = "retry" /\ p.naks = {} /\ p.fatal = {} /\ p.retries = 4
    BY <1>1 DEF cressi_edy
  <2>2. p # mares_iconhd
    BY <1>1 DEF cressi_edy, mares_iconhd
  <2> QED BY <2>1, <2>2 DEF Hazards, Exact, Loose
<1>2. CASE p = mares_iconhd
  <2>1. /\ p.reads = <<Scan("ack"), Loose(<<"data">>), Exact(<<"tail">>)>>
        /\ ~p.sum /\ ~p.tag /\ p.purge = "retry" /\ p.naks = {} /\ p.fatal = {} /\ p.retries = 4
    BY <1>2 DEF mares_iconhd
  <2>2. p # cressi_edy
    BY <1>2 DEF cressi_edy, mares_iconhd
  <2> QED BY <2>1, <2>2 DEF Hazards, Exact, Loose, Scan
<1> QED BY <1>1, <1>2

\* An answer of theirs has at most one part too few.
LEMMA PlainSent ==
  ASSUME TypeInv, Clean', Send, p \in {cressi_edy, mares_iconhd}
  PROVE  \E s \in Seq(Parts) :
           /\ line' = line \o s
           /\ \/ s = <<>>
              \/ /\ Len(s) = 3 /\ s[1] = Part(Kinds(p)[1], block)
                 /\ s[2] = Part("data", block) /\ s[3] = Part("tail", block)
              \/ Len(s) = 2 /\ s[1] = Part("data", block) /\ s[2] = Part("tail", block)
              \/ /\ Len(s) = 2 /\ s[1] = Part(Kinds(p)[1], block)
                 /\ s[2] \in {Part("data", block), Part("tail", block)}
<1>1. p' = p /\ Hazards' = Hazards
  BY CleanFacts DEF Next
<1>2. "junk" \notin seen' /\ "overdue" \notin seen'
  BY <1>1, PlainFacts DEF Clean
<1>3. Kept = line /\ Refusals(block) = {}
  BY PlainFacts DEF Kept, Refusals
<1>4. PICK s \in Coming : line' = line \o s /\ (s \in {<<>>, Answer(block)} \/ s \in Cuts(Answer(block)))
  BY <1>2, <1>3, SendFacts
<1> DEFINE a == Answer(block)
           k == Kinds(p)
<1>5. /\ a \in Seq(Parts) /\ Len(a) = 3 /\ a[1] = Part(k[1], block)
      /\ a[2] = Part("data", block) /\ a[3] = Part("tail", block)
  <2>1. Len(k) = 3 /\ k[2] = "data" /\ k[3] = "tail"
    BY KindsFacts DEF TypeInv
  <2>2. a \in Seq(Parts) /\ Len(a) = Len(k) /\ \A i \in 1 .. Len(k) : a[i] = Part(k[i], block)
    BY AnswerFacts
  <2> HIDE DEF a, k
  <2> QED BY <2>1, <2>2
<1>6. s \in Seq(Parts)
  BY ComingFacts
<1>7. CASE s \in Cuts(a)
  <2>1. PICK i \in DOMAIN a : s = RemoveAt(a, i)
    BY <1>7 DEF Cuts
  <2> HIDE DEF a
  <2>2. /\ Len(RemoveAt(a, i)) = Len(a) - 1
        /\ \A j \in 1 .. Len(a) - 1 : RemoveAt(a, i)[j] = IF j < i THEN a[j] ELSE a[j + 1]
    BY <1>5, CutFacts
  <2>3. Len(s) = 2 /\ s[1] = (IF 1 < i THEN a[1] ELSE a[2]) /\ s[2] = IF 2 < i THEN a[2] ELSE a[3]
    BY <1>5, <2>1, <2>2
  <2>4. i \in {1, 2, 3}
    BY <1>5
  <2>5. CASE i = 1
    <3>1. s[1] = a[2] /\ s[2] = a[3]
      BY <2>3, <2>5
    <3> QED BY <1>4, <1>5, <1>6, <2>3, <3>1
  <2>6. CASE i = 2
    <3>1. s[1] = a[1] /\ s[2] = a[3]
      BY <2>3, <2>6
    <3> QED BY <1>4, <1>5, <1>6, <2>3, <3>1
  <2>7. CASE i = 3
    <3>1. s[1] = a[1] /\ s[2] = a[2]
      BY <2>3, <2>7
    <3> QED BY <1>4, <1>5, <1>6, <2>3, <3>1
  <2> QED BY <2>4, <2>5, <2>6, <2>7
<1>8. CASE s = <<>> \/ s = a
  BY <1>4, <1>5, <1>6, <1>8
<1> QED BY <1>4, <1>7, <1>8

LEMMA BetweenStep ==
  ASSUME TransferAssumption, TypeInv, CountInv, LineInv, [Next]_vars, Clean, Clean'
  PROVE  BetweenInv'
<1> SUFFICES ASSUME p' \in {cressi_edy, mares_iconhd}, pc' = "read"
             PROVE  /\ part' = 2 => Between(line', 0, block')
                    /\ part' = 3 => Len(line') <= 1 /\ (Len(line') = 1 => data' = Part("data", block'))
  BY DEF BetweenInv
<1>0. p' = p /\ p \in {cressi_edy, mares_iconhd} /\ line \in Seq(Parts) /\ part \in {1, 2, 3}
  BY CleanFacts, CurrentFacts, PlainFacts DEF TypeInv
<1>1. CASE Send
  BY <1>1 DEF Send
<1>2. CASE ReadParts
  <2>1. /\ pc = "read" /\ Current.mode # "scan" /\ Len(Taken) = Len(Current.kinds)
        /\ Taken \in Seq(Parts) /\ \A i \in DOMAIN Taken : i \in DOMAIN line /\ Taken[i] = line[i]
        /\ line' \in Seq(Parts) /\ Len(line') = Len(line) - Len(Current.kinds)
        /\ \A i \in DOMAIN line' : /\ Len(Current.kinds) + i \in DOMAIN line
                                  /\ line'[i] = line[Len(Current.kinds) + i]
        /\ DataOf(Taken) \in Parts
    BY <1>2, PartsFacts
  <2>2. /\ Current.mode = "loose" \/ Valid(Taken, Current.kinds)
        /\ part # Len(p.reads) /\ part' = part + 1 /\ data' = DataOf(Taken)
        /\ UNCHANGED <<block, pc, nretries, got, status>>
    <3>1. ~Rejected
      BY DEF Rejected, GivenUp
    <3>2. ~Store(DataOf(Taken))
      BY <2>1, StoreFacts
    <3> QED BY <1>2, <3>1, <3>2, PartsFacts
  <2>3. CASE part = 1
    <3>1. p = cressi_edy /\ Current.kinds = <<"echo">> /\ Current.mode = "exact"
      BY <1>0, <2>1, <2>3, PlainFacts DEF Current
    <3>2. Len(Taken) = 1 /\ 1 \in DOMAIN Taken /\ Current.kinds[1] = "echo"
      BY <2>1, <3>1
    <3>3. line[1].kind = "echo" /\ Len(line) > 0
      <4>1. Fits(Taken[1], "echo")
        BY <2>2, <3>1, <3>2 DEF Valid
      <4> QED BY <1>0, <2>1, <3>2, <4>1 DEF Fits
    <3>4. Between(line, 1, block)
      BY <2>1, <2>3, <3>1, <3>3 DEF LineInv, EdyInv
    <3>5. Len(line') = Len(line) - 1 /\ \A i \in DOMAIN line' : line'[i] = line[1 + i]
      BY <2>1, <3>2
    <3>6. Between(line', 0, block)
      BY <1>0, <2>1, <3>4, <3>5 DEF Between
    <3> QED BY <2>2, <2>3, <3>6
  <2>4. CASE part = 2
    <3>1. Current.kinds = <<"data">>
      BY <1>0, <2>4, PlainFacts DEF Current
    <3>2. DOMAIN Taken = {1} /\ Taken[1] = line[1] /\ Current.kinds[1] = "data" /\ Len(line') = Len(line) - 1
      BY <2>1, <3>1
    <3>3. data' = line[1]
      BY <2>2, <3>2, DataFacts
    <3>4. Between(line, 0, block)
      BY <1>0, <2>1, <2>4 DEF LineInv, BetweenInv
    <3>5. Len(line') <= 1 /\ (Len(line') = 1 => data' = Part("data", block))
      BY <1>0, <3>2, <3>3, <3>4 DEF Between
    <3> QED BY <2>2, <2>4, <3>5
  <2>5. part # 3
    BY <1>0, <2>2, PlainFacts
  <2> QED BY <1>0, <2>3, <2>4, <2>5
<1>3. CASE ReadScan
  <2>1. pc = "read" /\ Current.mode = "scan" /\ block' = block
    BY <1>3 DEF ReadScan
  <2>2. part = 1 /\ p = mares_iconhd /\ Current.kinds[1] = "ack"
    BY <1>0, <2>1, PlainFacts DEF Current
  <2>3. line # <<>> /\ line' = Tail(line)
    BY <1>3, AttemptFacts DEF ReadScan, GivenUp
  <2>4. part' = IF line[1].kind = "ack" THEN 2 ELSE 1
    BY <1>0, <1>3, <2>2, <2>3 DEF ReadScan
  <2>5. 1 \in DOMAIN line /\ Len(line') = Len(line) - 1 /\ line' \in Seq(Parts)
        /\ \A i \in DOMAIN line' : line'[i] = line[i + 1]
    BY <1>0, <2>3
  <2>6. ASSUME part' = 2 PROVE Between(line', 0, block)
    <3>1. Between(line, 1, block)
      BY <2>1, <2>2, <2>4, <2>5, <2>6 DEF LineInv, IconhdInv
    <3> QED BY <1>0, <2>5, <3>1 DEF Between
  <2> QED BY <2>1, <2>4, <2>6
<1>4. CASE ReadShort
  BY <1>4, AttemptFacts DEF ReadShort, GivenUp
<1>5. CASE Foreach \/ Cancelled \/ Pause
  BY <1>5 DEF Foreach, Cancelled, Pause, Fail
<1>6. CASE Arrive
  BY <1>6 DEF Arrive
<1>7. CASE Cancel \/ UNCHANGED vars
  BY <1>0, <1>7 DEF Cancel, vars, wire, LineInv, BetweenInv
<1> QED BY <1>1, <1>2, <1>3, <1>4, <1>5, <1>6, <1>7 DEF Next, Finished

\* The Edy can leave the end of an answer behind, but only when it gives up.
LEMMA EdyStep ==
  ASSUME TransferAssumption, TypeInv, CountInv, LineInv, [Next]_vars, Clean, Clean'
  PROVE  EdyInv'
<1> SUFFICES ASSUME p' = cressi_edy
             PROVE  /\ pc' = "read" /\ part' = 1 /\ Len(line') > 0 =>
                         IF line'[1].kind = "echo"
                           THEN line'[1].of = block' /\ Between(line', 1, block')
                           ELSE nretries' = 0 \/ Stale(line', 1)
                    /\ pc' \in {"send", "idle"} => Stale(line', 0)
                    /\ pc' = "send" => Len(line') = 0 \/ nretries' = 0
  BY DEF EdyInv
<1>0. /\ p' = p /\ p = cressi_edy /\ line \in Seq(Parts) /\ part \in {1, 2, 3}
      /\ "overdue" \notin seen' /\ EdyInv
  BY CleanFacts, CurrentFacts, PlainFacts DEF TypeInv, Clean, LineInv
<1>1. CASE Send
  <2>1. PICK s \in Seq(Parts) :
           /\ line' = line \o s
           /\ \/ s = <<>>
              \/ /\ Len(s) = 3 /\ s[1] = Part(Kinds(p)[1], block)
                 /\ s[2] = Part("data", block) /\ s[3] = Part("tail", block)
              \/ Len(s) = 2 /\ s[1] = Part("data", block) /\ s[2] = Part("tail", block)
              \/ /\ Len(s) = 2 /\ s[1] = Part(Kinds(p)[1], block)
                 /\ s[2] \in {Part("data", block), Part("tail", block)}
    BY <1>0, <1>1, PlainSent
  <2>2. pc = "send" /\ pc' = "read" /\ block' = block /\ nretries' = nretries
    BY <1>1 DEF Send
  <2>3. Stale(line, 0) /\ (Len(line) = 0 \/ nretries = 0)
    BY <1>0, <2>2 DEF EdyInv
  <2>4. Kinds(p)[1] = "echo"
    BY <1>0, KindsFacts DEF TypeInv
  <2>5. CASE Len(line) = 0
    <3>1. line' = s
      BY <1>0, <2>1, <2>5
    <3>2. /\ Part("echo", block).kind = "echo" /\ Part("echo", block).of = block
          /\ Part("data", block).kind = "data" /\ Part("tail", block).kind = "tail"
      BY DEF Part
    <3>3. CASE s = <<>>
      BY <2>2, <3>1, <3>3
    <3>4. CASE Len(s) = 3 /\ s[1] = Part("echo", block) /\ s[2] = Part("data", block)
      BY <2>2, <3>1, <3>2, <3>4 DEF Between
    <3>5. CASE Len(s) = 2 /\ s[1] = Part("data", block) /\ s[2] = Part("tail", block)
      BY <2>2, <3>1, <3>2, <3>5 DEF Stale
    <3>6. CASE Len(s) = 2 /\ s[1] = Part("echo", block)
      BY <2>2, <3>1, <3>2, <3>6 DEF Between
    <3> QED BY <2>1, <2>4, <3>3, <3>4, <3>5, <3>6
  <2>6. CASE Len(line) # 0
    <3>1. Len(line) = 1 /\ line[1].kind = "tail" /\ nretries = 0
      BY <1>0, <2>3, <2>6 DEF Stale
    <3>2. line'[1] = line[1]
      <4>1. line \in Seq(Parts) /\ s \in Seq(Parts) /\ line' = line \o s /\ 1 \in 1 .. Len(line)
        BY <1>0, <2>1, <3>1
      <4> QED BY <4>1, ConcatProperties
    <3> QED BY <2>2, <3>1, <3>2
  <2> QED BY <2>5, <2>6
<1>2. CASE ReadShort
  <2>1. line' = <<>> /\ pc' # "read" /\ pc' # "send"
    BY <1>2, AttemptFacts DEF ReadShort, GivenUp
  <2> QED BY <2>1 DEF Stale
<1>3. CASE ReadParts
  <2>1. /\ pc = "read" /\ Current.mode # "scan" /\ Len(Taken) = Len(Current.kinds)
        /\ Taken \in Seq(Parts) /\ \A i \in DOMAIN Taken : i \in DOMAIN line /\ Taken[i] = line[i]
        /\ line' \in Seq(Parts) /\ Len(line') = Len(line) - Len(Current.kinds)
        /\ \A i \in DOMAIN line' : /\ Len(Current.kinds) + i \in DOMAIN line
                                  /\ line'[i] = line[Len(Current.kinds) + i]
        /\ DataOf(Taken) \in Parts
    BY <1>3, PartsFacts
  <2>2. CASE part = Len(p.reads)
    <3>1. part = 3 /\ Current.kinds = <<"tail">>
      BY <1>0, <2>2, PlainFacts DEF Current
    <3>2. Len(line) <= 1 /\ Len(Current.kinds) = 1
      BY <1>0, <2>1, <3>1 DEF LineInv, BetweenInv
    <3>3. Len(line') = 0
      BY <1>0, <2>1, <3>2
    <3>4. pc' # "read"
      <4>1. Store(DataOf(Taken)) => pc' # "read"
        BY <2>1, StoreFacts
      <4>2. Rejected => pc' # "read"
        BY DEF Rejected, GivenUp
      <4> QED BY <1>3, <2>2, <4>1, <4>2, PartsFacts
    <3> QED BY <3>3, <3>4 DEF Stale
  <2>3. CASE part # Len(p.reads) /\ part' = part + 1 /\ UNCHANGED <<block, pc, nretries, got, status>>
    BY <1>0, <2>1, <2>3
  <2>4. CASE part # Len(p.reads) /\ Current.mode # "loose" /\ ~Valid(Taken, Current.kinds) /\ Rejected
    <3>1. part = 1 /\ Current.kinds = <<"echo">> /\ Current.mode = "exact" /\ ~p.sum /\ p.fatal = {} /\ p.retries = 4
      BY <1>0, <2>1, <2>4, PlainFacts DEF Current
    <3>2. DOMAIN Taken = {1} /\ Current.kinds[1] = "echo" /\ Taken[1] = line[1] /\ 1 \in DOMAIN line
      BY <2>1, <3>1
    <3>3. Len(line) > 0
      BY <1>0, <3>2
    <3>4. line[1].kind # "echo"
      <4>1. ASSUME line[1].kind = "echo" PROVE FALSE
        <5>1. line[1].of = block
          BY <1>0, <2>1, <3>1, <3>3, <4>1 DEF EdyInv
        <5>2. Fits(Taken[1], Current.kinds[1]) /\ OneAnswer(Taken)
          BY <3>1, <3>2, <4>1, <5>1 DEF Fits, OneAnswer
        <5> QED BY <2>4, <3>2, <5>2 DEF Valid
      <4> QED BY <4>1
    <3>5. CASE pc' = "pause"
      BY <3>5
    <3>6. CASE pc' # "pause"
      <4>1. pc' = "idle" /\ ~(nretries < 4)
        BY <2>4, <3>1, <3>6 DEF Rejected, GivenUp
      <4>2. Stale(line, 1)
        BY <1>0, <2>1, <3>1, <3>3, <3>4, <4>1 DEF EdyInv
      <4>3. Len(line') = Len(line) - 1 /\ \A i \in DOMAIN line' : line'[i] = line[1 + i]
        BY <2>1, <3>1
      <4>4. Stale(line', 0)
        BY <1>0, <2>1, <3>3, <4>2, <4>3 DEF Stale
      <4> QED BY <4>1, <4>4
    <3> QED BY <3>5, <3>6
  <2> QED BY <1>3, <2>2, <2>3, <2>4, PartsFacts
<1>4. CASE ReadScan
  <2>1. FALSE
    BY <1>0, <1>4, PlainFacts DEF ReadScan, Current
  <2> QED BY <2>1
<1>5. CASE Pause
  <2>1. line' = <<>> /\ pc' = "send"
    BY <1>0, <1>5, PlainFacts DEF Pause, Purged
  <2> QED BY <2>1 DEF Stale
<1>6. CASE Foreach \/ Cancelled
  BY <1>0, <1>6 DEF Foreach, Cancelled, Fail, wire, EdyInv
<1>7. CASE Arrive
  BY <1>0, <1>7 DEF Arrive
<1>8. CASE Cancel \/ UNCHANGED vars
  BY <1>0, <1>8 DEF Cancel, vars, wire, EdyInv
<1> QED BY <1>1, <1>2, <1>3, <1>4, <1>5, <1>6, <1>7, <1>8 DEF Next, Finished

\* The Icon HD looks for the acknowledgement, and reads what follows it.
LEMMA IconhdStep ==
  ASSUME TransferAssumption, TypeInv, CountInv, LineInv, [Next]_vars, Clean, Clean'
  PROVE  IconhdInv'
<1> SUFFICES ASSUME p' = mares_iconhd
             PROVE  /\ pc' = "read" /\ part' = 1 =>
                         \A i \in DOMAIN line' : line'[i].kind = "ack" => i = 1 /\ Between(line', 1, block')
                    /\ pc' # "read" => Len(line') = 0
  BY DEF IconhdInv
<1>0. /\ p' = p /\ p = mares_iconhd /\ line \in Seq(Parts) /\ part \in {1, 2, 3}
      /\ "overdue" \notin seen' /\ IconhdInv
  BY CleanFacts, CurrentFacts, PlainFacts DEF TypeInv, Clean, LineInv
<1>1. CASE Send
  <2>1. PICK s \in Seq(Parts) :
           /\ line' = line \o s
           /\ \/ s = <<>>
              \/ /\ Len(s) = 3 /\ s[1] = Part(Kinds(p)[1], block)
                 /\ s[2] = Part("data", block) /\ s[3] = Part("tail", block)
              \/ Len(s) = 2 /\ s[1] = Part("data", block) /\ s[2] = Part("tail", block)
              \/ /\ Len(s) = 2 /\ s[1] = Part(Kinds(p)[1], block)
                 /\ s[2] \in {Part("data", block), Part("tail", block)}
    BY <1>0, <1>1, PlainSent
  <2>2. pc = "send" /\ pc' = "read" /\ block' = block /\ Len(line) = 0
    BY <1>0, <1>1 DEF Send, IconhdInv
  <2>3. line' = s
    BY <1>0, <2>1, <2>2
  <2>4. Part("data", block).kind = "data" /\ Part("tail", block).kind = "tail"
    BY DEF Part
  <2>5. CASE s = <<>>
    BY <2>2, <2>3, <2>5
  <2>6. CASE Len(s) = 3 /\ s[2] = Part("data", block) /\ s[3] = Part("tail", block)
    BY <2>1, <2>2, <2>3, <2>4, <2>6 DEF Between
  <2>7. CASE Len(s) = 2 /\ s[2] \in {Part("data", block), Part("tail", block)}
    BY <2>1, <2>2, <2>3, <2>4, <2>7 DEF Between
  <2> QED BY <2>1, <2>5, <2>6, <2>7
<1>2. CASE ReadShort
  <2>1. line' = <<>> /\ pc' # "read"
    BY <1>2, AttemptFacts DEF ReadShort, GivenUp
  <2> QED BY <2>1
<1>3. CASE ReadParts
  <2>1. /\ pc = "read" /\ Current.mode # "scan"
        /\ line' \in Seq(Parts) /\ Len(line') = Len(line) - Len(Current.kinds)
        /\ DataOf(Taken) \in Parts
    BY <1>3, PartsFacts
  <2>2. CASE part = Len(p.reads)
    <3>1. part = 3 /\ Current.kinds = <<"tail">>
      BY <1>0, <2>2, PlainFacts DEF Current
    <3>2. Len(line) <= 1 /\ Len(Current.kinds) = 1
      BY <1>0, <2>1, <3>1 DEF LineInv, BetweenInv
    <3>3. Len(line') = 0
      BY <1>0, <2>1, <3>2
    <3>4. pc' # "read"
      <4>1. Store(DataOf(Taken)) => pc' # "read"
        BY <2>1, StoreFacts
      <4>2. Rejected => pc' # "read"
        BY DEF Rejected, GivenUp
      <4> QED BY <1>3, <2>2, <4>1, <4>2, PartsFacts
    <3> QED BY <3>3, <3>4
  <2>3. CASE part # Len(p.reads)
    <3>1. part = 2 /\ Current.mode = "loose"
      BY <1>0, <2>1, <2>3, PlainFacts DEF Current
    <3>2. part' = 3 /\ pc' = "read"
      BY <1>3, <2>1, <2>3, <3>1, PartsFacts
    <3> QED BY <3>2
  <2> QED BY <2>2, <2>3
<1>4. CASE ReadScan
  <2>1. pc = "read" /\ Current.mode = "scan" /\ block' = block
    BY <1>4 DEF ReadScan
  <2>2. part = 1
    BY <1>0, <2>1, PlainFacts DEF Current
  <2>3. CASE line = <<>>
    BY <1>4, <2>3, AttemptFacts DEF ReadScan, GivenUp
  <2>4. CASE line # <<>>
    <3>1. line' = Tail(line) /\ pc' = "read"
      BY <1>4, <2>1, <2>4 DEF ReadScan
    <3>2. \A i \in DOMAIN line' : i \in Nat \ {0} /\ i + 1 \in DOMAIN line /\ line'[i] = line[i + 1]
      BY <1>0, <2>4, <3>1
    <3>3. \A i \in DOMAIN line' : line'[i].kind # "ack"
      BY <1>0, <2>1, <2>2, <3>2 DEF IconhdInv
    <3> QED BY <3>1, <3>3
  <2> QED BY <2>3, <2>4
<1>5. CASE Pause
  <2>1. line' = <<>> /\ pc' = "send"
    BY <1>0, <1>5, PlainFacts DEF Pause, Purged
  <2> QED BY <2>1
<1>6. CASE Foreach \/ Cancelled
  BY <1>0, <1>6 DEF Foreach, Cancelled, Fail, wire, IconhdInv
<1>7. CASE Arrive
  BY <1>0, <1>7 DEF Arrive
<1>8. CASE Cancel \/ UNCHANGED vars
  BY <1>0, <1>8 DEF Cancel, vars, wire, IconhdInv
<1> QED BY <1>1, <1>2, <1>3, <1>4, <1>5, <1>6, <1>7, <1>8 DEF Next, Finished

-----------------------------------------------------------------------------
(* The blocks *)

\* With a checksum the last read of an answer has the data in it, and accepts
\* nothing else.
HasData(r) == r.mode # "loose" /\ \E i \in 1 .. Len(r.kinds) : r.kinds[i] = "data"

LEMMA LastFacts ==
  ASSUME p \in Whole \cup {oceanic_veo250} \cup Tagged
  PROVE  HasData(p.reads[Len(p.reads)]) /\ (p \in Tagged => p.tag)
<1>1. HasData(Packet)
  <2>1. Packet.mode # "loose" /\ 2 \in 1 .. Len(Packet.kinds) /\ Packet.kinds[2] = "data"
    BY DEF Packet, Exact
  <2> QED BY <2>1 DEF HasData
<1>2. HasData(Final(<<"data", "sum">>)) /\ HasData(Exact(<<"data">>))
  <2>1. 1 \in 1 .. Len(<<"data", "sum">>) /\ 1 \in 1 .. Len(<<"data">>)
    OBVIOUS
  <2>2. <<"data", "sum">>[1] = "data" /\ <<"data">>[1] = "data"
    OBVIOUS
  <2> QED BY <2>1, <2>2 DEF HasData, Final, Exact
<1>3. HasData(Exact(<<"ack", "data", "sum">>))
  <2>1. 2 \in 1 .. Len(<<"ack", "data", "sum">>) /\ <<"ack", "data", "sum">>[2] = "data"
    OBVIOUS
  <2> QED BY <2>1 DEF HasData, Exact
<1>4. p \in Tagged => p.tag
  BY DEF Tagged, suunto_d9, suunto_vyper2
<1>5. CASE p = mares_common
  <2>1. p.reads[Len(p.reads)] = Packet
    BY <1>5 DEF mares_common
  <2> QED BY <1>1, <1>2, <1>3, <1>4, <2>1
<1>6. CASE p = cressi_leonardo
  <2>1. p.reads[Len(p.reads)] = Packet
    BY <1>6 DEF cressi_leonardo
  <2> QED BY <1>1, <1>2, <1>3, <1>4, <2>1
<1>7. CASE p = liquivision_lynx
  <2>1. p.reads[Len(p.reads)] = Packet
    BY <1>7 DEF liquivision_lynx
  <2> QED BY <1>1, <1>2, <1>3, <1>4, <2>1
<1>8. CASE p = sporasub_sp2
  <2>1. p.reads[Len(p.reads)] = Packet
    BY <1>8 DEF sporasub_sp2
  <2> QED BY <1>1, <1>2, <1>3, <1>4, <2>1
<1>9. CASE p = suunto_d9
  <2>1. p.reads[Len(p.reads)] = Packet
    BY <1>9 DEF suunto_d9
  <2> QED BY <1>1, <1>2, <1>3, <1>4, <2>1
<1>10. CASE p = suunto_vyper2
  <2>1. p.reads[Len(p.reads)] = Packet
    BY <1>10 DEF suunto_vyper2
  <2> QED BY <1>1, <1>2, <1>3, <1>4, <2>1
<1>11. CASE p = oceanic_vtpro
  <2>1. p.reads[Len(p.reads)] = Final(<<"data", "sum">>)
    BY <1>11 DEF oceanic_vtpro
  <2> QED BY <1>1, <1>2, <1>3, <1>4, <2>1
<1>12. CASE p = oceanic_veo250
  <2>1. p.reads[Len(p.reads)] = Final(<<"data", "sum">>)
    BY <1>12 DEF oceanic_veo250
  <2> QED BY <1>1, <1>2, <1>3, <1>4, <2>1
<1>13. CASE p = oceanic_atom2
  <2>1. p.reads[Len(p.reads)] = Exact(<<"ack", "data", "sum">>)
    BY <1>13 DEF oceanic_atom2
  <2> QED BY <1>1, <1>2, <1>3, <1>4, <2>1
<1>14. CASE p = divesystem_idive
  <2>1. p.reads[Len(p.reads)] = Exact(<<"data">>)
    BY <1>14 DEF divesystem_idive
  <2> QED BY <1>1, <1>2, <1>3, <1>4, <2>1
<1>15. CASE p = seac_screen
  <2>1. p.reads[Len(p.reads)] = Exact(<<"data">>)
    BY <1>15 DEF seac_screen
  <2> QED BY <1>1, <1>2, <1>3, <1>4, <2>1
<1> QED BY <1>5, <1>6, <1>7, <1>8, <1>9, <1>10, <1>11, <1>12, <1>13, <1>14, <1>15 DEF Whole, Tagged

\* What is stored is the data of the block that was asked for.
LEMMA StoredFacts ==
  ASSUME TypeInv, LineInv, Clean, ReadParts, part = Len(p.reads),
         Current.mode = "loose" \/ Valid(Taken, Current.kinds)
  PROVE  DataOf(Taken).kind = "data" /\ DataOf(Taken).of = block
<1>1. /\ pc = "read" /\ Taken \in Seq(Parts) /\ Len(Taken) = Len(Current.kinds)
      /\ \A i \in DOMAIN Taken : i \in DOMAIN line /\ Taken[i] = line[i]
  BY PartsFacts
<1>2. CASE p \in Whole \cup {oceanic_veo250} \cup Tagged
  <2>1. Valid(Taken, Current.kinds) /\ \E i \in DOMAIN Taken : Current.kinds[i] = "data"
    BY <1>1, <1>2, LastFacts DEF Current, HasData
  <2>2. PICK i \in DOMAIN Taken : Current.kinds[i] = "data" /\ DataOf(Taken) = Taken[i]
    BY <2>1, DataFacts
  <2>3. Fits(Taken[i], "data")
    BY <2>1, <2>2 DEF Valid
  <2>4. DataOf(Taken).kind = "data" /\ (p.tag => DataOf(Taken).of = block)
    BY <2>2, <2>3 DEF Fits
  <2>5. CASE p \in Tagged
    BY <1>2, <2>4, <2>5, LastFacts
  <2>6. CASE p \notin Tagged
    <3>1. Fresh(line, block)
      BY <1>1, <1>2, <2>6 DEF LineInv, FreshInv
    <3> QED BY <1>1, <2>2, <2>4, <3>1 DEF Fresh
  <2> QED BY <2>5, <2>6
<1>3. CASE p \in {cressi_edy, mares_iconhd}
  <2>1. part = 3 /\ Current.kinds = <<"tail">>
    BY <1>3, PlainFacts DEF Current
  <2>2. DOMAIN Taken = {1} /\ Current.kinds[1] = "tail" /\ 1 \in DOMAIN line
    BY <1>1, <2>1
  <2>3. DataOf(Taken) = data
    BY <2>2, DataFacts
  <2>4. Len(line) <= 1 /\ (Len(line) = 1 => data = Part("data", block))
    BY <1>1, <1>3, <2>1 DEF LineInv, BetweenInv
  <2>5. Len(line) = 1
    <3>1. line \in Seq(Parts)
      BY DEF TypeInv
    <3>2. Len(line) \in Nat /\ 1 \in 1 .. Len(line)
      BY <2>2, <3>1
    <3> DEFINE n == Len(line)
    <3>3. n \in Nat /\ 1 \in 1 .. n /\ n <= 1
      BY <2>4, <3>2
    <3> HIDE DEF n
    <3>4. n = 1
      BY <3>3
    <3> QED BY <3>4 DEF n
  <2> QED BY <2>3, <2>4, <2>5 DEF Part
<1> QED BY <1>2, <1>3 DEF TypeInv, Protocols, Whole, Tagged

LEMMA GotStep ==
  ASSUME TransferAssumption, TypeInv, CountInv, LineInv, GotInv, [Next]_vars, Clean, Clean'
  PROVE  \A k \in DOMAIN got' : got'[k] = k
<1>0. \A k \in DOMAIN got : got[k] = k
  BY DEF GotInv
<1>1. CASE ReadParts
  <2>1. pc = "read" /\ DataOf(Taken) \in Parts
    BY <1>1, PartsFacts
  <2>2. CASE /\ Current.mode = "loose" \/ Valid(Taken, Current.kinds)
             /\ part = Len(p.reads) /\ Store(DataOf(Taken))
    <3>1. /\ got' \in Seq(Nat) /\ Len(got') = block /\ Len(got) = block - 1
          /\ \A k \in 1 .. block - 1 : got'[k] = got[k]
          /\ got'[block] = IF DataOf(Taken).kind = "data" THEN DataOf(Taken).of ELSE 0
      BY <2>1, <2>2, StoreFacts
    <3>2. got'[block] = block
      BY <1>1, <2>2, <3>1, StoredFacts
    <3>3. got \in Seq(Nat) /\ block \in Nat
      BY DEF TypeInv
    <3>4. ASSUME NEW k \in DOMAIN got' PROVE got'[k] = k
      <4>1. CASE k = block
        BY <3>2, <4>1
      <4>2. CASE k # block
        <5>1. k \in 1 .. block - 1 /\ k \in DOMAIN got
          BY <3>1, <3>3, <4>2
        <5> QED BY <1>0, <3>1, <5>1
      <4> QED BY <4>1, <4>2
    <3> QED BY <3>4
  <2>3. CASE UNCHANGED got
    BY <1>0, <2>3
  <2> QED BY <1>1, <2>2, <2>3, PartsFacts
<1>2. CASE Foreach
  BY <1>2 DEF Foreach
<1>3. CASE ReadShort \/ ReadScan \/ Send
  BY <1>0, <1>3 DEF ReadShort, ReadScan, Send
<1>4. CASE Cancel \/ Cancelled \/ Pause \/ Arrive \/ UNCHANGED vars
  BY <1>0, <1>4 DEF Cancel, Cancelled, Pause, Arrive, vars
<1> QED BY <1>1, <1>2, <1>3, <1>4 DEF Next, Finished

LEMMA InitInv == ASSUME TransferAssumption, Init PROVE IInv
<1>1. /\ <<>> \in Seq(Parts) /\ <<>> \in Seq(Nat) /\ Len(<<>>) = 0 /\ Nothing \in Parts
  BY EmptySeq DEF Nothing, Part, Parts, Names
<1>2. p \in Protocols
  BY DEF Init
<1>3. 1 \in DOMAIN p.reads /\ 0 \in 0 .. p.retries /\ 1 \in 1 .. NBlocks
  BY <1>2, DriverFacts DEF TransferAssumption
<1>4. cancelled \in BOOLEAN
  BY Zenon DEF Init
<1>5. TypeInv
  BY <1>1, <1>2, <1>3, <1>4 DEF Init, TypeInv, Statuses
<1>6. CountInv /\ GotInv
  BY DEF Init, CountInv, GotInv
<1>7. LineInv
  BY <1>1 DEF Init, LineInv, FreshInv, WholeInv, BetweenInv, EdyInv, IconhdInv, Stale
<1> QED BY <1>5, <1>6, <1>7 DEF IInv

LEMMA NextInv == ASSUME TransferAssumption, IInv, [Next]_vars PROVE IInv'
<1>1. TypeInv' /\ CountInv'
  BY TypeStep DEF IInv
<1>2. ASSUME Clean' PROVE Clean
  BY <1>2, CleanFacts DEF IInv
<1>3. LineInv'
  BY <1>2, FreshStep, WholeStep, BetweenStep, EdyStep, IconhdStep DEF IInv, LineInv
<1>4. GotInv'
  BY <1>2, GotStep DEF IInv, GotInv
<1> QED BY <1>1, <1>3, <1>4 DEF IInv

\* The invariant of the transfers.
THEOREM Invariance == ASSUME TransferAssumption PROVE Spec => []IInv
<1>1. Init => IInv
  BY InitInv
<1>2. IInv /\ [Next]_vars => IInv'
  BY NextInv
<1> QED BY <1>1, <1>2, PTL DEF Spec

\* The retries stay within MAXRETRIES, no read goes beyond those of the driver,
\* and a download that succeeds has stored every block.
THEOREM TypeCorrect == ASSUME TransferAssumption PROVE Spec => []TypeOK
<1>1. IInv => TypeOK
  BY DEF IInv, TypeInv, CountInv, TypeOK, Statuses
<1> QED BY <1>1, Invariance, PTL

\* Whatever is lost, cut, damaged, refused or late in the ways the protocol of
\* a driver covers, however often and over however many downloads of a session:
\* xxx_transfer never stores the answer to another command.
THEOREM BlocksIntact == ASSUME TransferAssumption PROVE Spec => []DataIntact
<1>1. IInv => DataIntact
  BY DEF IInv, GotInv, Clean, DataIntact
<1> QED BY <1>1, Invariance, PTL

-----------------------------------------------------------------------------
(* The retries *)

\* What is left of an answer from the read k on, and a line that has just that
\* of the block b.
Rest(d, k)        == KindsOf(d, k) \o KindsOf(d, k + 1) \o KindsOf(d, k + 2)
Rests(l, d, k, b) == Len(l) = Left(d, k) /\ \A i \in 1 .. Left(d, k) : l[i] = Part(Rest(d, k)[i], b)

\* The drivers that have to stay in step; and those that get into step again
\* or have read all of an answer when they reject it.
Lockstep == {oceanic_vtpro, oceanic_veo250, suunto_d9}
Free     == {mares_common, cressi_edy, cressi_leonardo, oceanic_atom2, seac_screen,
             liquivision_lynx, mares_iconhd, sporasub_sp2, suunto_vyper2}

\* No more went wrong than the driver can cope with.
Within == faults <= p.retries /\ seen \subseteq Tolerated

\* Every retry was made because of a fault, and this attempt will succeed
\* unless there was another one.
CreditInv ==
  /\ status \in {"none", "SUCCESS", "CANCELLED"}
  /\ pc # "idle" => nretries <= faults
  /\ pc = "read" => nretries < faults \/ Rests(line, p, part, block)

LockstepInv ==
  pc = "read" =>
    \/ Rests(line, p, part, block)
    \/ part = 1 /\ (Len(line) = 0 \/ (Len(line) = 1 /\ line[1].kind = "nak"))

FreeInv ==
  pc = "read" =>
    /\ Len(line) <= Left(p, part)
    /\ \A i \in DOMAIN line : line[i].kind \notin p.fatal

EmptyInv ==
  /\ pc \in {"send", "idle"} => p.purge = "send" \/ line = <<>>
  /\ pc = "pause" => p.purge # "none" \/ line = <<>>

-----------------------------------------------------------------------------
LEMMA RestFacts ==
  ASSUME TypeInv
  PROVE  /\ Rest(p, 1) = Kinds(p) /\ Left(p, part) \in Nat
         /\ Len(Current.kinds) \in 1 .. 3
         /\ \A i \in 1 .. Len(Current.kinds) : Rest(p, part)[i] = Current.kinds[i]
         /\ Left(p, part + 1) \in Nat /\ Left(p, part) = Len(Current.kinds) + Left(p, part + 1)
         /\ \A i \in 1 .. Left(p, part + 1) : Rest(p, part + 1)[i] = Rest(p, part)[Len(Current.kinds) + i]
<1> DEFINE a == KindsOf(p, part)
           b == KindsOf(p, part + 1)
           c == KindsOf(p, part + 2)
           d == KindsOf(p, part + 3)
<1>1. part \in 1 .. Len(p.reads) /\ Len(p.reads) \in 1 .. 3 /\ DOMAIN p.reads = 1 .. Len(p.reads)
      /\ KindsOf(p, part) = Current.kinds /\ Readable(Current)
  BY CurrentFacts
<1>2. part \in Nat /\ part + 1 \in Nat /\ part + 2 \in Nat /\ part + 3 \in Nat
      /\ (part + 1) + 1 = part + 2 /\ (part + 1) + 2 = part + 3 /\ part + 3 \notin DOMAIN p.reads
  <2> DEFINE n == Len(p.reads)
  <2>1. part \in 1 .. n /\ n \in 1 .. 3 /\ DOMAIN p.reads = 1 .. n
    BY <1>1
  <2> HIDE DEF n
  <2>2. part + 3 \notin 1 .. n
    BY <2>1
  <2> QED BY <2>1, <2>2
<1>3. a \in Seq(Names) /\ b \in Seq(Names) /\ c \in Seq(Names)
  BY <1>2, KindsFacts DEF TypeInv
<1>4. d = <<>> /\ d \in Seq(Names) /\ Len(d) = 0
  <2>1. d = <<>>
    BY <1>2, Zenon DEF KindsOf
  <2> QED BY <2>1, EmptySeq
<1>5. a = Current.kinds /\ Len(a) \in 1 .. 3
  BY <1>1 DEF Readable
<1>6. Rest(p, 1) = Kinds(p)
  <2>1. 1 + 1 = 2 /\ 1 + 2 = 3
    OBVIOUS
  <2> QED BY <2>1, Zenon DEF Rest, Kinds
<1>7. Rest(p, part) = a \o b \o c /\ Left(p, part) = Len(a) + Len(b) + Len(c)
  BY DEF Rest, Left
<1>8. Rest(p, part + 1) = b \o c \o d /\ Left(p, part + 1) = Len(b) + Len(c) + Len(d)
  BY <1>2 DEF Rest, Left
<1> HIDE DEF a, b, c, d, Rest, Left
<1>9. /\ a \o b \in Seq(Names) /\ Len(a \o b) = Len(a) + Len(b)
      /\ \A i \in 1 .. Len(a) + Len(b) : (a \o b)[i] = IF i <= Len(a) THEN a[i] ELSE b[i - Len(a)]
      /\ b \o c \in Seq(Names) /\ Len(b \o c) = Len(b) + Len(c)
      /\ \A i \in 1 .. Len(b) + Len(c) : (b \o c)[i] = IF i <= Len(b) THEN b[i] ELSE c[i - Len(b)]
  BY <1>3, ConcatProperties
<1>10. /\ \A i \in 1 .. Len(a \o b) + Len(c) :
            (a \o b \o c)[i] = IF i <= Len(a \o b) THEN (a \o b)[i] ELSE c[i - Len(a \o b)]
       /\ \A i \in 1 .. Len(b \o c) + Len(d) :
            (b \o c \o d)[i] = IF i <= Len(b \o c) THEN (b \o c)[i] ELSE d[i - Len(b \o c)]
  BY <1>3, <1>4, <1>9, ConcatProperties
<1>11. Len(a) \in Nat /\ Len(b) \in Nat /\ Len(c) \in Nat
  BY <1>3
<1> DEFINE x == Len(a)
           y == Len(b)
           z == Len(c)
           ab == a \o b
           bc == b \o c
           abc == a \o b \o c
           bcd == b \o c \o d
<1>12. /\ x \in Nat /\ y \in Nat /\ z \in Nat
       /\ \A i \in 1 .. x + y : ab[i] = IF i <= x THEN a[i] ELSE b[i - x]
       /\ \A i \in 1 .. y + z : bc[i] = IF i <= y THEN b[i] ELSE c[i - y]
       /\ \A i \in 1 .. x + y + z : abc[i] = IF i <= x + y THEN ab[i] ELSE c[i - (x + y)]
       /\ \A i \in 1 .. y + z : bcd[i] = bc[i]
  <2>1. Len(ab) = x + y /\ Len(bc) = y + z /\ Len(d) = 0 /\ (y + z) + 0 = y + z
    BY <1>4, <1>9, <1>11
  <2>2. \A i \in 1 .. y + z : i <= y + z
    BY <1>11
  <2> HIDE DEF x, y, z
  <2> QED BY <1>9, <1>10, <1>11, <2>1, <2>2 DEF x, y, z
<1> HIDE DEF x, y, z, ab, bc, abc, bcd
<1>13. \A i \in 1 .. x : abc[i] = a[i]
  BY <1>12
<1>14. \A i \in 1 .. y + z : bcd[i] = abc[x + i]
  <2> SUFFICES ASSUME NEW i \in 1 .. y + z PROVE bcd[i] = abc[x + i]
    OBVIOUS
  <2>1. x + i \in 1 .. x + y + z /\ ~(x + i <= x) /\ (x + i) - x = i /\ (x + i) - (x + y) = i - y
        /\ (x + i <= x + y <=> i <= y) /\ (i <= y => x + i \in 1 .. x + y)
    BY <1>12
  <2> QED BY <1>12, <2>1
<1>15. x + y + z = x + (y + z) /\ y + z \in Nat /\ x + y + z \in Nat /\ y + z + 0 = y + z
  BY <1>12
<1> QED BY <1>4, <1>5, <1>6, <1>7, <1>8, <1>13, <1>14, <1>15 DEF x, y, z, abc, bcd

\* What the drivers that have to stay in step have in common.
LEMMA LockstepFacts ==
  ASSUME p \in Lockstep
  PROVE  /\ Len(p.reads) = 2 /\ p.fatal = {} /\ p.purge \in {"none", "send"}
         /\ Tolerated \subseteq {"lost", "nak"}
         /\ p.reads[1].mode = "exact" /\ Len(p.reads[1].kinds) = 1 /\ p.reads[1].kinds[1] # "nak"
         /\ p.reads[2].mode \in {"exact", "final"}
         /\ p.naks \subseteq {<<"nak">>}
<1> USE DEF Exact, Loose, Scan, Final, Packet, Tolerated, Resynchronizes, Acknowledged
<1>1. CASE p = oceanic_vtpro
  BY <1>1 DEF oceanic_vtpro
<1>2. CASE p = oceanic_veo250
  BY <1>2 DEF oceanic_veo250
<1>3. CASE p = suunto_d9
  BY <1>3 DEF suunto_d9
<1> QED BY <1>1, <1>2, <1>3 DEF Lockstep

LEMMA FreeFacts ==
  ASSUME p \in Free
  PROVE  /\ "overdue" \notin Tolerated
         /\ \A k \in DOMAIN p.reads : p.reads[k].mode # "final"
         /\ p.purge = "retry" \/ (Len(p.reads) = 1 /\ "late" \notin Tolerated /\ p.purge = "none")
         /\ p.fatal = {} \/ (p = oceanic_atom2 /\ p.fatal = {"nak"} /\ "nak" \notin Tolerated)
         /\ \A nak \in p.naks : Len(nak) <= Left(p, 1)
<1> USE DEF Exact, Loose, Scan, Final, Packet, Tolerated, Resynchronizes, Acknowledged
<1>1. CASE p = mares_common
  BY <1>1 DEF mares_common
<1>2. CASE p = cressi_edy
  BY <1>2 DEF cressi_edy
<1>3. CASE p = cressi_leonardo
  BY <1>3 DEF cressi_leonardo
<1>4. CASE p = oceanic_atom2
  BY <1>4, WholeFacts DEF oceanic_atom2, Whole
<1>5. CASE p = seac_screen
  BY <1>5, WholeFacts DEF seac_screen, Whole
<1>6. CASE p = liquivision_lynx
  BY <1>6 DEF liquivision_lynx
<1>7. CASE p = mares_iconhd
  BY <1>7 DEF mares_iconhd
<1>8. CASE p = sporasub_sp2
  BY <1>8 DEF sporasub_sp2
<1>9. CASE p = suunto_vyper2
  BY <1>9 DEF suunto_vyper2
<1> QED BY <1>1, <1>2, <1>3, <1>4, <1>5, <1>6, <1>7, <1>8, <1>9 DEF Free

\* What went wrong is neither forgotten nor forgiven.
LEMMA WithinFacts ==
  ASSUME TypeInv, [Next]_vars, Within'
  PROVE  p' = p /\ Within /\ seen' \subseteq Tolerated /\ faults' \in Nat /\ faults' <= p.retries
<1>1. p' = p /\ seen \subseteq seen' /\ faults \in Nat /\ faults' \in {faults, faults + 1}
  <2>1. CASE Send
    BY <2>1, SendFacts DEF Send, TypeInv
  <2>2. CASE ReadParts
    BY <2>2, PartsFacts DEF TypeInv
  <2>3. CASE ReadShort \/ ReadScan
    BY <2>3 DEF ReadShort, ReadScan, TypeInv
  <2>4. CASE Foreach \/ Cancel \/ Cancelled \/ Pause \/ Arrive \/ UNCHANGED vars
    BY <2>4 DEF Foreach, Cancel, Cancelled, Pause, Arrive, vars, wire, TypeInv
  <2> QED BY <2>1, <2>2, <2>3, <2>4 DEF Next, Finished
<1>2. Tolerated' = Tolerated
  BY <1>1 DEF Tolerated, Resynchronizes, Acknowledged
<1>3. p.retries \in Nat /\ faults' <= p.retries /\ seen' \subseteq Tolerated
  BY <1>1, <1>2, DriverFacts DEF Within, TypeInv
<1>4. faults <= p.retries
  BY <1>1, <1>3
<1> QED BY <1>1, <1>3, <1>4 DEF Within

\* There is a retry left after a failure for which something went wrong.
LEMMA RetryFacts ==
  ASSUME TypeInv, Within, nretries < faults, Current.mode # "final",
         NEW s \in {"TIMEOUT", "PROTOCOL"}, Attempt(s)
  PROVE  pc' = "pause" /\ nretries' = nretries + 1 /\ nretries' <= faults /\ status' = status
<1>1. nretries \in Nat /\ faults \in Nat /\ p.retries \in Nat
  BY DriverFacts DEF TypeInv
<1>2. nretries < p.retries /\ nretries + 1 <= faults
  BY <1>1 DEF Within
<1> QED BY <1>2, AttemptFacts

\* An answer that arrives whole.
LEMMA AnswerRests == ASSUME TypeInv PROVE Rests(Answer(block), p, 1, block)
<1>1. /\ Len(Answer(block)) = Len(Kinds(p)) /\ Len(Kinds(p)) = Left(p, 1) /\ Rest(p, 1) = Kinds(p)
      /\ \A i \in 1 .. Len(Kinds(p)) : Answer(block)[i] = Part(Kinds(p)[i], block)
  BY AnswerFacts, KindsFacts, RestFacts DEF TypeInv
<1> QED BY <1>1 DEF Rests

\* As long as no answer is overdue, that to a command comes next in the line.
LEMMA SentFacts ==
  ASSUME TypeInv, Send, seen' \subseteq Tolerated, "overdue" \notin Tolerated
  PROVE  /\ pc = "send" /\ pc' = "read" /\ part' = 1 /\ UNCHANGED <<block, nretries, status>>
         /\ late' \in {<<>>, late, late \o Answer(block)}
         /\ \E s \in Coming :
              /\ line' = Kept \o s
              /\ \/ s = Answer(block) /\ faults' = faults
                 \/ /\ faults' = faults + 1
                    /\ \/ s = <<>>
                       \/ s \in Cuts(Answer(block)) /\ "cut" \in Tolerated
                       \/ s \in Junks(Answer(block)) /\ "junk" \in Tolerated
                       \/ s \in Refusals(block) /\ "nak" \in Tolerated
<1> DEFINE a == Answer(block)
<1>1. Kept \in Seq(Parts)
  BY EmptySeq DEF Kept, TypeInv
<1>2. a \in Seq(Parts) /\ Kept \o <<>> = Kept
  BY <1>1, AnswerFacts
<1>3. Cuts(a) \subseteq Coming /\ Junks(a) \subseteq Coming /\ Refusals(block) \subseteq Coming
      /\ a \in Coming /\ <<>> \in Coming
  BY DEF Coming
<1>4. pc = "send" /\ pc' = "read" /\ part' = 1 /\ UNCHANGED <<block, nretries, status>>
  BY DEF Send
<1> HIDE DEF a
<1>5. CASE line' = Kept \o late \o a /\ late' = <<>> /\ faults' = faults
           /\ seen' = (IF late = <<>> THEN seen ELSE seen \cup {"overdue"})
  <2>1. late = <<>>
    BY <1>5
  <2> QED BY <1>2, <1>3, <1>4, <1>5, <2>1 DEF a
<1>6. CASE line' = Kept /\ faults' = faults + 1 /\ late' \in {late, late \o a}
  BY <1>2, <1>3, <1>4, <1>6 DEF a
<1>7. CASE /\ faults' = faults + 1 /\ seen' = seen \cup {"cut"} /\ late' = late
           /\ \E s \in Cuts(a) : line' = Kept \o s
  BY <1>3, <1>4, <1>7 DEF a
<1>8. CASE /\ faults' = faults + 1 /\ seen' = seen \cup {"junk"} /\ late' = late
           /\ \E s \in Junks(a) : line' = Kept \o s
  BY <1>3, <1>4, <1>8 DEF a
<1>9. CASE /\ faults' = faults + 1 /\ seen' = seen \cup {"nak"} /\ late' = late
           /\ \E s \in Refusals(block) : line' = Kept \o s
  BY <1>3, <1>4, <1>9 DEF a
<1> QED BY <1>5, <1>6, <1>7, <1>8, <1>9 DEF Send, a

\* With nothing in the line it comes alone.
LEMMA SentAlone ==
  ASSUME TypeInv, Send, EmptyInv, seen' \subseteq Tolerated, "overdue" \notin Tolerated
  PROVE  /\ pc = "send" /\ pc' = "read" /\ part' = 1 /\ UNCHANGED <<block, nretries, status>>
         /\ \/ line' = Answer(block) /\ faults' = faults
            \/ /\ faults' = faults + 1
               /\ \/ line' = <<>>
                  \/ line' \in Cuts(Answer(block)) /\ "cut" \in Tolerated
                  \/ line' \in Junks(Answer(block)) /\ "junk" \in Tolerated
                  \/ line' \in Refusals(block) /\ "nak" \in Tolerated
<1>1. Kept = <<>>
  BY DEF Kept, EmptyInv, Send
<1>2. \A s \in Coming : <<>> \o s = s
  BY ComingFacts
<1> QED BY <1>1, <1>2, SentFacts

\* The next read of a line that has the rest of an answer.
LEMMA RestsFacts ==
  ASSUME TypeInv, Rests(line, p, part, block)
  PROVE  /\ Len(line) >= Len(Current.kinds)
         /\ \A i \in 1 .. Len(Current.kinds) : line[i] = Part(Current.kinds[i], block)
         /\ Valid(Taken, Current.kinds)
         /\ \A l \in Seq(Parts) :
              /\ Len(l) = Len(line) - Len(Current.kinds)
              /\ \A i \in 1 .. Len(l) : l[i] = line[Len(Current.kinds) + i]
              => Rests(l, p, part + 1, block)
<1> DEFINE n == Len(Current.kinds)
           m == Left(p, part + 1)
           r == Rest(p, part)
           q == Rest(p, part + 1)
<1>1. /\ n \in 1 .. 3 /\ m \in Nat /\ Left(p, part) = n + m
      /\ \A i \in 1 .. n : r[i] = Current.kinds[i]
      /\ \A i \in 1 .. m : q[i] = r[n + i]
  BY RestFacts
<1>2. Len(line) = n + m /\ \A i \in 1 .. n + m : line[i] = Part(r[i], block)
  BY <1>1 DEF Rests
<1> HIDE DEF n, m, r, q
<1>3. Len(line) >= n /\ \A i \in 1 .. n : line[i] = Part(Current.kinds[i], block)
  BY <1>1, <1>2
<1>4. \A l \in Seq(Parts) :
        Len(l) = m /\ (\A i \in 1 .. m : l[i] = line[n + i]) => Rests(l, p, part + 1, block)
  <2> SUFFICES ASSUME NEW l \in Seq(Parts), Len(l) = m, \A i \in 1 .. m : l[i] = line[n + i]
               PROVE  Rests(l, p, part + 1, block)
    OBVIOUS
  <2>1. ASSUME NEW i \in 1 .. m PROVE l[i] = Part(q[i], block)
    <3>1. n + i \in 1 .. n + m
      BY <1>1
    <3> QED BY <1>1, <1>2, <3>1
  <2> QED BY <2>1 DEF Rests, m, q
<1>5. Len(line) - n = m
  BY <1>1, <1>2
<1>6. Valid(Taken, Current.kinds)
  <2>1. line \in Seq(Parts) /\ n \in Nat /\ n <= Len(line)
    BY <1>1, <1>3 DEF TypeInv
  <2>2. Taken \in Seq(Parts) /\ Len(Taken) = n /\ \A i \in 1 .. n : Taken[i] = line[i]
    BY <2>1, TakeFacts DEF Taken, n
  <2>3. \A i \in DOMAIN Taken : Taken[i] = Part(Current.kinds[i], block)
    BY <1>3, <2>2
  <2> HIDE DEF Taken
  <2> QED BY <2>3 DEF Valid, OneAnswer, Fits, Part
<1> QED BY <1>3, <1>4, <1>5, <1>6 DEF n

\* Steps outside a transfer, and its end.
LEMMA OutsideStep ==
  ASSUME TypeInv, CreditInv, EmptyInv, Foreach \/ Cancel \/ Cancelled \/ UNCHANGED vars
  PROVE  CreditInv' /\ EmptyInv' /\ (LockstepInv => LockstepInv') /\ (FreeInv => FreeInv')
<1>1. CASE Foreach
  <2>1. faults \in Nat /\ pc = "idle"
    BY <1>1 DEF TypeInv, Foreach
  <2> QED BY <1>1, <2>1 DEF Foreach, wire, CreditInv, EmptyInv, LockstepInv, FreeInv
<1>2. CASE Cancel
  BY <1>2 DEF Cancel, wire, CreditInv, EmptyInv, LockstepInv, FreeInv
<1>3. CASE Cancelled
  BY <1>3 DEF Cancelled, Fail, wire, CreditInv, EmptyInv, LockstepInv, FreeInv
<1>4. CASE UNCHANGED vars
  BY <1>4 DEF vars, wire, CreditInv, EmptyInv, LockstepInv, FreeInv
<1> QED BY <1>1, <1>2, <1>3, <1>4

\* The next attempt starts with nothing in the line.
LEMMA PauseStep ==
  ASSUME TypeInv, Within, CreditInv, EmptyInv, Pause, p.purge \in {"none", "send", "retry"},
         p.purge = "none" => "late" \notin Tolerated
  PROVE  CreditInv' /\ EmptyInv' /\ LockstepInv' /\ FreeInv'
<1>1. /\ pc = "pause" /\ pc' = "send" /\ UNCHANGED <<p, faults, nretries, status>>
      /\ line' = Purged(line \o late) \/ line' = Purged(line)
  BY DEF Pause
<1>2. p.purge = "send" \/ line' = <<>>
  <2>1. CASE p.purge = "retry"
    BY <1>1, <2>1 DEF Purged
  <2>2. CASE p.purge = "none"
    <3>1. line = <<>> /\ late = <<>>
      BY <1>1, <2>2 DEF EmptyInv, Within, TypeInv
    <3>2. <<>> \o <<>> = <<>>
      OBVIOUS
    <3> QED BY <1>1, <2>2, <3>1, <3>2 DEF Purged
  <2> QED BY <2>1, <2>2
<1> QED BY <1>1, <1>2 DEF CreditInv, EmptyInv, LockstepInv, FreeInv

LEMMA LockstepStep ==
  ASSUME TransferAssumption, TypeInv, CountInv, p \in Lockstep, CreditInv, LockstepInv, EmptyInv,
         [Next]_vars, Within'
  PROVE  CreditInv' /\ LockstepInv' /\ EmptyInv'
<1>0. /\ p' = p /\ Within /\ seen' \subseteq Tolerated
      /\ faults \in Nat /\ nretries \in Nat /\ block \in Nat
      /\ "overdue" \notin Tolerated /\ "late" \notin Tolerated
  BY WithinFacts, LockstepFacts DEF TypeInv, TransferAssumption
<1>1. CASE Foreach \/ Cancel \/ Cancelled \/ UNCHANGED vars
  BY <1>1, OutsideStep
<1>2. CASE Send
  <2>1. /\ pc = "send" /\ pc' = "read" /\ part' = 1 /\ UNCHANGED <<block, nretries, status>>
        /\ \/ line' = Answer(block) /\ faults' = faults
           \/ /\ faults' = faults + 1
              /\ line' = <<>> \/ line' \in Refusals(block)
    BY <1>0, <1>2, SentAlone, LockstepFacts
  <2>2. nretries <= faults
    BY <2>1 DEF CreditInv
  <2>3. EmptyInv'
    BY <2>1 DEF EmptyInv
  <2>4. CASE line' = Answer(block) /\ faults' = faults
    <3>1. Rests(line', p', part', block')
      BY <1>0, <2>1, <2>4, AnswerRests
    <3> QED BY <2>1, <2>2, <2>3, <2>4, <3>1 DEF CreditInv, LockstepInv
  <2>5. CASE faults' = faults + 1 /\ (line' = <<>> \/ line' \in Refusals(block))
    <3>1. nretries' < faults' /\ nretries' <= faults'
      BY <1>0, <2>1, <2>2, <2>5
    <3>2. Len(line') = 0 \/ (Len(line') = 1 /\ line'[1].kind = "nak")
      <4>1. CASE line' = <<>>
        BY <4>1
      <4>2. CASE line' \in Refusals(block)
        <5>1. PICK nak \in p.naks : line' = [i \in DOMAIN nak |-> Part(nak[i], block)]
          BY <4>2 DEF Refusals
        <5>2. nak = <<"nak">>
          BY LockstepFacts
        <5>3. DOMAIN nak = 1 .. 1 /\ nak[1] = "nak"
          BY <5>2
        <5> QED BY <5>1, <5>3 DEF Part
      <4> QED BY <2>5, <4>1, <4>2
    <3> QED BY <2>1, <2>3, <3>1, <3>2 DEF CreditInv, LockstepInv
  <2> QED BY <2>1, <2>4, <2>5
<1>3. ASSUME pc = "read", part = 1, ~Rests(line, p, part, block)
      PROVE  /\ nretries < faults /\ Current.mode = "exact" /\ Len(Current.kinds) = 1
             /\ Len(line) <= 1 /\ (Len(line) = 1 => line[1].kind # Current.kinds[1])
  <2>1. nretries < faults
    BY <1>3 DEF CreditInv
  <2>2. Len(line) = 0 \/ (Len(line) = 1 /\ line[1].kind = "nak")
    BY <1>3 DEF LockstepInv
  <2>3. Current.mode = "exact" /\ Len(Current.kinds) = 1 /\ Current.kinds[1] # "nak"
    BY <1>3, LockstepFacts DEF Current
  <2>4. CASE Len(line) = 0
    BY <2>1, <2>3, <2>4
  <2>5. CASE Len(line) = 1 /\ line[1].kind = "nak"
    <3>1. line[1].kind # Current.kinds[1]
      BY <2>3, <2>5, Zenon
    <3> QED BY <2>1, <2>3, <2>5, <3>1
  <2> QED BY <2>2, <2>4, <2>5
<1>4. CASE ReadShort
  <2>1. pc = "read" /\ Len(line) < Len(Current.kinds) /\ line' = <<>> /\ Attempt("TIMEOUT")
        /\ UNCHANGED <<p, faults, block, part>>
    BY <1>4 DEF ReadShort
  <2>2. ~Rests(line, p, part, block)
    <3> SUFFICES ASSUME Rests(line, p, part, block) PROVE FALSE
      OBVIOUS
    <3>1. Len(line) >= Len(Current.kinds) /\ line \in Seq(Parts) /\ Len(Current.kinds) \in 1 .. 3
      BY RestsFacts, RestFacts DEF TypeInv
    <3>2. Len(line) \in Nat /\ Len(Current.kinds) \in Nat
      BY <3>1
    <3> QED BY <2>1, <3>1, <3>2
  <2>3. pc' = "pause" /\ nretries' <= faults /\ status' = status
    BY <1>0, <1>3, <2>1, <2>2, RetryFacts DEF LockstepInv
  <2> QED BY <2>1, <2>3 DEF CreditInv, LockstepInv, EmptyInv
<1>5. CASE ReadParts
  <2> DEFINE n == Len(Current.kinds)
  <2>1. /\ pc = "read" /\ n \in 1 .. 3 /\ line \in Seq(Parts)
        /\ line' \in Seq(Parts) /\ Len(line') = Len(line) - n
        /\ \A i \in DOMAIN line' : line'[i] = line[n + i]
        /\ Taken \in Seq(Parts) /\ Len(Taken) = n
        /\ \A i \in DOMAIN Taken : i \in DOMAIN line /\ Taken[i] = line[i]
        /\ UNCHANGED <<p, faults>> /\ Current.mode # "loose"
    <3>1. Current.mode # "loose"
      BY LockstepFacts, CurrentFacts DEF Current
    <3> QED BY <1>5, <3>1, PartsFacts DEF TypeInv
  <2>2. CASE Rests(line, p, part, block)
    <3>1. Valid(Taken, Current.kinds) /\ Len(line) = n + Left(p, part + 1)
      BY <2>2, RestsFacts, RestFacts DEF Rests
    <3>2. CASE part = Len(p.reads) /\ Store(DataOf(Taken)) /\ UNCHANGED <<part, data>>
      <4>1. pc' \in {"idle", "send"} /\ nretries' = 0 /\ (status' = "SUCCESS" \/ status' = status)
        BY <3>2 DEF Store
      <4>2. Len(line) = n
        BY <2>2, <3>2, LeftFacts DEF Rests
      <4>3. line' = <<>>
        BY <2>1, <4>2
      <4> QED BY <1>0, <2>1, <4>1, <4>3 DEF CreditInv, LockstepInv, EmptyInv
    <3>3. CASE part' = part + 1 /\ UNCHANGED <<block, pc, nretries, status>>
      <4>0. DOMAIN line' = 1 .. Len(line')
        BY <2>1, LenProperties
      <4>1. \A i \in 1 .. Len(line') : line'[i] = line[n + i]
        BY <2>1, <4>0, Zenon
      <4>2. Rests(line', p, part + 1, block)
        BY <2>1, <2>2, <4>1, RestsFacts
      <4>3. Rests(line', p', part', block')
        BY <2>1, <3>3, <4>2
      <4> QED BY <2>1, <3>3, <4>3 DEF CreditInv, LockstepInv, EmptyInv
    <3> QED BY <1>5, <3>1, <3>2, <3>3, PartsFacts
  <2>3. CASE ~Rests(line, p, part, block)
    <3>1. part = 1 /\ n = 1 /\ Len(line) <= 1 /\ nretries < faults /\ Current.mode = "exact"
          /\ (Len(line) = 1 => line[1].kind # Current.kinds[1])
      BY <1>3, <2>1, <2>3 DEF LockstepInv
    <3>2. 1 \in DOMAIN Taken /\ 1 \in DOMAIN line /\ Taken[1] = line[1] /\ Len(line) = 1
      BY <2>1, <3>1
    <3>3. ~Valid(Taken, Current.kinds)
      BY <3>1, <3>2 DEF Valid, Fits
    <3>4. line' = <<>>
      BY <2>1, <3>1, <3>2
    <3>5. ~Refused(Taken)
      BY LockstepFacts DEF Refused
    <3>6. Attempt("PROTOCOL") /\ UNCHANGED <<block, part>>
      BY <1>5, <2>1, <3>3, <3>5 DEF ReadParts, Taken
    <3>7. pc' = "pause" /\ nretries' <= faults /\ status' = status
      BY <1>0, <3>1, <3>6, RetryFacts
    <3> QED BY <2>1, <3>4, <3>7 DEF CreditInv, LockstepInv, EmptyInv
  <2> QED BY <2>2, <2>3
<1>6. CASE ReadScan
  <2>1. Current.mode # "scan"
    BY LockstepFacts, CurrentFacts DEF Current
  <2> QED BY <1>6, <2>1 DEF ReadScan
<1>7. CASE Pause
  BY <1>0, <1>7, PauseStep, LockstepFacts
<1>8. CASE Arrive
  BY <1>0, <1>8 DEF Arrive
<1> QED BY <1>1, <1>2, <1>4, <1>5, <1>6, <1>7, <1>8 DEF Next, Finished

\* What a command brings fits an answer, and is not taken for a refusal.
LEMMA FreeSent ==
  ASSUME TypeInv, p \in Free, NEW s,
         \/ s \in {<<>>, Answer(block)} \/ s \in Cuts(Answer(block)) \/ s \in Junks(Answer(block))
         \/ s \in Refusals(block) /\ "nak" \in Tolerated
  PROVE  Len(s) <= Left(p, 1) /\ \A i \in DOMAIN s : s[i].kind \notin p.fatal
<1> DEFINE a == Answer(block)
<1>0. p \in Protocols /\ block \in Nat
  BY DEF TypeInv
<1>1. a \in Seq(Parts) /\ Len(a) = Left(p, 1) /\ \A i \in DOMAIN a : a[i].kind \notin p.fatal
  <2>1. a \in Seq(Parts) /\ Len(a) = Len(Kinds(p)) /\ DOMAIN a = 1 .. Len(Kinds(p))
    BY AnswerFacts
  <2>2. Len(Kinds(p)) = Left(p, 1)
    BY <1>0, KindsFacts
  <2>3. \A i \in 1 .. Len(Kinds(p)) : a[i].kind = Kinds(p)[i]
    <3>1. \A k : Part(k, block).kind = k
      BY DEF Part
    <3> QED BY <3>1, AnswerFacts
  <2>4. \A i \in 1 .. Len(Kinds(p)) : Kinds(p)[i] \notin p.fatal
    <3>1. CASE p.fatal = {}
      BY <3>1
    <3>2. CASE p = oceanic_atom2 /\ p.fatal = {"nak"}
      <4>1. KindsOf(p, 1) = <<"ack", "data", "sum">> /\ KindsOf(p, 2) = <<>> /\ KindsOf(p, 3) = <<>>
        BY <3>2 DEF oceanic_atom2, KindsOf, Exact
      <4>2. Len(Kinds(p)) = 3 /\ Kinds(p)[1] = "ack" /\ Kinds(p)[2] = "data" /\ Kinds(p)[3] = "sum"
        <5>1. <<"ack", "data", "sum">> \in Seq(Names)
          BY DEF Names
        <5>2. Kinds(p) = <<"ack", "data", "sum">>
          BY <4>1, <5>1, ConcatEmptySeq DEF Kinds
        <5> QED BY <5>2
      <4> QED BY <3>2, <4>2
    <3> QED BY <3>1, <3>2, FreeFacts
  <2> HIDE DEF a
  <2> QED BY <2>1, <2>2, <2>3, <2>4
<1>2. Left(p, 1) \in Nat /\ Len(a) \in Nat /\ "junk" \notin p.fatal
  <2>1. "junk" \notin p.fatal
    BY FreeFacts
  <2> QED BY <1>1, <2>1
<1> HIDE DEF a
<1>3. CASE s = <<>>
  BY <1>2, <1>3
<1>4. CASE s = a
  BY <1>1, <1>2, <1>4
<1>5. CASE s \in Cuts(a)
  <2>1. PICK i \in DOMAIN a : s = RemoveAt(a, i)
    BY <1>5 DEF Cuts
  <2>2. /\ s \in Seq(Parts) /\ Len(s) = Len(a) - 1
        /\ \A j \in 1 .. Len(a) - 1 : s[j] = IF j < i THEN a[j] ELSE a[j + 1]
    BY <1>1, <2>1, CutFacts
  <2>3. \A j \in 1 .. Len(a) - 1 : j \in DOMAIN a /\ j + 1 \in DOMAIN a
    BY <1>1
  <2> QED BY <1>1, <1>2, <2>2, <2>3
<1>6. CASE s \in Junks(a)
  <2>1. PICK i \in DOMAIN a : s = [a EXCEPT ![i] = Part("junk", 0)]
    BY <1>6 DEF Junks, ReplaceAt
  <2>2. Part("junk", 0).kind = "junk" /\ Part("junk", 0) \in Parts
    BY DEF Part, Parts, Names
  <2> QED BY <1>1, <1>2, <2>1, <2>2
<1>7. CASE s \in Refusals(block) /\ "nak" \in Tolerated
  <2>1. PICK nak \in p.naks : s = [i \in DOMAIN nak |-> Part(nak[i], block)]
    BY <1>7 DEF Refusals
  <2>2. p.fatal = {} /\ Len(nak) <= Left(p, 1)
    BY <1>7, FreeFacts
  <2>3. nak \in Seq(Names)
    <3>1. /\ <<"nak">> \in Seq(Names) /\ <<"start", "nak">> \in Seq(Names)
          /\ <<"start", "busy">> \in Seq(Names)
      BY DEF Names
    <3> QED BY <1>0, <3>1, DriverFacts
  <2>4. Len(s) = Len(nak)
    BY <2>1, <2>3
  <2> QED BY <2>2, <2>4
<1> QED BY <1>3, <1>4, <1>5, <1>6, <1>7 DEF a

LEMMA FreeStep ==
  ASSUME TransferAssumption, TypeInv, CountInv, p \in Free, CreditInv, FreeInv, EmptyInv,
         [Next]_vars, Within'
  PROVE  CreditInv' /\ FreeInv' /\ EmptyInv'
<1>0. /\ p' = p /\ Within /\ seen' \subseteq Tolerated
      /\ faults \in Nat /\ nretries \in Nat /\ block \in Nat /\ line \in Seq(Parts)
      /\ "overdue" \notin Tolerated /\ Left(p, 1) \in Nat
  BY WithinFacts, FreeFacts, LeftFacts DEF TypeInv, TransferAssumption
<1>1. CASE Foreach \/ Cancel \/ Cancelled \/ UNCHANGED vars
  BY <1>1, OutsideStep
<1>2. CASE Send
  <2>1. /\ pc = "send" /\ pc' = "read" /\ part' = 1 /\ UNCHANGED <<block, nretries, status>>
        /\ \/ line' = Answer(block) /\ faults' = faults
           \/ /\ faults' = faults + 1
              /\ \/ line' = <<>>
                 \/ line' \in Cuts(Answer(block))
                 \/ line' \in Junks(Answer(block))
                 \/ line' \in Refusals(block) /\ "nak" \in Tolerated
    BY <1>0, <1>2, SentAlone
  <2>2. nretries <= faults
    BY <2>1 DEF CreditInv
  <2>3. EmptyInv'
    BY <2>1 DEF EmptyInv
  <2>4. /\ CreditInv'
    <3>1. CASE line' = Answer(block) /\ faults' = faults
      <4>1. Rests(line', p', part', block')
        BY <1>0, <2>1, <3>1, AnswerRests
      <4> QED BY <2>1, <2>2, <3>1, <4>1 DEF CreditInv
    <3>2. CASE faults' = faults + 1
      <4>1. nretries' < faults' /\ nretries' <= faults'
        BY <1>0, <2>1, <2>2, <3>2
      <4> QED BY <2>1, <4>1 DEF CreditInv
    <3> QED BY <2>1, <3>1, <3>2
  <2>5. Len(line') <= Left(p, 1) /\ \A i \in DOMAIN line' : line'[i].kind \notin p.fatal
    BY <2>1, FreeSent
  <2>6. FreeInv'
    BY <1>0, <2>1, <2>5 DEF FreeInv
  <2> QED BY <2>3, <2>4, <2>6
<1>3. ASSUME pc = "read" PROVE Current.mode # "final" /\ Len(line) <= Left(p, part)
  BY <1>3, FreeFacts DEF FreeInv, Current, TypeInv
<1>4. ASSUME pc = "read", ~Rests(line, p, part, block) PROVE nretries < faults
  BY <1>4 DEF CreditInv
<1>5. Len(line) \in Nat /\ Len(Current.kinds) \in 1 .. 3 /\ Left(p, part) \in Nat /\ Left(p, part + 1) \in Nat
      /\ Left(p, part) = Len(Current.kinds) + Left(p, part + 1)
  BY <1>0, RestFacts
<1>6. CASE ReadShort
  <2>1. pc = "read" /\ Len(line) < Len(Current.kinds) /\ line' = <<>> /\ Attempt("TIMEOUT")
        /\ UNCHANGED <<p, faults, block, part>>
    BY <1>6 DEF ReadShort
  <2>2. ~Rests(line, p, part, block)
    <3> SUFFICES ASSUME Rests(line, p, part, block) PROVE FALSE
      OBVIOUS
    <3>1. Len(line) >= Len(Current.kinds)
      BY RestsFacts
    <3> QED BY <1>5, <2>1, <3>1
  <2>3. pc' = "pause" /\ nretries' <= faults /\ status' = status
    BY <1>0, <1>3, <1>4, <2>1, <2>2, RetryFacts
  <2> QED BY <2>1, <2>3 DEF CreditInv, FreeInv, EmptyInv
<1>7. CASE ReadParts
  <2> DEFINE n == Len(Current.kinds)
  <2>1. /\ pc = "read" /\ line' \in Seq(Parts) /\ Len(line') = Len(line) - n
        /\ \A i \in DOMAIN line' : n + i \in DOMAIN line /\ line'[i] = line[n + i]
        /\ \A i \in DOMAIN Taken : i \in DOMAIN line /\ Taken[i] = line[i]
        /\ UNCHANGED <<p, faults>>
    BY <1>7, PartsFacts
  <2>2. \A i \in DOMAIN line : line[i].kind \notin p.fatal
    BY <2>1 DEF FreeInv
  <2>3. CASE part = Len(p.reads) /\ Store(DataOf(Taken)) /\ UNCHANGED <<part, data>>
    <3>1. pc' \in {"idle", "send"} /\ nretries' = 0 /\ (status' = "SUCCESS" \/ status' = status)
      BY <2>3 DEF Store
    <3>2. Left(p, part) = n
      BY <2>3, LeftFacts
    <3>3. line' = <<>>
      BY <1>3, <1>5, <2>1, <3>2
    <3> QED BY <1>0, <2>1, <3>1, <3>3 DEF CreditInv, FreeInv, EmptyInv
  <2>4. CASE part' = part + 1 /\ UNCHANGED <<block, pc, nretries, status>>
    <3>1. Len(line') <= Left(p, part + 1)
      BY <1>3, <1>5, <2>1
    <3>2. \A i \in DOMAIN line' : line'[i].kind \notin p.fatal
      BY <2>1, <2>2
    <3>0. DOMAIN line' = 1 .. Len(line')
      BY <2>1, LenProperties
    <3>3. \A i \in 1 .. Len(line') : line'[i] = line[n + i]
      BY <2>1, <3>0, Zenon
    <3>4. Rests(line, p, part, block) => Rests(line', p', part', block')
      BY <2>1, <2>4, <3>3, RestsFacts
    <3> QED BY <2>1, <2>4, <3>1, <3>2, <3>4 DEF CreditInv, FreeInv, EmptyInv
  <2>5. CASE Current.mode # "loose" /\ ~Valid(Taken, Current.kinds)
    <3>1. ~Rests(line, p, part, block)
      BY <2>5, RestsFacts
    <3>2. ~Refused(Taken)
      BY <2>1, <2>2 DEF Refused
    <3>3. Attempt("PROTOCOL") /\ UNCHANGED <<block, part>>
      BY <1>7, <2>5, <3>2 DEF ReadParts, Taken
    <3>4. pc' = "pause" /\ nretries' <= faults /\ status' = status
      BY <1>0, <1>3, <1>4, <2>1, <3>1, <3>3, RetryFacts
    <3>5. p.purge # "none" \/ line' = <<>>
      <4> SUFFICES ASSUME p.purge = "none" PROVE line' = <<>>
        OBVIOUS
      <4>1. Len(p.reads) = 1 /\ part = Len(p.reads)
        <5>1. Len(p.reads) = 1 /\ part \in 1 .. Len(p.reads)
          BY FreeFacts, CurrentFacts
        <5> QED BY <5>1
      <4>2. Left(p, part) = n
        BY <4>1, LeftFacts
      <4> QED BY <1>3, <1>5, <2>1, <4>2
    <3> QED BY <2>1, <3>4, <3>5 DEF CreditInv, FreeInv, EmptyInv
  <2> QED BY <1>7, <2>3, <2>4, <2>5, PartsFacts
<1>8. CASE ReadScan
  <2>1. pc = "read" /\ Current.mode = "scan" /\ UNCHANGED <<p, faults, block>>
        /\ \A i \in DOMAIN line : line[i].kind \notin p.fatal
    BY <1>8 DEF ReadScan, FreeInv
  <2>2. Len(Current.kinds) = 1 /\ part < Len(p.reads)
    BY <2>1, ScanFacts DEF TypeInv, Current
  <2>3. CASE line = <<>>
    <3>1. Attempt("TIMEOUT") /\ UNCHANGED <<line, part>>
      BY <1>8, <2>3 DEF ReadScan
    <3>2. ~Rests(line, p, part, block)
      <4>1. Len(line) = 0
        BY <2>3
      <4>2. Rests(line, p, part, block) => Len(line) >= Len(Current.kinds)
        BY RestsFacts
      <4> QED BY <2>2, <4>1, <4>2
    <3>3. pc' = "pause" /\ nretries' <= faults /\ status' = status
      BY <1>0, <1>3, <1>4, <2>1, <3>1, <3>2, RetryFacts
    <3> QED BY <2>1, <2>3, <3>1, <3>3 DEF CreditInv, FreeInv, EmptyInv
  <2>4. CASE line # <<>>
    <3>1. /\ line' = Tail(line) /\ UNCHANGED <<pc, nretries, status>>
          /\ part' = IF Head(line).kind = Current.kinds[1] THEN part + 1 ELSE part
      BY <1>8, <2>4 DEF ReadScan
    <3>2. /\ line' \in Seq(Parts) /\ Len(line') = Len(line) - 1 /\ Head(line) = line[1]
          /\ \A i \in 1 .. Len(line') : i + 1 \in DOMAIN line /\ line'[i] = line[i + 1]
      BY <1>0, <2>4, <3>1, HeadTailProperties
    <3>3. \A i \in DOMAIN line' : line'[i].kind \notin p.fatal
      <4>1. DOMAIN line' = 1 .. Len(line')
        BY <3>2
      <4> QED BY <2>1, <3>2, <4>1
    <3>4. CASE Head(line).kind = Current.kinds[1]
      <4>1. part' = part + 1
        BY <3>1, <3>4
      <4>2. Len(line') <= Left(p, part + 1)
        BY <1>3, <1>5, <2>1, <2>2, <3>2
      <4>3. \A i \in 1 .. Len(line') : line'[i] = line[Len(Current.kinds) + i]
        <5>1. \A i \in 1 .. Len(line') : i + 1 = 1 + i
          OBVIOUS
        <5> QED BY <2>2, <3>2, <5>1
      <4>4. Rests(line, p, part, block) => Rests(line', p', part', block')
        BY <2>1, <2>2, <3>2, <4>1, <4>3, RestsFacts
      <4> QED BY <2>1, <3>1, <3>3, <4>1, <4>2, <4>4 DEF CreditInv, FreeInv, EmptyInv
    <3>5. CASE Head(line).kind # Current.kinds[1]
      <4>1. part' = part
        BY <3>1, <3>5
      <4>2. ~Rests(line, p, part, block)
        <5> SUFFICES ASSUME Rests(line, p, part, block) PROVE FALSE
          OBVIOUS
        <5>1. 1 \in 1 .. Len(Current.kinds)
          BY <2>2
        <5>2. line[1] = Part(Current.kinds[1], block)
          BY <5>1, RestsFacts
        <5> QED BY <3>2, <3>5, <5>2 DEF Part
      <4>3. Len(line') <= Left(p, part)
        BY <1>3, <1>5, <2>1, <3>2
      <4>4. nretries < faults
        BY <1>4, <2>1, <4>2
      <4> QED BY <2>1, <3>1, <3>3, <4>1, <4>3, <4>4 DEF CreditInv, FreeInv, EmptyInv
    <3> QED BY <3>4, <3>5
  <2> QED BY <2>3, <2>4
<1>9. CASE Pause
  BY <1>0, <1>9, PauseStep, FreeFacts
<1>10. CASE Arrive
  BY <1>0, <1>10 DEF Arrive
<1> QED BY <1>1, <1>2, <1>6, <1>7, <1>8, <1>9, <1>10 DEF Next, Finished

-----------------------------------------------------------------------------
(* The iDive never purges its input *)

\* The starts of frames in the line that the data does not follow, and how
\* many there are: each of them makes an attempt fail.
Bad(l)  == {i \in 1 .. Len(l) : l[i].kind = "start" /\ ~(i + 1 <= Len(l) /\ l[i + 1].kind = "data")}
Debt(l) == Cardinality(Bad(l))

Known(l)  == \A i \in 1 .. Len(l) : l[i].kind \in {"start", "data", "junk"}
Starts(l) == \E i \in 1 .. Len(l) : l[i].kind = "start"
Begins(l) == 1 <= Len(l) /\ l[1].kind = "data"

\* The attempts that failed and those that will fail because of what is in the
\* line have been caused by a fault each.
IdiveInv ==
  /\ Known(line) /\ Known(late) /\ Bad(late) = {}
  /\ status \in {"none", "SUCCESS", "CANCELLED"}
  /\ nretries + Debt(line) <= faults
  /\ pc = "read" /\ part = 1 => nretries + Debt(line) < faults \/ Starts(line)
  /\ pc = "read" /\ part = 2 => nretries + Debt(line) < faults \/ Begins(line)

RecoverInv ==
  Within =>
    /\ p \in Lockstep => CreditInv /\ LockstepInv /\ EmptyInv
    /\ p \in Free     => CreditInv /\ FreeInv /\ EmptyInv
    /\ p = divesystem_idive => IdiveInv

LEMMA DebtFacts ==
  ASSUME NEW l \in Seq(Parts)
  PROVE  IsFiniteSet(Bad(l)) /\ Debt(l) \in Nat /\ (Bad(l) = {} => Debt(l) = 0)
<1>1. IsFiniteSet(1 .. Len(l))
  <2>1. 1 \in Int /\ Len(l) \in Int
    OBVIOUS
  <2> QED BY <2>1, FS_Interval
<1>2. Bad(l) \in SUBSET (1 .. Len(l))
  BY DEF Bad
<1>3. IsFiniteSet(Bad(l))
  BY <1>1, <1>2, FS_Subset
<1> QED BY <1>3, FS_CardinalityType, FS_EmptySet DEF Debt

\* The first part is taken from the line.
LEMMA DebtTail ==
  ASSUME NEW l \in Seq(Parts), NEW t \in Seq(Parts), Len(l) >= 1, Len(t) = Len(l) - 1,
         \A i \in 1 .. Len(t) : t[i] = l[i + 1]
  PROVE  Debt(t) <= Debt(l) /\ (1 \in Bad(l) => Debt(t) < Debt(l))
<1>0. Len(l) \in Nat /\ Len(t) \in Nat
  OBVIOUS
<1>1. \A i \in Bad(t) : i + 1 \in Bad(l) \ {1}
  <2> SUFFICES ASSUME NEW i \in Bad(t) PROVE i + 1 \in Bad(l) \ {1}
    OBVIOUS
  <2>1. i \in 1 .. Len(t) /\ t[i].kind = "start" /\ ~(i + 1 <= Len(t) /\ t[i + 1].kind = "data")
    BY DEF Bad
  <2>2. i + 1 \in 1 .. Len(l) /\ i + 1 # 1 /\ l[i + 1].kind = "start"
    BY <1>0, <2>1
  <2>3. ASSUME (i + 1) + 1 <= Len(l), l[(i + 1) + 1].kind = "data" PROVE FALSE
    <3>1. i + 1 \in 1 .. Len(t)
      BY <1>0, <2>1, <2>3
    <3> QED BY <2>1, <2>3, <3>1
  <2> QED BY <2>2, <2>3 DEF Bad
<1> DEFINE f == [i \in Bad(t) |-> i + 1]
<1>2. f \in Injection(Bad(t), Bad(l) \ {1})
  <2>1. f \in [Bad(t) -> Bad(l) \ {1}]
    BY <1>1
  <2>2. ASSUME NEW i \in Bad(t), NEW j \in Bad(t), f[i] = f[j] PROVE i = j
    <3>1. i \in Int /\ j \in Int /\ i + 1 = j + 1
      BY <2>2 DEF Bad
    <3> QED BY <3>1
  <2> HIDE DEF f
  <2> QED BY <2>1, <2>2 DEF Injection, IsInjective
<1> HIDE DEF f
<1>3. IsFiniteSet(Bad(l)) /\ Debt(l) \in Nat /\ Debt(t) \in Nat
  BY DebtFacts
<1>4. /\ IsFiniteSet(Bad(l) \ {1})
      /\ Cardinality(Bad(l) \ {1}) = IF 1 \in Bad(l) THEN Debt(l) - 1 ELSE Debt(l)
  BY <1>3, FS_RemoveElement DEF Debt
<1>5. Debt(t) <= Cardinality(Bad(l) \ {1})
  BY <1>2, <1>4, FS_Injection DEF Debt
<1> QED BY <1>3, <1>4, <1>5

\* Something is received.
LEMMA DebtConcat ==
  ASSUME NEW l \in Seq(Parts), NEW s \in Seq(Parts), Bad(s) \subseteq {1}
  PROVE  Debt(l \o s) <= Debt(l) + 1 /\ (Bad(s) = {} => Debt(l \o s) <= Debt(l))
<1> DEFINE c == l \o s
<1>1. /\ c \in Seq(Parts) /\ Len(c) = Len(l) + Len(s) /\ Len(l) \in Nat /\ Len(s) \in Nat
      /\ \A i \in 1 .. Len(l) + Len(s) : c[i] = IF i <= Len(l) THEN l[i] ELSE s[i - Len(l)]
  BY ConcatProperties
<1> HIDE DEF c
<1>2. ASSUME NEW i \in Bad(c) PROVE i \in Bad(l) \/ i - Len(l) \in Bad(s)
  <2>1. i \in 1 .. Len(c) /\ c[i].kind = "start" /\ ~(i + 1 <= Len(c) /\ c[i + 1].kind = "data")
    BY DEF Bad
  <2>2. CASE i <= Len(l)
    <3>1. i \in 1 .. Len(l) /\ l[i].kind = "start"
      BY <1>1, <2>1, <2>2
    <3>2. ASSUME i + 1 <= Len(l), l[i + 1].kind = "data" PROVE FALSE
      <4>1. i + 1 \in 1 .. Len(l) + Len(s)
        BY <1>1, <2>1, <3>2
      <4> QED BY <1>1, <2>1, <3>2, <4>1
    <3> QED BY <3>1, <3>2 DEF Bad
  <2>3. CASE ~(i <= Len(l))
    <3> DEFINE j == i - Len(l)
    <3>1. j \in 1 .. Len(s) /\ s[j].kind = "start"
      BY <1>1, <2>1, <2>3
    <3>2. ASSUME j + 1 <= Len(s), s[j + 1].kind = "data" PROVE FALSE
      <4>1. i + 1 \in 1 .. Len(l) + Len(s) /\ ~(i + 1 <= Len(l)) /\ (i + 1) - Len(l) = j + 1
        BY <1>1, <2>1, <2>3, <3>2
      <4> QED BY <1>1, <2>1, <3>2, <4>1
    <3> QED BY <3>1, <3>2 DEF Bad
  <2> QED BY <2>2, <2>3
<1>3. Bad(c) \in SUBSET (Bad(l) \cup {Len(l) + 1})
  <2> SUFFICES ASSUME NEW i \in Bad(c), i \notin Bad(l) PROVE i = Len(l) + 1
    OBVIOUS
  <2>1. i - Len(l) = 1 /\ i \in Int
    <3>1. i - Len(l) \in Bad(s)
      BY <1>2
    <3>2. i \in 1 .. Len(c)
      BY DEF Bad
    <3> QED BY <3>1, <3>2
  <2> QED BY <1>1, <2>1
<1>4. Bad(s) = {} => Bad(c) \in SUBSET Bad(l)
  BY <1>2
<1>5. IsFiniteSet(Bad(l)) /\ Debt(l) \in Nat /\ Debt(c) \in Nat
  BY <1>1, DebtFacts
<1>6. /\ IsFiniteSet(Bad(l) \cup {Len(l) + 1})
      /\ Cardinality(Bad(l) \cup {Len(l) + 1}) = IF Len(l) + 1 \in Bad(l) THEN Debt(l) ELSE Debt(l) + 1
  BY <1>5, FS_AddElement DEF Debt
<1>7. Debt(c) <= Cardinality(Bad(l) \cup {Len(l) + 1})
  BY <1>3, <1>6, FS_Subset DEF Debt
<1>8. Bad(s) = {} => Debt(c) <= Debt(l)
  BY <1>4, <1>5, FS_Subset DEF Debt
<1>9. Debt(c) <= Debt(l) + 1
  BY <1>5, <1>6, <1>7
<1> QED BY <1>8, <1>9 DEF c

LEMMA IdiveFacts ==
  ASSUME p = divesystem_idive
  PROVE  /\ Len(p.reads) = 2 /\ p.reads[1] = Scan("start") /\ p.reads[2] = Exact(<<"data">>)
         /\ p.fatal = {"nak"} /\ p.purge = "none" /\ ~p.tag
         /\ "overdue" \notin Tolerated /\ "nak" \notin Tolerated
         /\ Len(Kinds(p)) = 2 /\ Kinds(p)[1] = "start" /\ Kinds(p)[2] = "data"
<1>1. /\ Len(p.reads) = 2 /\ p.reads[1] = Scan("start") /\ p.reads[2] = Exact(<<"data">>)
      /\ DOMAIN p.reads = {1, 2}
      /\ p.fatal = {"nak"} /\ p.purge = "none" /\ ~p.tag
  BY DEF divesystem_idive
<1>2. "overdue" \notin Tolerated /\ "nak" \notin Tolerated
  BY <1>1 DEF Tolerated
<1>3. KindsOf(p, 1) = <<"start">> /\ KindsOf(p, 2) = <<"data">> /\ KindsOf(p, 3) = <<>>
  BY <1>1 DEF Scan, Exact, KindsOf
<1>4. <<"start">> \o <<"data">> \in Seq(Names)
  BY DEF Names
<1>5. Kinds(p) = <<"start">> \o <<"data">>
  BY <1>3, <1>4, ConcatEmptySeq DEF Kinds
<1>6. Len(Kinds(p)) = 2 /\ Kinds(p)[1] = "start" /\ Kinds(p)[2] = "data"
  BY <1>5
<1> QED BY <1>1, <1>2, <1>6

\* What a command brings: at most one bad start, and none if the answer is whole.
LEMMA IdiveSent ==
  ASSUME TypeInv, p = divesystem_idive, NEW s \in Seq(Parts),
         s \in {<<>>, Answer(block)} \/ s \in Cuts(Answer(block)) \/ s \in Junks(Answer(block))
  PROVE  /\ Known(s) /\ Bad(s) \subseteq {1} /\ (Bad(s) # {} => Starts(s))
         /\ s = Answer(block) => Bad(s) = {} /\ Starts(s)
<1> DEFINE a == Answer(block)
<1>1. a \in Seq(Parts) /\ Len(a) = 2 /\ a[1].kind = "start" /\ a[2].kind = "data"
  <2>1. a \in Seq(Parts) /\ Len(a) = 2 /\ a[1] = Part("start", block) /\ a[2] = Part("data", block)
    <3>1. 1 \in 1 .. 2 /\ 2 \in 1 .. 2
      OBVIOUS
    <3> QED BY <3>1, AnswerFacts, IdiveFacts
  <2> HIDE DEF a
  <2> QED BY <2>1 DEF Part
<1> HIDE DEF a
<1>2. /\ Len(s) \in 0 .. 2
      /\ Len(s) >= 1 => s[1].kind \in {"start", "data", "junk"}
      /\ Len(s) = 2 => s[2].kind \in {"data", "junk"}
      /\ s = a => Len(s) = 2 /\ s[1].kind = "start" /\ s[2].kind = "data"
  <2>1. CASE s = <<>>
    BY <1>1, <2>1
  <2>2. CASE s = a
    BY <1>1, <2>2
  <2>3. CASE s \in Cuts(a)
    <3>1. PICK i \in DOMAIN a : s = RemoveAt(a, i)
      BY <2>3 DEF Cuts
    <3>2. /\ Len(s) = Len(a) - 1
          /\ \A j \in 1 .. Len(a) - 1 : s[j] = IF j < i THEN a[j] ELSE a[j + 1]
      BY <1>1, <3>1, CutFacts
    <3>3. Len(s) = 1 /\ s[1] \in {a[1], a[2]}
      BY <1>1, <3>2
    <3> QED BY <1>1, <3>3
  <2>4. CASE s \in Junks(a)
    <3>1. PICK i \in DOMAIN a : s = [a EXCEPT ![i] = Part("junk", 0)]
      BY <2>4 DEF Junks, ReplaceAt
    <3>2. Part("junk", 0).kind = "junk" /\ Part("junk", 0) \in Parts
      BY DEF Part, Parts, Names
    <3>3. Len(s) = 2 /\ s[1] \in {a[1], Part("junk", 0)} /\ s[2] \in {a[2], Part("junk", 0)}
      BY <1>1, <3>1, <3>2
    <3> QED BY <1>1, <3>2, <3>3
  <2> QED BY <2>1, <2>2, <2>3, <2>4 DEF a
<1>3. \A i \in 1 .. Len(s) : i = 1 \/ (i = 2 /\ Len(s) = 2)
  <2>1. \A n \in 0 .. 2 : \A i \in 1 .. n : i = 1 \/ (i = 2 /\ n = 2)
    OBVIOUS
  <2> QED BY <1>2, <2>1
<1>4. Known(s)
  BY <1>2, <1>3 DEF Known
<1>5. \A i \in 1 .. Len(s) : s[i].kind = "start" => i = 1
  BY <1>2, <1>3
<1>6. Bad(s) \subseteq {1} /\ (Bad(s) # {} => Starts(s))
  BY <1>5 DEF Bad, Starts
<1>7. ASSUME s = a PROVE Bad(s) = {} /\ Starts(s)
  <2>1. Len(s) = 2 /\ s[1].kind = "start" /\ s[2].kind = "data"
    BY <1>2, <1>7
  <2>2. 1 \in 1 .. Len(s) /\ 1 + 1 <= Len(s) /\ 1 + 1 = 2
    BY <2>1
  <2>3. 1 \notin Bad(s)
    BY <2>1, <2>2 DEF Bad
  <2> QED BY <1>6, <2>1, <2>2, <2>3 DEF Starts
<1> QED BY <1>4, <1>6, <1>7 DEF a

LEMMA KnownConcat ==
  ASSUME NEW l \in Seq(Parts), NEW s \in Seq(Parts), Known(l), Known(s)
  PROVE  /\ Known(l \o s) /\ (Starts(s) => Starts(l \o s))
         /\ Bad(l) = {} /\ Bad(s) = {} => Bad(l \o s) = {}
<1> DEFINE c == l \o s
<1>1. /\ c \in Seq(Parts) /\ Len(c) = Len(l) + Len(s) /\ Len(l) \in Nat /\ Len(s) \in Nat
      /\ \A i \in 1 .. Len(l) + Len(s) : c[i] = IF i <= Len(l) THEN l[i] ELSE s[i - Len(l)]
  BY ConcatProperties
<1> HIDE DEF c
<1>2. Known(c)
  <2> SUFFICES ASSUME NEW i \in 1 .. Len(l) + Len(s) PROVE c[i].kind \in {"start", "data", "junk"}
    BY <1>1 DEF Known
  <2>1. CASE i <= Len(l)
    <3>1. i \in 1 .. Len(l)
      BY <1>1, <2>1
    <3> QED BY <1>1, <2>1, <3>1 DEF Known
  <2>2. CASE ~(i <= Len(l))
    <3>1. i - Len(l) \in 1 .. Len(s)
      BY <1>1, <2>2
    <3> QED BY <1>1, <2>2, <3>1 DEF Known
  <2> QED BY <2>1, <2>2
<1>3. ASSUME Starts(s) PROVE Starts(c)
  <2>1. PICK i \in 1 .. Len(s) : s[i].kind = "start"
    BY <1>3 DEF Starts
  <2>2. Len(l) + i \in 1 .. Len(l) + Len(s) /\ ~(Len(l) + i <= Len(l)) /\ (Len(l) + i) - Len(l) = i
    BY <1>1
  <2>3. c[Len(l) + i].kind = "start"
    BY <1>1, <2>1, <2>2
  <2> QED BY <1>1, <2>2, <2>3 DEF Starts
<1>4. ASSUME Bad(l) = {}, Bad(s) = {} PROVE Bad(c) = {}
  <2>1. Debt(c) <= Debt(l) /\ Debt(l) = 0 /\ Debt(c) \in Nat /\ IsFiniteSet(Bad(c))
    BY <1>1, <1>4, DebtConcat, DebtFacts DEF c
  <2>2. Debt(c) = 0
    BY <2>1
  <2> QED BY <2>1, <2>2, FS_EmptySet DEF Debt
<1> QED BY <1>2, <1>3, <1>4 DEF c

LEMMA IdiveStep ==
  ASSUME TransferAssumption, TypeInv, CountInv, p = divesystem_idive, IdiveInv, [Next]_vars, Within'
  PROVE  IdiveInv'
<1>0. /\ p' = p /\ Within /\ seen' \subseteq Tolerated /\ faults \in Nat /\ nretries \in Nat
      /\ line \in Seq(Parts) /\ late \in Seq(Parts) /\ Len(line) \in Nat /\ Debt(line) \in Nat
      /\ "overdue" \notin Tolerated /\ "nak" \notin Tolerated
  <2>1. line \in Seq(Parts) /\ late \in Seq(Parts) /\ faults \in Nat /\ nretries \in Nat
    BY DriverFacts DEF TypeInv
  <2> QED BY <2>1, WithinFacts, IdiveFacts, DebtFacts
<1>1. Known(line) /\ Known(late) /\ Bad(late) = {} /\ nretries + Debt(line) <= faults
      /\ status \in {"none", "SUCCESS", "CANCELLED"}
  BY DEF IdiveInv
<1>2. CASE Foreach
  <2>1. /\ pc' = "send" /\ nretries' = 0 /\ status' = "none" /\ UNCHANGED <<line, late, faults>>
    BY <1>2 DEF Foreach, wire
  <2>2. nretries' + Debt(line') <= faults'
    BY <1>0, <1>1, <2>1
  <2> QED BY <1>1, <2>1, <2>2 DEF IdiveInv
<1>3. CASE Cancel \/ UNCHANGED vars
  BY <1>3 DEF Cancel, vars, wire, IdiveInv
<1>4. CASE Cancelled
  <2>1. /\ pc' = "idle" /\ status' = "CANCELLED" /\ UNCHANGED <<line, late, faults, nretries>>
    BY <1>4 DEF Cancelled, Fail, wire
  <2> QED BY <1>1, <2>1 DEF IdiveInv
<1>5. CASE Send
  <2>1. /\ pc' = "read" /\ part' = 1 /\ UNCHANGED <<block, nretries, status>>
        /\ late' \in {<<>>, late, late \o Answer(block)}
    BY <1>0, <1>5, SentFacts
  <2>2. PICK s \in Coming :
          /\ line' = Kept \o s
          /\ \/ s = Answer(block) /\ faults' = faults
             \/ /\ faults' = faults + 1
                /\ s = <<>> \/ s \in Cuts(Answer(block)) \/ s \in Junks(Answer(block))
    BY <1>0, <1>5, SentFacts
  <2>3. s \in Seq(Parts) /\ line' = line \o s /\ Answer(block) \in Seq(Parts)
    BY <2>2, ComingFacts, IdiveFacts, AnswerFacts DEF Kept
  <2>4. /\ Known(s) /\ Bad(s) \subseteq {1} /\ (Bad(s) # {} => Starts(s))
        /\ s = Answer(block) => Bad(s) = {} /\ Starts(s)
    BY <2>2, <2>3, IdiveSent
  <2>5. Known(line') /\ (Starts(s) => Starts(line'))
    BY <1>0, <1>1, <2>3, <2>4, KnownConcat
  <2>6. Known(late') /\ Bad(late') = {}
    <3>1. Known(Answer(block)) /\ Bad(Answer(block)) = {}
      BY <2>3, IdiveSent
    <3>2. Known(late \o Answer(block)) /\ Bad(late \o Answer(block)) = {}
      BY <1>0, <1>1, <2>3, <3>1, KnownConcat
    <3>3. Known(<<>>) /\ Bad(<<>>) = {}
      BY DEF Known, Bad
    <3> QED BY <1>1, <2>1, <3>2, <3>3
  <2>7. /\ Debt(line') \in Nat /\ Debt(line') <= Debt(line) + 1
        /\ Bad(s) = {} => Debt(line') <= Debt(line)
    <3>1. line' \in Seq(Parts)
      BY <1>0, <2>3, ConcatProperties
    <3> QED BY <1>0, <2>3, <2>4, <3>1, DebtConcat, DebtFacts
  <2>8. nretries' + Debt(line') <= faults' /\ (nretries' + Debt(line') < faults' \/ Starts(line'))
    <3>1. CASE s = Answer(block) /\ faults' = faults
      BY <1>0, <1>1, <2>1, <2>4, <2>5, <2>7, <3>1
    <3>2. CASE faults' = faults + 1 /\ Bad(s) = {}
      BY <1>0, <1>1, <2>1, <2>7, <3>2
    <3>3. CASE faults' = faults + 1 /\ Bad(s) # {}
      BY <1>0, <1>1, <2>1, <2>4, <2>5, <2>7, <3>3
    <3> QED BY <2>2, <3>1, <3>2, <3>3
  <2> QED BY <1>1, <2>1, <2>5, <2>6, <2>8 DEF IdiveInv
<1>6. ASSUME Current.mode # "scan" PROVE part = 2 /\ Current.kinds = <<"data">> /\ Current.mode = "exact"
  BY <1>6, IdiveFacts, CurrentFacts DEF Current, Scan, Exact
<1>7. ASSUME Current.mode = "scan" PROVE part = 1 /\ Current.kinds = <<"start">>
  BY <1>7, IdiveFacts, CurrentFacts DEF Current, Scan, Exact
<1>8. ASSUME nretries + Debt(line) < faults, Current.mode # "final",
             NEW s \in {"TIMEOUT", "PROTOCOL"}, Attempt(s)
      PROVE  /\ pc' = "pause" /\ status' = status /\ nretries' \in Nat
             /\ nretries' + Debt(line) <= faults
  <2>1. nretries < faults
    BY <1>0, <1>8
  <2>2. pc' = "pause" /\ status' = status /\ nretries' = nretries + 1
    BY <1>0, <1>8, <2>1, RetryFacts
  <2> QED BY <1>0, <1>8, <2>2
<1>9. CASE ReadShort
  <2>1. /\ pc = "read" /\ Current.mode # "scan" /\ Len(line) < Len(Current.kinds) /\ line' = <<>>
        /\ Attempt("TIMEOUT") /\ UNCHANGED <<late, faults>>
    BY <1>9 DEF ReadShort
  <2>2. Len(line) = 0 /\ ~Begins(line) /\ part = 2 /\ Current.mode = "exact"
    <3>0. Current.kinds = <<"data">>
      BY <1>6, <2>1, Zenon
    <3>1. Len(Current.kinds) = 1
      BY <3>0
    <3>2. Len(line) = 0
      BY <1>0, <2>1, <3>1
    <3> QED BY <1>6, <2>1, <3>2 DEF Begins
  <2>3. nretries + Debt(line) < faults
    BY <2>1, <2>2 DEF IdiveInv
  <2>4. line' = line
    BY <1>0, <2>1, <2>2
  <2>5. pc' = "pause" /\ status' = status /\ nretries' + Debt(line) <= faults
    BY <1>8, <2>1, <2>2, <2>3
  <2> QED BY <1>1, <2>1, <2>4, <2>5 DEF IdiveInv
<1>10. ASSUME Len(line) >= 1, line' \in Seq(Parts), Len(line') = Len(line) - 1,
              \A i \in 1 .. Len(line') : line'[i] = line[i + 1]
       PROVE  /\ Known(line') /\ Debt(line') \in Nat /\ Debt(line') <= Debt(line)
              /\ 1 \in Bad(line) => Debt(line') < Debt(line)
              /\ line[1].kind # "start" /\ Starts(line) => Starts(line')
  <2>1. Debt(line') \in Nat /\ Debt(line') <= Debt(line) /\ (1 \in Bad(line) => Debt(line') < Debt(line))
    BY <1>0, <1>10, DebtTail, DebtFacts
  <2>2. Known(line')
    <3>1. \A i \in 1 .. Len(line') : i + 1 \in 1 .. Len(line)
      BY <1>0, <1>10
    <3> QED BY <1>1, <1>10, <3>1 DEF Known
  <2>3. ASSUME line[1].kind # "start", Starts(line) PROVE Starts(line')
    <3>1. PICK i \in 1 .. Len(line) : line[i].kind = "start"
      BY <2>3 DEF Starts
    <3>2. i # 1
      BY <2>3, <3>1
    <3>3. i - 1 \in 1 .. Len(line') /\ (i - 1) + 1 = i
      BY <1>0, <1>10, <3>2
    <3>4. line'[i - 1].kind = "start"
      BY <1>10, <3>1, <3>3
    <3> QED BY <3>3, <3>4 DEF Starts
  <2> QED BY <2>1, <2>2, <2>3
<1>11. CASE ReadParts
  <2>1. /\ pc = "read" /\ Current.mode # "scan" /\ UNCHANGED <<late, faults>>
        /\ Taken \in Seq(Parts) /\ Len(Taken) = Len(Current.kinds)
        /\ \A i \in DOMAIN Taken : i \in DOMAIN line /\ Taken[i] = line[i]
        /\ line' \in Seq(Parts) /\ Len(line') = Len(line) - Len(Current.kinds)
        /\ \A i \in DOMAIN line' : line'[i] = line[Len(Current.kinds) + i]
    BY <1>11, PartsFacts
  <2>2. part = 2 /\ Current.kinds = <<"data">> /\ Current.mode = "exact" /\ Len(Current.kinds) = 1
    BY <1>6, <2>1
  <2>3. /\ DOMAIN Taken = {1} /\ 1 \in DOMAIN line /\ Taken[1] = line[1] /\ Len(line) >= 1
        /\ Len(line') = Len(line) - 1 /\ \A i \in 1 .. Len(line') : line'[i] = line[i + 1]
    <3>1. DOMAIN Taken = {1}
      BY <2>1, <2>2
    <3>2. 1 \in DOMAIN line /\ Taken[1] = line[1] /\ Len(line) >= 1
      BY <1>0, <2>1, <3>1
    <3>3. \A i \in 1 .. Len(line') : i \in DOMAIN line' /\ 1 + i = i + 1
      BY <2>1
    <3> QED BY <2>1, <2>2, <3>1, <3>2, <3>3
  <2>4. Known(line') /\ Debt(line') \in Nat /\ Debt(line') <= Debt(line)
    BY <1>10, <2>1, <2>3
  <2>5. CASE part = Len(p.reads) /\ Store(DataOf(Taken)) /\ UNCHANGED <<part, data>>
    <3>1. pc' \in {"idle", "send"} /\ nretries' = 0 /\ (status' = "SUCCESS" \/ status' = status)
      BY <2>5 DEF Store
    <3>2. nretries' + Debt(line') <= faults'
      BY <1>0, <1>1, <2>1, <2>4, <3>1
    <3> QED BY <1>1, <2>1, <2>4, <3>1, <3>2 DEF IdiveInv
  <2>6. CASE Current.mode # "loose" /\ ~Valid(Taken, Current.kinds)
    <3>1. ~Begins(line)
      <4> SUFFICES ASSUME line[1].kind = "data" PROVE FALSE
        BY DEF Begins
      <4>1. ~p.tag
        BY IdiveFacts
      <4>2. Current.kinds[1] = "data"
        BY <2>2
      <4>3. Valid(Taken, Current.kinds)
        BY <2>3, <4>1, <4>2 DEF Valid, OneAnswer, Fits
      <4> QED BY <2>6, <4>3
    <3>2. nretries + Debt(line) < faults
      BY <2>1, <2>2, <3>1 DEF IdiveInv
    <3>3. ~Refused(Taken)
      <4>1. line[1].kind \in {"start", "data", "junk"}
        BY <1>1, <2>3 DEF Known
      <4> QED BY <2>3, <4>1, IdiveFacts DEF Refused
    <3>4. Attempt("PROTOCOL")
      BY <1>11, <2>6, <3>3 DEF ReadParts, Taken
    <3>5. pc' = "pause" /\ status' = status /\ nretries' \in Nat /\ nretries' + Debt(line) <= faults
      BY <1>8, <2>2, <3>2, <3>4
    <3>6. nretries' + Debt(line') <= faults'
      BY <1>0, <2>1, <2>4, <3>5
    <3> QED BY <1>1, <2>1, <2>4, <3>5, <3>6 DEF IdiveInv
  <2>7. part = Len(p.reads)
    BY <2>2, IdiveFacts
  <2> QED BY <1>11, <2>5, <2>6, <2>7, PartsFacts
<1>12. CASE ReadScan
  <2>1. pc = "read" /\ Current.mode = "scan" /\ UNCHANGED <<late, faults>>
    BY <1>12 DEF ReadScan
  <2>2. part = 1 /\ Current.kinds[1] = "start"
    BY <1>7, <2>1
  <2>3. CASE line = <<>>
    <3>1. Attempt("TIMEOUT") /\ UNCHANGED <<line, part>>
      BY <1>12, <2>3 DEF ReadScan
    <3>2. ~Starts(line)
      BY <2>3 DEF Starts
    <3>3. nretries + Debt(line) < faults
      BY <2>1, <2>2, <3>2 DEF IdiveInv
    <3>4. pc' = "pause" /\ status' = status /\ nretries' + Debt(line) <= faults
      BY <1>8, <2>1, <3>1, <3>3
    <3> QED BY <1>1, <2>1, <3>1, <3>4 DEF IdiveInv
  <2>4. CASE line # <<>>
    <3>1. /\ line' = Tail(line) /\ UNCHANGED <<pc, nretries, status>>
          /\ part' = IF Head(line).kind = "start" THEN 2 ELSE 1
      BY <1>12, <2>2, <2>4 DEF ReadScan
    <3>2. /\ line' \in Seq(Parts) /\ Len(line') = Len(line) - 1 /\ Head(line) = line[1] /\ Len(line) >= 1
          /\ \A i \in 1 .. Len(line') : line'[i] = line[i + 1]
      BY <1>0, <2>4, <3>1, HeadTailProperties
    <3>3. /\ Known(line') /\ Debt(line') \in Nat /\ Debt(line') <= Debt(line)
          /\ 1 \in Bad(line) => Debt(line') < Debt(line)
          /\ line[1].kind # "start" /\ Starts(line) => Starts(line')
      BY <1>10, <3>2
    <3>4. nretries' + Debt(line') <= faults'
      BY <1>0, <1>1, <2>1, <3>1, <3>3
    <3>5. CASE line[1].kind = "start"
      <4>1. part' = 2
        BY <3>1, <3>2, <3>5
      <4>2. ASSUME ~Begins(line') PROVE 1 \in Bad(line)
        <5>1. ASSUME 1 + 1 <= Len(line), line[1 + 1].kind = "data" PROVE FALSE
          <6>1. 1 \in 1 .. Len(line')
            BY <1>0, <3>2, <5>1
          <6>2. 1 <= Len(line') /\ line'[1].kind = "data"
            BY <3>2, <5>1, <6>1
          <6> QED BY <4>2, <6>2 DEF Begins
        <5>2. 1 \in 1 .. Len(line)
          BY <1>0, <3>2
        <5> QED BY <3>5, <5>1, <5>2 DEF Bad
      <4>3. nretries' + Debt(line') < faults' \/ Begins(line')
        BY <1>0, <1>1, <2>1, <3>1, <3>3, <4>2
      <4> QED BY <1>1, <2>1, <3>1, <3>3, <3>4, <4>1, <4>3 DEF IdiveInv
    <3>6. CASE line[1].kind # "start"
      <4>1. part' = 1
        BY <3>1, <3>2, <3>6
      <4>2. nretries + Debt(line) < faults \/ Starts(line)
        BY <2>1, <2>2 DEF IdiveInv
      <4>3. nretries' + Debt(line') < faults' \/ Starts(line')
        BY <1>0, <2>1, <3>1, <3>3, <3>6, <4>2
      <4> QED BY <1>1, <2>1, <3>1, <3>3, <3>4, <4>1, <4>3 DEF IdiveInv
    <3> QED BY <3>5, <3>6
  <2> QED BY <2>3, <2>4
<1>13. CASE Pause
  <2>1. /\ pc' = "send" /\ UNCHANGED <<faults, nretries, status>>
        /\ line' \in {line, line \o late} /\ late' \in {<<>>, late}
    BY <1>13, IdiveFacts DEF Pause, Purged
  <2>2. Known(late') /\ Bad(late') = {}
    <3>1. Known(<<>>) /\ Bad(<<>>) = {}
      BY DEF Known, Bad
    <3> QED BY <1>1, <2>1, <3>1
  <2>3. Known(line')
    BY <1>0, <1>1, <2>1, KnownConcat
  <2>4. Debt(line') \in Nat /\ Debt(line') <= Debt(line)
    <3>1. Bad(late) \subseteq {1} /\ line \o late \in Seq(Parts)
      BY <1>0, <1>1, ConcatProperties
    <3>2. Debt(line \o late) \in Nat /\ Debt(line \o late) <= Debt(line)
      BY <1>0, <1>1, <3>1, DebtFacts, DebtConcat
    <3>3. CASE line' = line
      BY <1>0, <3>3
    <3>4. CASE line' = line \o late
      BY <3>2, <3>4
    <3> QED BY <2>1, <3>3, <3>4
  <2>5. nretries' + Debt(line') <= faults'
    BY <1>0, <1>1, <2>1, <2>4
  <2> QED BY <1>1, <2>1, <2>2, <2>3, <2>5 DEF IdiveInv
<1>14. CASE Arrive
  BY <1>0, <1>14 DEF Arrive
<1> QED BY <1>2, <1>3, <1>4, <1>5, <1>9, <1>11, <1>12, <1>13, <1>14 DEF Next, Finished

\* The invariant of the retries.
THEOREM RecoverInvariance == ASSUME TransferAssumption PROVE Spec => []RecoverInv
<1>1. Init => RecoverInv
  <2> SUFFICES ASSUME Init PROVE RecoverInv
    OBVIOUS
  <2>1. CreditInv /\ LockstepInv /\ FreeInv /\ EmptyInv
    BY DEF Init, CreditInv, LockstepInv, FreeInv, EmptyInv
  <2>2. line = <<>> /\ late = <<>> /\ faults = 0 /\ nretries = 0 /\ pc = "idle" /\ status = "none"
    BY DEF Init
  <2>3. Known(<<>>) /\ Bad(<<>>) = {} /\ Debt(<<>>) = 0
    <3>1. Known(<<>>) /\ Bad(<<>>) = {}
      BY DEF Known, Bad
    <3> QED BY <3>1, FS_EmptySet DEF Debt
  <2>4. IdiveInv
    BY <2>2, <2>3 DEF IdiveInv
  <2> QED BY <2>1, <2>4 DEF RecoverInv
<1>2. ASSUME IInv, RecoverInv, [Next]_vars PROVE RecoverInv'
  <2> SUFFICES ASSUME Within'
               PROVE  /\ p' \in Lockstep => CreditInv' /\ LockstepInv' /\ EmptyInv'
                      /\ p' \in Free => CreditInv' /\ FreeInv' /\ EmptyInv'
                      /\ p' = divesystem_idive => IdiveInv'
    BY DEF RecoverInv, Lockstep, Free, divesystem_idive
  <2>1. TypeInv /\ CountInv /\ p' = p /\ Within
    BY <1>2, WithinFacts DEF IInv
  <2> QED BY <1>2, <2>1, LockstepStep, FreeStep, IdiveStep DEF RecoverInv
<1>3. IInv /\ RecoverInv /\ [Next]_vars => RecoverInv'
  BY <1>2
<1> QED BY <1>1, <1>3, Invariance, PTL DEF Spec

\* The retries of xxx_transfer are enough: as long as no more answers go wrong
\* than the driver has retries, and only in the ways it tolerates, no download
\* of the session fails.
THEOREM RetriesRecover == ASSUME TransferAssumption PROVE Spec => []Recovers
<1>1. ASSUME IInv, RecoverInv PROVE Recovers
  <2>1. p \in Lockstep \/ p \in Free \/ p = divesystem_idive
    BY <1>1 DEF IInv, TypeInv, Protocols, Lockstep, Free
  <2> QED BY <1>1, <2>1 DEF RecoverInv, CreditInv, IdiveInv, Within, Recovers
<1>2. IInv /\ RecoverInv => Recovers
  BY <1>1
<1> QED BY <1>2, Invariance, RecoverInvariance, PTL

-----------------------------------------------------------------------------
(* The pages of an Oceanic Atom 2 *)

CONSTANTS PAGESIZE, Big, HIGHMEM, Memory

VARIABLES layout, mem, cached, cache, address, size, nbytes

\* The calls, their data and their results have the names they have above.
Pages == INSTANCE Atom2Pages

(* Arithmetic of pages *)

\* Division with remainder, and the only remainder there is.
LEMMA DivMod ==
  \A a \in Int, ps \in Nat \ {0} :
    a \div ps \in Int /\ a % ps \in 0 .. ps - 1 /\ a = ps * (a \div ps) + (a % ps)
  BY SMT

LEMMA ModUnique == \A k, r \in Int, ps \in Nat \ {0} : r \in 0 .. ps - 1 => (k * ps + r) % ps = r
  BY SMT

LEMMA ModLap == \A ps \in Nat \ {0} : ps % ps = 0 /\ 0 % ps = 0
  BY SMT

LEMMA Distribute ==
  \A k, m, ps \in Int : (k + m) * ps = k * ps + m * ps /\ (k - m) * ps = k * ps - m * ps
  BY SMT

\* A number without a remainder is a multiple.
LEMMA Multiple ==
  ASSUME NEW x \in Int, NEW ps \in Nat \ {0}, x % ps = 0
  PROVE  \E k \in Int : x = k * ps
<1>1. x \div ps \in Int /\ x = ps * (x \div ps) + 0
  BY DivMod
<1> DEFINE k == x \div ps
<1> HIDE DEF k
<1>2. k \in Int /\ x = ps * k
  BY <1>1 DEF k
<1>3. ps * k = k * ps
  BY <1>2, SMT
<1> QED BY <1>2, <1>3

\* The page behind an aligned address is aligned.
LEMMA AlignedNext ==
  ASSUME NEW x \in Int, NEW ps \in Nat \ {0}, x % ps = 0
  PROVE  (x + ps) % ps = 0
<1>1. PICK k \in Int : x = k * ps
  BY Multiple
<1>2. (k + 1) * ps = k * ps + 1 * ps /\ 1 * ps = ps /\ k + 1 \in Int /\ k * ps \in Int
  BY Distribute
<1> DEFINE m == k + 1
<1>3. m \in Int /\ x + ps = m * ps + 0
  BY <1>1, <1>2
<1> HIDE DEF m
<1>4. 0 \in Int /\ 0 \in 0 .. ps - 1
  OBVIOUS
<1>5. (m * ps + 0) % ps = 0
  BY <1>3, <1>4, ModUnique, Zenon
<1> QED BY <1>3, <1>5

\* Distinct aligned addresses are at least a page apart.
LEMMA AlignedGap ==
  ASSUME NEW x \in Int, NEW y \in Int, NEW ps \in Nat \ {0}, x % ps = 0, y % ps = 0, x < y
  PROVE  x + ps <= y
<1>1. PICK k \in Int : x = k * ps
  BY Multiple
<1>2. PICK m \in Int : y = m * ps
  BY Multiple
<1>3. (m - k) * ps = m * ps - k * ps /\ k * ps \in Int /\ m * ps \in Int
  BY Distribute
<1>4. m - k >= 1
  <2> SUFFICES ASSUME m - k <= 0 PROVE FALSE
    OBVIOUS
  <2>1. PICK e \in Nat : m - k = 0 - e
    BY k - m \in Nat /\ m - k = 0 - (k - m)
  <2>2. (0 - e) * ps = 0 * ps - e * ps /\ 0 * ps = 0 /\ e * ps \in Int
    BY Distribute
  <2>3. e * ps >= 0
    BY SMT
  <2> QED BY <1>1, <1>2, <1>3, <2>1, <2>2, <2>3
<1>5. PICK d \in Nat : m - k = d + 1
  BY <1>4, m - k - 1 \in Nat /\ m - k = (m - k - 1) + 1
<1>6. (d + 1) * ps = d * ps + 1 * ps /\ 1 * ps = ps /\ d * ps \in Int
  BY Distribute
<1>7. d * ps >= 0
  BY SMT
<1> QED BY <1>1, <1>2, <1>3, <1>5, <1>6, <1>7

LEMMA Associate == \A x, y, z \in Int : (x * y) * z = x * (y * z)
  BY SMT

LEMMA ProductFacts ==
  ASSUME NEW b \in Nat \ {0}, NEW ps \in Nat \ {0}
  PROVE  b * ps \in Nat \ {0} /\ ps <= b * ps /\ 1 * ps = ps
<1>1. b * ps \in Int /\ 1 * ps = ps
  BY SMT
<1>2. PICK c \in Nat : b = c + 1
  BY b - 1 \in Nat /\ b = (b - 1) + 1
<1>3. b * ps = c * ps + ps
  BY <1>2, 1 * ps = ps, Distribute
<1>4. c * ps >= 0
  BY SMT
<1> QED BY <1>1, <1>3, <1>4

\* A multiple of a big page is a multiple of a page.
LEMMA AlignedFiner ==
  ASSUME NEW x \in Int, NEW b \in Nat \ {0}, NEW ps \in Nat \ {0}, x % (b * ps) = 0
  PROVE  x % ps = 0
<1> DEFINE q == x \div (b * ps)
<1>0. b * ps \in Nat \ {0}
  BY ProductFacts
<1>1. q \in Int /\ x = (b * ps) * q + 0
  BY <1>0, DivMod
<1> HIDE DEF q
<1>2. (b * ps) * q = (q * b) * ps /\ q * b \in Int
  BY <1>1, SMT
<1>3. x = (q * b) * ps + 0
  BY <1>1, <1>2
<1> DEFINE k == q * b
<1> HIDE DEF k
<1>4. k \in Int /\ x = k * ps + 0
  BY <1>2, <1>3 DEF k
<1>5. 0 \in Int /\ 0 \in 0 .. ps - 1
  OBVIOUS
<1>6. (k * ps + 0) % ps = 0
  BY <1>4, <1>5, ModUnique, Zenon
<1> QED BY <1>4, <1>6

\* The page an address x lies in, of pages of p bytes from h on.
LEMMA PageFacts ==
  ASSUME NEW ps \in Nat \ {0}, NEW x \in Nat, NEW h \in Nat, h <= x, h % ps = 0
  PROVE  /\ (x - h) \div ps \in Nat
         /\ x % ps \in 0 .. ps - 1
         /\ x = (h + ((x - h) \div ps) * ps) + (x % ps)
         /\ (h + ((x - h) \div ps) * ps) % ps = 0
<1> DEFINE d == (x - h) \div ps
           r == (x - h) % ps
<1>1. d \in Int /\ r \in 0 .. ps - 1 /\ x - h = ps * d + r
  BY DivMod
<1> HIDE DEF d, r
<1>2. ps * d = d * ps /\ d * ps \in Int
  BY <1>1, SMT
<1>3. d >= 0
  <2> SUFFICES ASSUME d <= -1 PROVE FALSE
    BY <1>1
  <2>1. PICK e \in Nat : d = -1 - e
    BY <1>1, -1 - d \in Nat /\ d = -1 - (-1 - d)
  <2>2. d * ps = (-1) * ps - e * ps /\ (-1) * ps = -ps
    BY <2>1, Distribute
  <2>3. e * ps >= 0
    BY SMT
  <2> QED BY <1>1, <1>2, <2>2, <2>3
<1>4. h = ps * (h \div ps) + 0 /\ h \div ps \in Int
  BY DivMod
<1> DEFINE g == h \div ps
<1>5. g \in Int /\ h = g * ps
  BY <1>4, SMT
<1> HIDE DEF g
<1> DEFINE k == g + d
<1>6. k \in Int /\ k * ps = h + d * ps
  BY <1>1, <1>5, Distribute
<1> HIDE DEF k
<1>7. 0 \in Int /\ 0 \in 0 .. ps - 1 /\ r \in Int
  BY <1>1
<1>8. (k * ps + 0) % ps = 0 /\ (k * ps + r) % ps = r
  BY <1>1, <1>6, <1>7, ModUnique, Zenon
<1>9. k * ps + 0 = h + d * ps /\ k * ps + r = x /\ x = (h + d * ps) + r
  BY <1>1, <1>2, <1>6
<1>10. (h + d * ps) % ps = 0 /\ x % ps = r
  BY <1>8, <1>9
<1>11. d \in Nat
  BY <1>1, <1>3
<1> DEFINE y == x % ps
<1>12. y = r
  BY <1>10
<1> HIDE DEF y
<1>13. y \in 0 .. ps - 1 /\ x = (h + d * ps) + y
  BY <1>1, <1>9, <1>12
<1> QED BY <1>10, <1>11, <1>13, Zenon DEF d, y

-----------------------------------------------------------------------------
(* The inductive invariant *)

Cells == [at : Int, by : Nat]

\* Values, and the room for what a call has left to transfer.
PagesTypeInv ==
  /\ layout \in {[bigpage |-> 1, highmem |-> 0], [bigpage |-> Big, highmem |-> 0],
                 [bigpage |-> Big, highmem |-> HIGHMEM]}
  /\ mem \in [0 .. Memory - 1 -> Nat]
  /\ cached \in [page : Int, highmem : Int]
  /\ cache \in Seq(Cells) /\ Len(cache) <= Big * PAGESIZE
  /\ pc \in {"idle", "read", "prepare", "write"}
  /\ status \in {"none", "SUCCESS", "INVALIDARGS", "TIMEOUT", "CANCELLED"}
  /\ call \in Nat /\ size \in Nat /\ nbytes \in 0 .. size /\ address \in 0 .. Memory
  /\ pc # "idle" => address + (size - nbytes) <= Memory

\* A write goes on in whole pages, and nothing is in the cache meanwhile.
WriteInv ==
  pc \in {"prepare", "write"} =>
    /\ nbytes % PAGESIZE = 0 /\ size % PAGESIZE = 0
    /\ pc = "write" => nbytes < size
    /\ cached.page = Pages!INVALID

\* The size and the first address of the page in the cache.
CachedSize == IF cached.highmem # 0 THEN Big * PAGESIZE ELSE layout.bigpage * PAGESIZE
CachedBase == cached.highmem + cached.page * CachedSize

\* A page in the cache is what the memory holds there now.
CacheInv ==
  cached.page # Pages!INVALID =>
    /\ Len(cache) = CachedSize
    /\ \A i \in 1 .. CachedSize : cache[i] = Pages!Cell(CachedBase + i - 1)

\* What a read has so far, in the order of the addresses.
DataInv ==
  /\ data \in Seq(Cells)
  /\ pc \in {"prepare", "write"} => data = <<>>
  /\ Len(data) = 0 \/ Len(data) = nbytes
  /\ pc = "read" => Len(data) = nbytes
  /\ Pages!DataIntact

PagesInv == PagesTypeInv /\ WriteInv /\ CacheInv /\ DataInv

LEMMA PagesInit == ASSUME Pages!PagesAssumption, Pages!Init PROVE PagesInv
<1>1. Big * PAGESIZE \in Nat
  BY ProductFacts DEF Pages!PagesAssumption
<1>2. cache \in Seq(Cells) /\ Len(cache) = Big * PAGESIZE
  <2> DEFINE c == [at |-> Pages!INVALID, by |-> 0]
  <2>1. c \in Cells
    BY DEF Cells, Pages!INVALID
  <2>2. cache = [i \in 1 .. Big * PAGESIZE |-> c]
    BY DEF Pages!Init
  <2> HIDE DEF c
  <2> QED BY <1>1, <2>1, <2>2
<1>3. data = <<>> /\ data \in Seq(Cells) /\ Len(data) = 0 /\ DOMAIN data = {}
  BY EmptySeq DEF Pages!Init
<1>4. PagesTypeInv
  <2>1. mem \in [0 .. Memory - 1 -> Nat]
    BY DEF Pages!Init
  <2>2. cached \in [page : Int, highmem : Int]
    BY DEF Pages!Init, Pages!INVALID
  <2>3. Len(cache) <= Big * PAGESIZE
    BY <1>1, <1>2
  <2>4. Memory \in Nat /\ 0 \in 0 .. Memory
    BY DEF Pages!PagesAssumption
  <2>5. cache \in Seq(Cells) /\ Len(cache) <= Big * PAGESIZE
    BY <1>2, <2>3
  <2>6. layout \in {[bigpage |-> 1, highmem |-> 0], [bigpage |-> Big, highmem |-> 0],
                    [bigpage |-> Big, highmem |-> HIGHMEM]}
    BY DEF Pages!Init
  <2>7. /\ pc = "idle" /\ status = "none"
        /\ call \in Nat /\ size \in Nat /\ nbytes \in 0 .. size /\ address \in 0 .. Memory
    BY <2>4 DEF Pages!Init
  <2> QED BY <2>1, <2>2, <2>5, <2>6, <2>7, Zenon DEF PagesTypeInv
<1>5. WriteInv /\ CacheInv
  BY DEF Pages!Init, WriteInv, CacheInv
<1>6. DataInv
  BY <1>3 DEF Pages!Init, DataInv, Pages!DataIntact
<1> QED BY <1>4, <1>5, <1>6 DEF PagesInv

\* The page that is asked for: it holds the address, and lies in the memory.
LEMMA AskedFacts ==
  ASSUME Pages!PagesAssumption, PagesTypeInv, address < Memory
  PROVE  /\ Pages!Pagesize \in Nat \ {0} /\ Pages!Pagesize <= Big * PAGESIZE
         /\ Pages!Highmem \in Nat /\ Pages!Page \in Nat
         /\ address % Pages!Pagesize \in 0 .. Pages!Pagesize - 1
         /\ address = (Pages!Highmem + Pages!Page * Pages!Pagesize) + (address % Pages!Pagesize)
         /\ Pages!Highmem + Pages!Page * Pages!Pagesize \in Nat
         /\ (Pages!Highmem + Pages!Page * Pages!Pagesize) + Pages!Pagesize <= Memory
<1> DEFINE h == Pages!Highmem
           ps == Pages!Pagesize
           d == (address - h) \div ps
           b == Big * PAGESIZE
<1>1. b \in Nat \ {0} /\ PAGESIZE \in Nat \ {0} /\ PAGESIZE <= b /\ 1 * PAGESIZE = PAGESIZE
      /\ Big \in Nat \ {0}
  BY ProductFacts DEF Pages!PagesAssumption
<1>2. HIGHMEM \in Nat /\ Memory \in Nat /\ address \in Nat /\ HIGHMEM % b = 0 /\ Memory % b = 0
  BY DEF Pages!PagesAssumption, PagesTypeInv
<1>3. HIGHMEM % PAGESIZE = 0 /\ Memory % PAGESIZE = 0
  <2>1. HIGHMEM \in Int /\ Memory \in Int
    BY <1>2
  <2> QED BY <1>1, <1>2, <2>1, AlignedFiner, Zenon
<1> HIDE DEF b
<1>4. /\ ps = b \/ (ps = PAGESIZE /\ h = 0)
      /\ h = 0 \/ (h = HIGHMEM /\ h <= address)
  <2>1. CASE layout = [bigpage |-> 1, highmem |-> 0]
    BY <1>1, <2>1 DEF Pages!Highmem, Pages!Pagesize
  <2>2. CASE layout = [bigpage |-> Big, highmem |-> 0]
    BY <2>2 DEF Pages!Highmem, Pages!Pagesize, b
  <2>3. CASE layout = [bigpage |-> Big, highmem |-> HIGHMEM]
    BY <2>3 DEF Pages!Highmem, Pages!Pagesize, b
  <2> QED BY <2>1, <2>2, <2>3 DEF PagesTypeInv
<1> HIDE DEF h, ps
<1>5. ps \in Nat \ {0} /\ ps <= b /\ h \in Nat /\ h <= address
  BY <1>1, <1>2, <1>4
<1>6. h % ps = 0 /\ Memory % ps = 0
  <2>1. 0 % ps = 0
    BY <1>5, ModLap
  <2> QED BY <1>2, <1>3, <1>4, <2>1
<1>7. /\ d \in Nat /\ address % ps \in 0 .. ps - 1
      /\ address = (h + d * ps) + (address % ps)
      /\ (h + d * ps) % ps = 0
  BY <1>2, <1>5, <1>6, PageFacts
<1> HIDE DEF d
<1>8. h + d * ps \in Nat
  <2>1. d * ps \in Nat
    BY <1>5, <1>7, SMT
  <2> QED BY <1>5, <2>1
<1> DEFINE base == h + d * ps
<1>9. base < Memory
  <2>1. base \in Nat /\ address % ps \in Nat /\ address = base + (address % ps)
    BY <1>5, <1>7, <1>8
  <2> HIDE DEF base
  <2>2. \A r \in Nat : address = base + r => base < Memory
    <3>1. base \in Nat
      BY <2>1
    <3> QED BY <1>2, <3>1
  <2> QED BY <2>1, <2>2
<1>10. base + ps <= Memory
  <2>1. base \in Int /\ Memory \in Int /\ base % ps = 0
    BY <1>2, <1>7, <1>8
  <2> HIDE DEF base
  <2> QED BY <1>5, <1>6, <1>9, <2>1, AlignedGap, Zenon
<1>11. Pages!Page = d
  BY DEF Pages!Page, d, h, ps
<1> QED BY <1>5, <1>7, <1>8, <1>10, <1>11, Zenon DEF h, ps, b

-----------------------------------------------------------------------------
(* The steps *)

\* A step that changes neither the memory nor the cache keeps what is in it.
LEMMA CacheKept ==
  ASSUME CacheInv, UNCHANGED <<Pages!device, cached, cache>> PROVE CacheInv'
BY DEF CacheInv, CachedSize, CachedBase, Pages!Cell, Pages!device

\* Without a page in the cache there is nothing to be kept.
LEMMA CacheEmpty == ASSUME cached'.page = Pages!INVALID PROVE CacheInv'
BY DEF CacheInv

\* Nothing has been read yet.
LEMMA DataEmpty ==
  ASSUME data' = <<>>, pc' = "read" => nbytes' = 0 PROVE DataInv'
<1>1. data' \in Seq(Cells) /\ Len(data') = 0 /\ DOMAIN data' = {}
  BY EmptySeq
<1> QED BY <1>1 DEF DataInv, Pages!DataIntact

\* The result of a call that ends is intact as long as the memory is.
LEMMA DataKept ==
  ASSUME DataInv, UNCHANGED <<Pages!device, address, nbytes, data>>,
         pc' = "idle" \/ pc' = pc \/ (pc = "prepare" /\ pc' = "write")
  PROVE  DataInv'
<1>1. Pages!DataIntact'
  BY DEF DataInv, Pages!DataIntact, Pages!Cell, Pages!device
<1> QED BY <1>1 DEF DataInv

\* What a call leaves of the values of the others.
LEMMA CallFacts ==
  ASSUME Pages!PagesAssumption, PagesTypeInv, NEW a \in Nat, NEW n \in Nat, a + n <= Memory, Pages!Call(a, n),
         pc' \in {"read", "prepare"}, cached' \in [page : Int, highmem : Int]
  PROVE  PagesTypeInv' /\ DataInv'
<1>0. Memory \in Nat
  BY DEF Pages!PagesAssumption
<1>1. address' = a /\ size' = n /\ nbytes' = 0 /\ data' = <<>> /\ status' = "none"
      /\ call' = call + 1 /\ UNCHANGED <<layout, mem, cache>>
  BY DEF Pages!Call, Pages!device
<1>2. DataInv'
  BY <1>1, DataEmpty
<1>3. /\ call' \in Nat /\ size' \in Nat /\ nbytes' \in 0 .. size' /\ address' \in 0 .. Memory
      /\ address' + (size' - nbytes') <= Memory
  BY <1>0, <1>1 DEF PagesTypeInv
<1>4. PagesTypeInv'
  BY <1>1, <1>3 DEF PagesTypeInv
<1> QED BY <1>2, <1>4

LEMMA ReadPageStep == ASSUME Pages!PagesAssumption, PagesInv, Pages!ReadPage PROVE PagesInv'
<1> DEFINE ps == Pages!Pagesize
           h == Pages!Highmem
           g == Pages!Page
           base == h + g * ps
<1>0. PagesTypeInv /\ WriteInv /\ CacheInv /\ DataInv
  BY DEF PagesInv
<1>1. address < Memory
  BY <1>0 DEF PagesTypeInv, Pages!ReadPage, Pages!PagesAssumption
<1>2. /\ ps \in Nat \ {0} /\ ps <= Big * PAGESIZE /\ h \in Nat /\ g \in Nat
      /\ base \in Nat /\ base + ps <= Memory
  BY <1>0, <1>1, AskedFacts
<1>3. /\ cache' = Pages!Answered /\ cached' = [page |-> g, highmem |-> h]
      /\ UNCHANGED <<layout, mem, call, pc, address, size, nbytes, data, status>>
      /\ pc = "read"
  BY DEF Pages!ReadPage, Pages!device
<1>4. Pages!Answered = [i \in 1 .. ps |-> Pages!Cell(base + i - 1)]
  <2>1. (IF h # 0 THEN h + Pages!Number * Big * PAGESIZE ELSE Pages!Number * PAGESIZE) = base
    <3>1. Big \in Int /\ PAGESIZE \in Int /\ layout.bigpage \in Int
      BY <1>0 DEF Pages!PagesAssumption, PagesTypeInv
    <3>2. CASE h # 0
      <4>1. Pages!Number = g /\ ps = Big * PAGESIZE
        BY <3>2 DEF Pages!Number, Pages!Pagesize
      <4>2. (g * Big) * PAGESIZE = g * (Big * PAGESIZE)
        BY <1>2, <3>1, Associate
      <4> QED BY <3>2, <4>1, <4>2
    <3>3. CASE h = 0
      <4>1. Pages!Number = g * layout.bigpage /\ ps = layout.bigpage * PAGESIZE
        BY <3>3 DEF Pages!Number, Pages!Pagesize
      <4>2. (g * layout.bigpage) * PAGESIZE = g * (layout.bigpage * PAGESIZE)
        BY <1>2, <3>1, Associate
      <4>3. base = g * ps
        BY <1>2, <3>3
      <4> QED BY <3>3, <4>1, <4>2, <4>3
    <3> QED BY <3>2, <3>3
  <2> HIDE DEF base
  <2> QED BY <2>1 DEF Pages!Answered
<1> HIDE DEF ps, h, g, base
<1>5. ASSUME NEW i \in 1 .. ps PROVE Pages!Cell(base + i - 1) \in Cells
  <2>1. base + i - 1 \in 0 .. Memory - 1
    BY <1>2 DEF Pages!PagesAssumption
  <2>2. mem[base + i - 1] \in Nat
    BY <1>0, <2>1 DEF PagesTypeInv
  <2> QED BY <2>1, <2>2 DEF Pages!Cell, Cells
<1>6. cache' \in Seq(Cells) /\ Len(cache') = ps /\ \A i \in 1 .. ps : cache'[i] = Pages!Cell(base + i - 1)
  BY <1>2, <1>3, <1>4, <1>5
<1>7. cached' \in [page : Int, highmem : Int] /\ cached'.page = g /\ cached'.highmem = h
  BY <1>2, <1>3
<1>8. Len(cache') <= Big * PAGESIZE
  BY <1>2, <1>6
<1>9. PagesTypeInv'
  BY <1>0, <1>3, <1>6, <1>7, <1>8 DEF PagesTypeInv
<1>10. CacheInv'
  <2>1. CachedSize' = ps
    BY <1>3, <1>7 DEF CachedSize, ps, h, Pages!Pagesize
  <2>2. CachedBase' = base
    BY <1>7, <2>1 DEF CachedBase, base
  <2>3. \A a : Pages!Cell(a)' = Pages!Cell(a)
    BY <1>3 DEF Pages!Cell
  <2> QED BY <1>6, <2>1, <2>2, <2>3 DEF CacheInv
<1>11. DataInv'
  BY <1>0, <1>3, DataKept DEF Pages!device
<1>12. WriteInv'
  BY <1>3 DEF WriteInv
<1> QED BY <1>9, <1>10, <1>11, <1>12 DEF PagesInv

LEMMA CopyStep == ASSUME Pages!PagesAssumption, PagesInv, Pages!Copy PROVE PagesInv'
<1> DEFINE ps == Pages!Pagesize
           h == Pages!Highmem
           g == Pages!Page
           base == h + g * ps
           offset == address % ps
           length == IF nbytes + ps - offset > size THEN size - nbytes ELSE ps - offset
           piece == SubSeq(cache, offset + 1, offset + length)
<1>0. PagesTypeInv /\ WriteInv /\ CacheInv /\ DataInv
  BY DEF PagesInv
<1>1. address < Memory
  BY <1>0 DEF PagesTypeInv, Pages!Copy, Pages!PagesAssumption
<1>2. /\ ps \in Nat \ {0} /\ h \in Nat /\ g \in Nat /\ base \in Nat
      /\ offset \in 0 .. ps - 1 /\ address = base + offset
  BY <1>0, <1>1, AskedFacts
<1>3. /\ pc = "read" /\ nbytes < size /\ cached.page = g /\ cached.highmem = h
      /\ data' = data \o piece /\ nbytes' = nbytes + length /\ address' = address + length
      /\ UNCHANGED <<layout, mem, cached, cache, call, pc, size, status>>
  BY DEF Pages!Copy, Pages!Hit, Pages!device
<1> HIDE DEF piece
<1>4. CachedSize = ps /\ CachedBase = base
  <2>1. CachedSize = ps
    BY <1>3 DEF CachedSize, Pages!Pagesize
  <2> QED BY <1>3, <2>1 DEF CachedBase
<1> HIDE DEF ps, h, g, base, offset
<1>5. Len(cache) = ps /\ \A i \in 1 .. ps : cache[i] = Pages!Cell(base + i - 1)
  BY <1>0, <1>2, <1>3, <1>4 DEF CacheInv, Pages!INVALID
<1>6. size \in Nat /\ nbytes \in Nat /\ address + (size - nbytes) <= Memory /\ address \in Nat
      /\ Memory \in Nat
  BY <1>0, <1>3 DEF PagesTypeInv, Pages!PagesAssumption
<1>7. length \in Nat /\ offset + length <= ps /\ nbytes + length <= size
  BY <1>2, <1>3, <1>6
<1>8. /\ cache \in Seq(Cells) /\ data \in Seq(Cells) /\ Len(data) = nbytes
      /\ \A i \in 1 .. nbytes : data[i] = Pages!Cell(address - nbytes + i - 1)
  <2>1. cache \in Seq(Cells) /\ data \in Seq(Cells) /\ Len(data) = nbytes
    BY <1>0, <1>3 DEF PagesTypeInv, DataInv
  <2>2. DOMAIN data = 1 .. nbytes
    BY <2>1, LenProperties
  <2> QED BY <1>0, <2>1, <2>2 DEF DataInv, Pages!DataIntact
<1> HIDE DEF length
<1>9. piece \in Seq(Cells) /\ Len(piece) = length
      /\ \A i \in 1 .. length : piece[i] = Pages!Cell(address + i - 1)
  <2>1. \A i \in offset + 1 .. offset + length : i \in 1 .. Len(cache)
    BY <1>2, <1>5, <1>7
  <2>2. \A i \in offset + 1 .. offset + length : cache[i] \in Cells
    BY <1>8, <2>1, ElementOfSeq
  <2>3. offset + 1 \in Int /\ offset + length \in Int
    BY <1>2, <1>7
  <2>4. /\ piece \in Seq(Cells)
        /\ Len(piece) = IF offset + 1 <= offset + length
                         THEN (offset + length) - (offset + 1) + 1 ELSE 0
        /\ \A i \in 1 .. (offset + length) - (offset + 1) + 1 :
             piece[i] = cache[(offset + 1) + i - 1]
    BY <2>2, <2>3, SubSeqProperties DEF piece
  <2>5. (offset + length) - (offset + 1) + 1 = length
        /\ (~(offset + 1 <= offset + length) => length = 0)
    BY <1>2, <1>7
  <2>6. ASSUME NEW i \in 1 .. length PROVE piece[i] = Pages!Cell(address + i - 1)
    <3>1. (offset + 1) + i - 1 \in 1 .. ps
      BY <1>2, <1>7
    <3>2. base + ((offset + 1) + i - 1) - 1 = address + i - 1
      BY <1>2
    <3>3. piece[i] = cache[(offset + 1) + i - 1]
      BY <2>4, <2>5
    <3>4. cache[(offset + 1) + i - 1] = Pages!Cell(base + ((offset + 1) + i - 1) - 1)
      BY <1>5, <3>1
    <3> QED BY <3>2, <3>3, <3>4
  <2> QED BY <2>4, <2>5, <2>6
<1>10. /\ data' \in Seq(Cells) /\ Len(data') = nbytes + length
       /\ \A i \in 1 .. nbytes + length :
            data'[i] = IF i <= nbytes THEN data[i] ELSE piece[i - nbytes]
  <2>1. /\ data \o piece \in Seq(Cells) /\ Len(data \o piece) = Len(data) + Len(piece)
        /\ \A i \in 1 .. Len(data) + Len(piece) :
             (data \o piece)[i] = IF i <= Len(data) THEN data[i] ELSE piece[i - Len(data)]
    BY <1>8, <1>9, ConcatProperties
  <2>2. Len(data) = nbytes /\ Len(piece) = length /\ data' = data \o piece
    BY <1>3, <1>8, <1>9
  <2> QED BY <2>1, <2>2
<1>11. ASSUME NEW i \in DOMAIN data' PROVE data'[i] = Pages!Cell(address - nbytes + i - 1)'
  <2>1. i \in 1 .. nbytes + length
    BY <1>10, LenProperties
  <2>2. address' - nbytes' + i - 1 = address - nbytes + i - 1
    BY <1>3, <1>6, <1>7, <2>1
  <2>3. \A a : [at |-> a, by |-> mem'[a]] = Pages!Cell(a)
    BY <1>3 DEF Pages!Cell
  <2>4. CASE i <= nbytes
    <3>1. i \in 1 .. nbytes
      BY <1>6, <2>1, <2>4
    <3> QED BY <1>8, <1>10, <2>1, <2>2, <2>3, <2>4, <3>1 DEF Pages!Cell
  <2>5. CASE ~(i <= nbytes)
    <3>1. i - nbytes \in 1 .. length /\ address + (i - nbytes) - 1 = address - nbytes + i - 1
      BY <1>6, <1>7, <2>1, <2>5
    <3>2. piece[i - nbytes] = Pages!Cell(address + (i - nbytes) - 1)
      BY <1>9, <3>1
    <3> QED BY <1>10, <2>1, <2>2, <2>3, <2>5, <3>1, <3>2 DEF Pages!Cell
  <2> QED BY <2>4, <2>5
<1>12. DataInv'
  BY <1>3, <1>10, <1>11 DEF DataInv, Pages!DataIntact
<1>13. CacheInv'
  BY <1>0, <1>3, CacheKept DEF Pages!device
<1>14. WriteInv'
  BY <1>3 DEF WriteInv
<1>15. nbytes' \in 0 .. size' /\ address' \in 0 .. Memory /\ address' + (size' - nbytes') <= Memory
  BY <1>3, <1>6, <1>7
<1>16. PagesTypeInv'
  BY <1>0, <1>3, <1>15 DEF PagesTypeInv
<1> QED BY <1>12, <1>13, <1>14, <1>16 DEF PagesInv

LEMMA WritePageStep == ASSUME Pages!PagesAssumption, PagesInv, Pages!WritePage PROVE PagesInv'
<1>0. PagesTypeInv /\ WriteInv /\ CacheInv /\ DataInv
  BY DEF PagesInv
<1>1. /\ pc = "write" /\ pc' = "prepare" /\ mem' = Pages!Stored
      /\ nbytes' = nbytes + PAGESIZE /\ address' = address + PAGESIZE
      /\ UNCHANGED <<layout, cached, cache, call, size, data, status>>
  BY DEF Pages!WritePage
<1>2. /\ nbytes % PAGESIZE = 0 /\ size % PAGESIZE = 0 /\ nbytes < size
      /\ cached.page = Pages!INVALID /\ data = <<>>
  BY <1>0, <1>1 DEF WriteInv, DataInv
<1>3. /\ nbytes \in Nat /\ size \in Nat /\ address \in Nat /\ Memory \in Nat
      /\ PAGESIZE \in Nat \ {0} /\ address + (size - nbytes) <= Memory
  BY <1>0, <1>1 DEF PagesTypeInv, Pages!PagesAssumption
<1>4. nbytes + PAGESIZE <= size
  <2>1. nbytes \in Int /\ size \in Int
    BY <1>3
  <2> QED BY <1>2, <1>3, <2>1, AlignedGap, Zenon
<1>5. (nbytes + PAGESIZE) % PAGESIZE = 0
  <2>1. nbytes \in Int
    BY <1>3
  <2> QED BY <1>2, <1>3, <2>1, AlignedNext, Zenon
<1>6. mem' \in [0 .. Memory - 1 -> Nat]
  BY <1>0, <1>1 DEF PagesTypeInv, Pages!Stored
<1>7. nbytes' \in 0 .. size' /\ address' \in 0 .. Memory /\ address' + (size' - nbytes') <= Memory
  BY <1>1, <1>3, <1>4
<1>8. PagesTypeInv'
  BY <1>0, <1>1, <1>6, <1>7 DEF PagesTypeInv
<1>9. WriteInv'
  BY <1>1, <1>2, <1>5 DEF WriteInv
<1>10. CacheInv'
  BY <1>1, <1>2, CacheEmpty
<1>11. DataInv'
  BY <1>1, <1>2, DataEmpty
<1> QED BY <1>8, <1>9, <1>10, <1>11 DEF PagesInv

LEMMA WriteFailsStep == ASSUME Pages!PagesAssumption, PagesInv, Pages!WriteFails PROVE PagesInv'
<1>0. PagesTypeInv /\ WriteInv /\ CacheInv /\ DataInv
  BY DEF PagesInv
<1>1. /\ pc \in {"prepare", "write"} /\ pc' = "idle" /\ status' \in {"TIMEOUT", "CANCELLED"}
      /\ mem' \in {mem, Pages!Stored}
      /\ UNCHANGED <<layout, cached, cache, call, address, size, nbytes, data>>
  BY DEF Pages!WriteFails, Pages!Return
<1>2. cached.page = Pages!INVALID /\ data = <<>>
  BY <1>0, <1>1 DEF WriteInv, DataInv
<1>3. mem' \in [0 .. Memory - 1 -> Nat]
  BY <1>0, <1>1 DEF PagesTypeInv, Pages!Stored
<1>4. PagesTypeInv'
  BY <1>0, <1>1, <1>3 DEF PagesTypeInv
<1>5. WriteInv'
  BY <1>1 DEF WriteInv
<1>6. CacheInv' /\ DataInv'
  BY <1>1, <1>2, CacheEmpty, DataEmpty
<1> QED BY <1>4, <1>5, <1>6 DEF PagesInv

LEMMA PagesNext == ASSUME Pages!PagesAssumption, PagesInv, [Pages!Next]_(Pages!vars) PROVE PagesInv'
<1>0. PagesTypeInv /\ WriteInv /\ CacheInv /\ DataInv
  BY DEF PagesInv
<1>1. CASE Pages!oceanic_atom2_device_read
  <2>0. PICK a \in 0 .. Memory - 1 : \E n \in 1 .. Memory - a :
          Pages!Call(a, n) /\ Pages!Aligned(a, n) /\ pc' = "read" /\ UNCHANGED cached
    BY <1>1 DEF Pages!oceanic_atom2_device_read
  <2>1. PICK n \in 1 .. Memory - a :
          Pages!Call(a, n) /\ Pages!Aligned(a, n) /\ pc' = "read" /\ UNCHANGED cached
    BY <2>0
  <2>2. a \in Nat /\ n \in Nat /\ a + n <= Memory
    BY DEF Pages!PagesAssumption
  <2>3. PagesTypeInv' /\ DataInv'
    BY <1>0, <2>1, <2>2, CallFacts DEF PagesTypeInv
  <2>4. CacheInv'
    BY <1>0, <2>1, CacheKept DEF Pages!Call
  <2>5. WriteInv'
    BY <2>1 DEF WriteInv
  <2> QED BY <2>3, <2>4, <2>5 DEF PagesInv
<1>2. CASE Pages!oceanic_atom2_device_write
  <2>0. PICK a \in 0 .. HIGHMEM - 1 : \E n \in 1 .. HIGHMEM - a :
          Pages!Call(a, n) /\ Pages!Aligned(a, n) /\ pc' = "prepare" /\ Pages!Invalidate
    BY <1>2 DEF Pages!oceanic_atom2_device_write
  <2>1. PICK n \in 1 .. HIGHMEM - a :
          Pages!Call(a, n) /\ Pages!Aligned(a, n) /\ pc' = "prepare" /\ Pages!Invalidate
    BY <2>0
  <2>2. HIGHMEM \in Nat /\ Memory \in Nat /\ HIGHMEM <= Memory /\ PAGESIZE \in Nat \ {0}
    BY DEF Pages!PagesAssumption
  <2>3. a \in Nat /\ n \in Nat /\ a + n <= Memory
    BY <2>2
  <2>4. cached' \in [page : Int, highmem : Int] /\ cached'.page = Pages!INVALID
    BY <2>1 DEF Pages!Invalidate, Pages!INVALID
  <2>5. PagesTypeInv' /\ DataInv'
    BY <1>0, <2>1, <2>3, <2>4, CallFacts
  <2>6. CacheInv'
    BY <2>4, CacheEmpty
  <2>7. WriteInv'
    <3>1. nbytes' = 0 /\ size' = n /\ pc' = "prepare" /\ n % PAGESIZE = 0 /\ 0 % PAGESIZE = 0
      BY <2>1, <2>2, ModLap DEF Pages!Call, Pages!Aligned
    <3> QED BY <2>4, <3>1 DEF WriteInv
  <2> QED BY <2>5, <2>6, <2>7 DEF PagesInv
<1>3. CASE Pages!InvalidArguments
  <2>1. /\ pc = "idle" /\ call' = call + 1 /\ status' = "INVALIDARGS" /\ data' = <<>>
        /\ UNCHANGED <<layout, mem, cached, cache, pc, address, size, nbytes>>
    BY <1>3 DEF Pages!InvalidArguments, Pages!device
  <2>2. PagesTypeInv'
    BY <1>0, <2>1 DEF PagesTypeInv
  <2>3. WriteInv' /\ CacheInv' /\ DataInv'
    BY <1>0, <2>1, CacheKept, DataEmpty DEF WriteInv, Pages!device
  <2> QED BY <2>2, <2>3 DEF PagesInv
<1>4. CASE Pages!ReadFails \/ Pages!Done
  <2>1. /\ pc' = "idle" /\ status' \in {"SUCCESS", "TIMEOUT", "CANCELLED"}
        /\ UNCHANGED <<Pages!device, cached, cache, call, address, size, nbytes, data>>
    BY <1>4 DEF Pages!ReadFails, Pages!Done, Pages!Return, Pages!CachedAfterFailure
  <2>2. PagesTypeInv'
    BY <1>0, <2>1 DEF PagesTypeInv, Pages!device
  <2>3. WriteInv' /\ CacheInv' /\ DataInv'
    BY <1>0, <2>1, CacheKept, DataKept DEF WriteInv
  <2> QED BY <2>2, <2>3 DEF PagesInv
<1>5. CASE Pages!Prepare
  <2>1. /\ pc = "prepare" /\ nbytes < size /\ pc' = "write"
        /\ UNCHANGED <<Pages!device, cached, cache, call, address, size, nbytes, data, status>>
    BY <1>5 DEF Pages!Prepare
  <2>2. PagesTypeInv'
    BY <1>0, <2>1 DEF PagesTypeInv, Pages!device
  <2>3. WriteInv' /\ CacheInv' /\ DataInv'
    BY <1>0, <2>1, CacheKept, DataKept DEF WriteInv
  <2> QED BY <2>2, <2>3 DEF PagesInv
<1>6. CASE Pages!Finished \/ UNCHANGED Pages!vars
  <2>1. UNCHANGED Pages!vars
    BY <1>6 DEF Pages!Finished
  <2>2. PagesTypeInv' /\ WriteInv'
    BY <1>0, <2>1 DEF PagesTypeInv, WriteInv, Pages!vars, Pages!device
  <2>3. CacheInv' /\ DataInv'
    BY <1>0, <2>1, CacheKept, DataKept DEF Pages!vars
  <2> QED BY <2>2, <2>3 DEF PagesInv
<1>7. CASE Pages!ReadPage
  BY <1>7, ReadPageStep
<1>8. CASE Pages!Copy
  BY <1>8, CopyStep
<1>9. CASE Pages!WritePage \/ Pages!WriteFails
  BY <1>9, WritePageStep, WriteFailsStep
<1> QED BY <1>1, <1>2, <1>3, <1>4, <1>5, <1>6, <1>7, <1>8, <1>9 DEF Pages!Next

-----------------------------------------------------------------------------

\* Every state of a session satisfies the inductive invariant.
THEOREM PagesInvariance == ASSUME Pages!PagesAssumption PROVE Pages!Spec => []PagesInv
<1>1. Pages!Init => PagesInv
  BY PagesInit
<1>2. PagesInv /\ [Pages!Next]_(Pages!vars) => PagesInv'
  BY PagesNext
<1> QED BY <1>1, <1>2, PTL DEF Pages!Spec

\* The types, for every memory: a read or a write never leaves the memory
\* nor transfers more than it was asked for, and an answer fits the cache.
THEOREM PagesTypeCorrect == ASSUME Pages!PagesAssumption PROVE Pages!Spec => []Pages!TypeOK
<1>1. ASSUME PagesInv PROVE Pages!TypeOK
  <2>1. Len(data) <= size
    BY <1>1 DEF PagesInv, PagesTypeInv, DataInv
  <2> QED BY <1>1, <2>1 DEF PagesInv, PagesTypeInv, Pages!TypeOK
<1>2. PagesInv => Pages!TypeOK
  BY <1>1
<1> QED BY <1>2, PagesInvariance, PTL

\* What oceanic_atom2_device_read returns is what the memory holds now at
\* the addresses asked for, whether a page comes from the device or from
\* the cache, of the low memory or of the high one.
THEOREM ReadsIntact == ASSUME Pages!PagesAssumption PROVE Pages!Spec => []Pages!DataIntact
<1>1. PagesInv => Pages!DataIntact
  BY DEF PagesInv, DataInv
<1> QED BY <1>1, PagesInvariance, PTL
=============================================================================
