----------------------------- MODULE DiveParser -----------------------------
(***************************************************************************)
(* A parser object (parser.c, parser-private.h) over the bytes of one      *)
(* dive.  An application calls dc_parser_get_datetime, dc_parser_get_field *)
(* and dc_parser_samples_foreach in any order and as often as it likes;    *)
(* the modules that extend this one hold the parsers of the families.      *)
(*                                                                         *)
(* The bytes of a dive are not chosen in advance: the code only tells      *)
(* classes of bytes apart, a class is picked when the bytes are first      *)
(* looked at, and mem remembers it so that every later look sees the same. *)
(* Offsets, sizes and times are the real ones.  Depths, temperatures and   *)
(* the like are delivered as values of no further interest.                *)
(***************************************************************************)
EXTENDS Integers, Sequences, FiniteSets, TLC, SequencesExt

CONSTANT Unchecked   \* the parsers that also get dives cut where the code does not check

VARIABLES
    parser,   \* the family whose parser it is
    model,    \* the model of the family, where the code tells models apart
    size,     \* abstract->size
    mem,      \* offset -> class of the bytes there, for the bytes looked at
    call,     \* the call in progress: "none", "datetime", "field" or "samples"
    pc,       \* where in the call
    r,        \* the local variables of the call
    cache,    \* the fields of the parser object that outlive a call
    out,      \* what the callback has been given during the call
    inside,   \* every byte read so far belongs to the dive
    ans,      \* the last answers: the fields and a complete enumeration
    status    \* what the last call returned

vars == <<parser, model, size, mem, call, pc, r, cache, out, inside, ans, status>>

Unsupported == -2     \* DC_STATUS_UNSUPPORTED for this field
Stored == -3          \* a dive time copied from the header of the dive
Wrapped == -4         \* a negative dive time in an unsigned integer
NoSamples == [n |-> 0, time |-> -1, back |-> FALSE, orphan |-> FALSE,
              gas |-> -1, tank |-> -1]
NoRun    == [status |-> "none", samples |-> NoSamples]
NoFields == [status |-> "none", gas |-> -1, tank |-> -1, divetime |-> Stored]

\* What a get_field call finds: the two counts and the dive time.
Fields(g, t, d) == [status |-> "ok", gas |-> g, tank |-> t, divetime |-> d]
Failed(st) == [NoFields EXCEPT !.status = st]
DataFormat == Failed("dataformat")

\* The lengths of dives: those the parser copes with, and those at which it
\* reads a header or a record without comparing its length with the size.
Sizes(p, handled, cut) == handled \cup IF p \in Unchecked THEN cut ELSE {}

\* A parser for a dive of s bytes, with the object's own fields set to c.
Create(p, m, s, c) ==
    /\ parser = p /\ model = m /\ size = s /\ cache = c
    /\ mem = << >> /\ call = "none" /\ pc = "idle" /\ r = << >>
    /\ out = NoSamples /\ inside = TRUE /\ status = "ok"
    /\ ans = [fields |-> NoFields, run |-> NoRun]

-----------------------------------------------------------------------------
(* Bytes *)

\* The classes the bytes at offset o may still have, out of K.
Look(o, K) == IF o \in DOMAIN mem THEN {mem[o]} ELSE K

\* A class with a parameter, and the classes without one.
Class(k, v) == [k |-> k, v |-> v]
Plain(K) == {Class(k, 0) : k \in K}

Touch(end) == inside' = (inside /\ end <= size)
\* The n bytes at offset o are read, and are of class x.
Read(o, n, x) == mem' = (o :> x) @@ mem /\ Touch(o + n)
\* Bytes are read whose value does not matter, up to offset end.
Skim(end) == Touch(end) /\ UNCHANGED mem
NoRead == UNCHANGED <<mem, inside>>

-----------------------------------------------------------------------------
(* Gas mixes and tanks collected in the order they are met *)

\* The index of x in the array a, one past the end if it is not there.
Find(a, x) == IF \E i \in DOMAIN a : a[i] = x
              THEN (CHOOSE i \in DOMAIN a : a[i] = x) - 1 ELSE Len(a)
Adding(a, x) == IF Find(a, x) = Len(a) THEN Append(a, x) ELSE a

-----------------------------------------------------------------------------
(* Samples *)

Time(t) == <<"time", t>>
Gas(i)  == <<"gas", i>>
Tank(i) == <<"tank", i>>
Value   == <<"value", 0>>
If(c, s) == IF c THEN <<s>> ELSE << >>

\* The callback is called for each of ss, after it has been given o.
Callback(o, ss) ==
    LET Of(k) == {i \in DOMAIN ss : ss[i][1] = k}
        times == Of("time")
    IN [n      |-> o.n + Len(ss),
        time   |-> IF times = {} THEN o.time ELSE ss[Max(times)][2],
        back   |-> \/ o.back
                   \/ \E i \in times : ss[i][2] < o.time
                   \/ \E i, j \in times : i < j /\ ss[j][2] < ss[i][2],
        orphan |-> o.orphan \/ (o.time = -1 /\ ss # << >> /\ 1 \notin times),
        gas    |-> Max({o.gas} \cup {ss[i][2] : i \in Of("gas")}),
        tank   |-> Max({o.tank} \cup {ss[i][2] : i \in Of("tank")})]

\* The samples ss are delivered; a pass made by get_field has no callback.
Deliver(ss) == \E s \in {ss} : out' = IF call = "samples" THEN Callback(out, s) ELSE out
Silent == UNCHANGED out

-----------------------------------------------------------------------------
(* Control *)

At(p, c, l) == parser = p /\ call = c /\ pc = l
Doing(p, l) == parser = p /\ call # "none" /\ pc = l

Same == UNCHANGED <<parser, model, size>>
Goto(l, regs) == pc' = l /\ r' = regs /\ Same /\ UNCHANGED <<call, status, ans>>
Leave(st) == call' = "none" /\ pc' = "idle" /\ r' = << >> /\ status' = st /\ Same

\* get_field returns.
Reply(f) == Leave(f.status) /\ ans' = [ans EXCEPT !.fields = f] /\ UNCHANGED out
\* samples_foreach returns, having delivered o.
Finish(st, o) ==
    /\ Leave(st)
    /\ ans' = [ans EXCEPT !.run = [status |-> st, samples |-> o]]
    /\ out' = NoSamples
\* samples_foreach returns after the samples ss.
FinishAfter(st, ss) == \E s \in {ss} : Finish(st, Callback(out, s))
\* get_datetime returns.
Tell(st) == Leave(st) /\ UNCHANGED <<ans, out>>
\* A pass over the samples ends: samples_foreach returns, or another call fails.
Abort(st) == CASE call = "samples" -> Finish(st, out) [] call = "field" -> Reply(Failed(st))
               [] OTHER -> Tell(st)

dc_parser_get_field ==
    /\ call = "none"
    /\ call' = "field" /\ pc' = "start"
    /\ UNCHANGED <<parser, model, size, mem, r, cache, out, inside, ans, status>>

dc_parser_samples_foreach ==
    /\ call = "none"
    /\ call' = "samples" /\ pc' = "start"
    /\ UNCHANGED <<parser, model, size, mem, r, cache, out, inside, ans, status>>

\* get_datetime of a parser that wants `need' bytes and reads up to `end'.
Datetime(p, need, end) ==
    /\ parser = p /\ call = "none"
    /\ IF size < need THEN NoRead /\ status' = "dataformat"
                      ELSE Skim(end) /\ status' = "ok"
    /\ UNCHANGED <<call, pc, r, cache, out, ans>> /\ Same

-----------------------------------------------------------------------------
(* Properties *)

ParserOK ==
    /\ call \in {"none", "datetime", "field", "samples"}
    /\ (call = "none") <=> (pc = "idle")
    /\ size \in Nat
    /\ out.n \in Nat
    /\ status \in {"ok", "dataformat", "unsupported", "nomemory"}

\* No call reads a byte beyond the end of the dive, where the code compares
\* lengths with the size: headers whose size depends on their own fields,
\* records with a length of their own, and records the end of the dive cuts.
\* The parsers in Unchecked also get the dives at which a comparison is missing
\* or too weak; each of them then reads beyond the end.
ReadsInsideDive == inside

\* What the callback of an enumeration relies on (output_xml.c opens an
\* element at each time and puts the other values into it): the first value
\* is a time, and time never runs backwards.
Ordered(o) == ~o.orphan /\ ~o.back
SamplesOrdered == Ordered(out) /\ Ordered(ans.run.samples)

\* A gas mix or a tank that a sample refers to is one get_field knows about.
IndicesKnown ==
    ans.fields.status = "ok" => \A o \in {out, ans.run.samples} :
        /\ o.gas >= 0 /\ ans.fields.gas # Unsupported => o.gas < ans.fields.gas
        /\ o.tank >= 0 /\ ans.fields.tank # Unsupported => o.tank < ans.fields.tank

\* The answers depend on the dive only: asking again, after whatever calls,
\* gives the same fields and the same samples.
AnswersStable ==
    [][/\ ans.fields.status # "none" => ans'.fields = ans.fields
       /\ ans.run.status # "none" => ans'.run = ans.run]_ans

\* Every call returns.
CallsReturn == (call # "none") ~> (call = "none")
=============================================================================
