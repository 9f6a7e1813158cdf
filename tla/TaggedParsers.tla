---------------------------- MODULE TaggedParsers ----------------------------
(***************************************************************************)
(* The parsers of Halcyon Symbios, Deep Six Excursion, Divesoft Freedom    *)
(* and Suunto EON Steel, whose dives are sequences of records that say     *)
(* what they are and how long they are.                                    *)
(***************************************************************************)
EXTENDS DiveParser

CONSTANTS
    SymbiosGases, SymbiosTanks,   \* NGASMIXES and NTANKS of halcyon_symbios
    ExcursionGases,               \* MAX_GASMIXES of deepsix_excursion
    FreedomGases,                 \* NGASMIXES and NTANKS of divesoft_freedom
    EonMaxGases                   \* MAXGASES of suunto_eonsteel

-----------------------------------------------------------------------------
(* Halcyon Symbios: everything, the date too, comes from a pass over the   *)
(* records.                                                                *)

SymbiosEmpty == [gases |-> << >>, tanks |-> << >>, start |-> FALSE]

halcyon_symbios_parser_create ==
    \E s \in {1, 8, 76, 84} :
        Create("halcyon_symbios", "", s, [cached |-> FALSE, found |-> SymbiosEmpty, divetime |-> 0])

SymbiosPass ==
    Goto("record", [off |-> 0, time |-> 0, timed |-> FALSE, deep |-> FALSE, interval |-> 0,
                    config |-> FALSE, end |-> FALSE, gas |-> -1, now |-> SymbiosEmpty])

halcyon_symbios_parser_get_datetime ==
    /\ parser = "halcyon_symbios" /\ NoRead /\ UNCHANGED <<cache, out, ans>>
    /\ \/ /\ call = "none" /\ ~cache.cached /\ call' = "datetime" /\ pc' = "start"
          /\ UNCHANGED <<r, status>> /\ Same
       \/ /\ (call = "none" /\ cache.cached) \/ (call = "datetime" /\ pc = "start" /\ cache.cached)
          /\ Leave(IF cache.found.start THEN "ok" ELSE "unsupported")
       \/ call = "datetime" /\ pc = "start" /\ ~cache.cached /\ SymbiosPass

halcyon_symbios_parser_get_field ==
    /\ At("halcyon_symbios", "field", "start") /\ NoRead /\ UNCHANGED cache
    /\ IF cache.cached
       THEN Reply(Fields(Len(cache.found.gases), Len(cache.found.tanks), cache.divetime))
       ELSE Silent /\ SymbiosPass

halcyon_symbios_parser_samples_foreach ==
    /\ At("halcyon_symbios", "samples", "start") /\ NoRead /\ UNCHANGED cache /\ Silent /\ SymbiosPass

\* Records with their lengths and arguments: the version, the header, a change
\* to a mix, a depth, another value of a sample, the configuration of mix v as
\* w, a pressure (of transmitter w with mix v), the footer, a record of unknown
\* type, one of a wrong length and one longer than the dive.
SymbiosRecord(k, len, v, w) == [k |-> k, len |-> len, v |-> v, w |-> w]
SymbiosRecords ==
    CASE r.off = 0 /\ size > 64 -> {SymbiosRecord("header", 64, 0, 0)}
      [] size = 84 -> {SymbiosRecord("config", 8, 1, 1), SymbiosRecord("config", 8, 1, 2),
                       SymbiosRecord("transmitter", 12, 1, 1), SymbiosRecord("transmitter", 12, 2, 2),
                       SymbiosRecord("tank", 8, 0, 3), SymbiosRecord("rebreather", 12, 0, 1),
                       SymbiosRecord("footer", 16, 0, 0), SymbiosRecord("depth", 4, 0, 0)}
      [] OTHER -> {SymbiosRecord("switch", 4, 0, 1), SymbiosRecord("switch", 4, 0, 2),
                   SymbiosRecord("depth", 4, 0, 0), SymbiosRecord("value", 4, 0, 0),
                   SymbiosRecord("version", 4, 0, 0), SymbiosRecord("unknown", 6, 0, 0),
                   SymbiosRecord("odd", 5, 0, 0), SymbiosRecord("zero", 0, 0, 0), SymbiosRecord("over", 255, 0, 0)}

\* The mix of the record: a change names the mix, a configuration a number too.
SymbiosMix(x) == IF x.k = "config" THEN <<x.v, x.w>> ELSE <<99, x.w>>
SymbiosById(gases, id) == Find([i \in DOMAIN gases |-> gases[i][1]], id)

\* The mix a record names, and what the table makes of it.
SymbiosGas(x, gases) ==
    CASE x.k = "switch" -> Find(gases, SymbiosMix(x))
      [] x.k \in {"config", "transmitter"} -> SymbiosById(gases, x.v)
      [] OTHER -> -1
\* A configuration must not redefine a mix.
SymbiosConflict(x, gases) ==
    LET i == SymbiosById(gases, x.v)
    IN x.k = "config" /\ i < Len(gases) /\ gases[i + 1] # SymbiosMix(x)
\* A tank is known by its transmitter and its use.
SymbiosTank(x) == <<x.k = "rebreather", x.w>>
\* The records that deliver no more than a value.
SymbiosPlain(x) == x.k \in {"depth", "value"}

halcyon_symbios_record(x) ==
    LET now    == r.now
        timed  == \/ ~r.timed /\ x.k \notin {"version", "header", "footer"}
                  \/ r.deep /\ x.k = "depth"
        time   == IF timed THEN r.time + r.interval ELSE r.time
        i      == SymbiosGas(x, now.gases)
        new    == x.k \in {"switch", "config"} /\ i = Len(now.gases)
        gases  == IF new THEN Append(now.gases, SymbiosMix(x)) ELSE now.gases
        byid   == x.k = "transmitter" /\ r.config /\ r.gas # x.v
        isTank == x.k \in {"transmitter", "tank", "rebreather"}
        tank   == SymbiosTank(x)
        tanks  == IF isTank THEN Adding(now.tanks, tank) ELSE now.tanks
        pre    == If(timed, Time(time))
        gas    == If(x.k = "switch" \/ (x.k = "config" /\ ~new) \/ byid, Gas(i))
        value  == If(SymbiosPlain(x) \/ x.k = "rebreather", Value)
        Stop(st, ss) == /\ UNCHANGED cache
                        /\ IF call = "samples" THEN FinishAfter(st, ss) ELSE Abort(st)
    IN CASE new /\ Len(gases) > SymbiosGases -> Stop("nomemory", pre)
         [] SymbiosConflict(x, now.gases) -> Stop("dataformat", pre)
         [] byid /\ i = Len(now.gases) -> Stop("dataformat", pre)
         [] Len(tanks) > SymbiosTanks -> Stop("nomemory", pre \o gas \o value)
         [] OTHER ->
              /\ UNCHANGED cache
              /\ Deliver(pre \o gas \o value \o If(isTank, Tank(Find(now.tanks, tank))))
              /\ Goto("record", [off |-> r.off + x.len, time |-> time, timed |-> r.timed \/ timed,
                                 deep |-> r.deep \/ x.k = "depth",
                                 interval |-> IF x.k = "header" THEN 10 ELSE r.interval,
                                 config |-> r.config \/ (x.k = "config" /\ new), end |-> r.end \/ x.k = "footer",
                                 gas |-> IF byid THEN x.v ELSE r.gas,
                                 now |-> [gases |-> gases, tanks |-> tanks,
                                          start |-> now.start \/ x.k = "header"]])

\* What a complete pass leaves; the dive time is the difference of two time
\* stamps if both are there.
SymbiosCached == [cached |-> TRUE, found |-> r.now,
                  divetime |-> IF r.now.start /\ r.end THEN Stored ELSE r.time]

\* Mutant: the length of a record is checked against the end only.
halcyon_symbios_foreach_NoMinimum ==
    /\ Doing("halcyon_symbios", "record")
    /\ IF r.off + 2 > size THEN
           /\ NoRead /\ cache' = SymbiosCached
           /\ IF call = "samples" THEN Finish("ok", out) ELSE Silent /\ Goto("start", << >>)
       ELSE \E x \in Look(r.off, SymbiosRecords) :
              LET bad == r.off + x.len > size \/ x.k = "odd"
              IN /\ Read(r.off, IF bad THEN 2 ELSE x.len, x)
                 /\ IF bad THEN UNCHANGED cache /\ Abort("dataformat") ELSE halcyon_symbios_record(x)

halcyon_symbios_foreach ==
    /\ Doing("halcyon_symbios", "record")
    /\ IF r.off + 2 > size THEN
           /\ NoRead /\ cache' = SymbiosCached
           /\ IF call = "samples" THEN Finish("ok", out) ELSE Silent /\ Goto("start", << >>)
       ELSE \E x \in Look(r.off, SymbiosRecords) :
              LET bad == x.len < 2 \/ r.off + x.len > size \/ x.k = "odd"
              IN /\ Read(r.off, IF bad THEN 2 ELSE x.len, x)
                 /\ IF bad THEN UNCHANGED cache /\ Abort("dataformat") ELSE halcyon_symbios_record(x)

-----------------------------------------------------------------------------
(* Deep Six Excursion: two formats, told apart by a byte of the header.    *)

ExcursionHeader == IF model = "v0" THEN 156 ELSE 129
HEADERSIZE_MIN == 128

deepsix_excursion_parser_create ==
    \E m \in {"v0", "v1"} : \E s \in
        IF m = "v0" THEN {127, 155, 157, 170} ELSE {128, 129, 132, 145, 152} :
        Create("deepsix_excursion", m, s, [cached |-> FALSE, gases |-> << >>])

deepsix_excursion_parser_get_datetime ==
    Datetime("deepsix_excursion", ExcursionHeader, 54)

deepsix_excursion_parser_get_field ==
    /\ At("deepsix_excursion", "field", "start") /\ UNCHANGED cache
    /\ IF size < ExcursionHeader THEN (IF size < HEADERSIZE_MIN THEN NoRead ELSE Skim(4)) /\ Reply(DataFormat)
       ELSE IF model = "v1" /\ ~cache.cached THEN NoRead /\ Silent /\ Goto("tables", << >>)
       ELSE Skim(ExcursionHeader) /\ Reply(Fields(Len(cache.gases), Unsupported, Stored))

deepsix_excursion_parser_samples_foreach ==
    /\ At("deepsix_excursion", "samples", "start") /\ UNCHANGED cache
    /\ IF size < ExcursionHeader THEN (IF size < HEADERSIZE_MIN THEN NoRead ELSE Skim(4)) /\ Finish("dataformat", out)
       ELSE /\ NoRead /\ Silent
            /\ Goto(IF model = "v0" THEN "v0" ELSE "tables", [off |-> ExcursionHeader, time |-> 0])

\* Records of the first format; one of the 4C firmware may be two bytes longer
\* than it says.  The CNS record comes after a sample.
ExcursionRecords ==
    {Class("temperature", 6), Class("temperature", 8), Class("alarm", 8), Class("unknown", 1)} \cup
    IF r.time = 0 THEN {} ELSE {Class("cns", 6)}

deepsix_excursion_parser_samples_foreach_v0 ==
    /\ Doing("deepsix_excursion", "v0") /\ UNCHANGED cache
    /\ IF r.off + 1 >= size THEN NoRead /\ Finish("ok", out)
       ELSE \E x \in Look(r.off, ExcursionRecords) :
              LET len == IF x.k = "temperature" THEN 6 ELSE x.v
              IN IF x.k = "unknown" THEN Read(r.off, 1, x) /\ Finish("dataformat", out)
                 ELSE IF r.off + len > size THEN Read(r.off, 1, x) /\ Finish("ok", out)
                 ELSE /\ Read(r.off, len, x)
                      /\ Deliver(IF x.k = "temperature" THEN <<Time(r.time + 1), Value>>
                                 ELSE If(x.k = "cns", Value))
                      /\ Goto("v0", [off |-> r.off + x.v, time |-> r.time + IF x.k = "temperature" THEN 1 ELSE 0])

\* The tables after the header of the second format: how long the header is,
\* whether the tables are sound, how many fields and events they describe, and
\* the bytes that every sample has besides.
ExcursionTables ==
    {t \in [header : {128, 129, 255}, sound : BOOLEAN, fields : {0, 1, 8}, events : {0, 3, 8}, bytes : {0, 2}] :
        /\ t.bytes = 0 <=> t.fields # 1
        /\ t.header # 129 => t.sound /\ t.fields = 0 /\ t.events = 0
        /\ ~t.sound => t.fields = 1 \/ t.events = 3
        /\ t.fields = 8 \/ t.events = 8 => t.fields + t.events = 8}

\* The table of fields is checked before the one of events is read.
deepsix_excursion_tables ==
    /\ Doing("deepsix_excursion", "tables") /\ UNCHANGED cache
    /\ \E t \in Look(2, ExcursionTables) :
         LET f   == t.header + 1            \* the table of fields
             e   == f + 3 * t.fields + 1    \* the table of events
             end == e + 2 * t.events
             bad == \/ t.header < ExcursionHeader \/ f > size \/ t.fields > 7
                    \/ e > size \/ ~t.sound \/ t.events > 7 \/ end > size
         IN /\ mem' = (2 :> t) @@ mem
            /\ Touch(IF bad THEN Min({size, e}) ELSE end)
            /\ IF bad THEN Abort("dataformat")
               ELSE Silent /\ Goto("v1", [off |-> end, time |-> 0, table |-> t])

\* A sample has 3 bytes, `len' bytes of events and the bytes of the fields.  An
\* event: a change to mix v, or v samples missed, so that time jumps ahead (or
\* back, for v = 0).
ExcursionSamples ==
    {x \in [k : {"none", "gas", "missed", "other"}, v : 0..2, len : {0, 1, 2, 4, 5, 8, 200}] :
        /\ x.k = "none"   => x.v = 0 /\ x.len \in {0, 1, 2, 200}
        /\ x.k = "other"  => x.v = 0 /\ x.len = 2
        /\ x.k = "gas"    => x.v > 0 /\ x.len \in {4, 5}
        /\ x.k = "missed" => x.v < 2 /\ x.len = 8
        /\ x.k # "none"   => r.table.events > 0}
ExcursionEvent(k) == CASE k = "gas" -> 5 [] k = "missed" -> 8 [] k = "other" -> 3 [] OTHER -> 2

\* The end of a sample whose fields start at offset o.
ExcursionFields(o) == o + r.table.bytes

deepsix_excursion_sample(x) ==
    LET time  == r.time + 5
        gases == IF x.k = "gas" THEN Adding(cache.gases, x.v) ELSE cache.gases
        next  == ExcursionFields(r.off + 3 + x.len)
        pre   == <<Time(time), Value>>
        Stop(st, ss) == IF call = "samples" THEN FinishAfter(st, ss) ELSE Abort(st)
    IN CASE x.len > 0 /\ x.len < ExcursionEvent(x.k) -> UNCHANGED cache /\ Stop("dataformat", pre)
         [] Len(gases) > ExcursionGases -> UNCHANGED cache /\ Stop("nomemory", pre)
         [] x.k = "missed" /\ x.v = 0 -> UNCHANGED cache /\ Stop("dataformat", pre)
         [] OTHER ->
              LET ss == pre \o If(x.k = "gas", Gas(Find(cache.gases, x.v)))
              IN /\ cache' = [cache EXCEPT !.gases = gases]
                 /\ IF next > size THEN Stop("dataformat", ss)
                    ELSE Deliver(ss) /\ Goto("v1", [r EXCEPT !.off = next,
                                                             !.time = time + IF x.k = "missed" THEN 20 ELSE 0])

deepsix_excursion_parser_samples_foreach_v1 ==
    /\ Doing("deepsix_excursion", "v1")
    /\ IF r.off + 3 > size THEN
           /\ NoRead /\ cache' = [cache EXCEPT !.cached = TRUE]
           /\ IF call = "samples" THEN Finish("ok", out) ELSE Silent /\ Goto("start", << >>)
       ELSE \E x \in Look(r.off, ExcursionSamples) :
              IF r.off + 3 + x.len > size THEN
                  /\ Read(r.off, 3, x) /\ UNCHANGED cache
                  /\ IF call = "samples" THEN FinishAfter("dataformat", <<Time(r.time + 5), Value>>)
                                         ELSE Abort("dataformat")
              ELSE Read(r.off, Min({3 + x.len + r.table.bytes, size - r.off}), x) /\ deepsix_excursion_sample(x)

-----------------------------------------------------------------------------
(* Divesoft Freedom: a header with a checksum and records with time        *)
(* stamps.  The cache scans the records for the mixes and the tanks.       *)

FreedomHeader(version) == IF version = 1 THEN 32 ELSE 64

divesoft_freedom_parser_create ==
    \E s \in {3, 31, 32, 63, 112} :
        Create("divesoft_freedom", "", s, [st |-> "none", gases |-> << >>, tanks |-> << >>, dive |-> << >>])

\* A record with its time: a point, a change to mix v, the pressure of tank v,
\* the configuration of a tank with transmitter v and of its mix, or erased.
FreedomRecord(k, v, t) == [k |-> k, v |-> v, t |-> t]
Erased == FreedomRecord("erased", 0, 0)
FreedomRecords ==
    {FreedomRecord("point", 0, 10), FreedomRecord("tank", 1, 10), FreedomRecord("pressure", 1, 10),
     FreedomRecord("mix", 1, 10), Erased} \X
    ({FreedomRecord("point", 0, t) : t \in {4, 9, 11}} \cup
     {FreedomRecord("tank", 2, 10), FreedomRecord("mix", 2, 9), FreedomRecord("pressure", 1, 10),
      FreedomRecord("diluent", 3, 10)}) \X
    {FreedomRecord("point", 0, 10), FreedomRecord("mix", 2, 10), FreedomRecord("pressure", 1, 11),
     FreedomRecord("pressure", 2, 11), Erased}
\* The header: the version (0 if it is none), whether the checksum is right,
\* and the diluent of a rebreather dive.
FreedomDive(version, crc, diluent, recs) == [version |-> version, crc |-> crc, diluent |-> diluent, recs |-> recs]
FreedomDives ==
    LET none == <<Erased, Erased, Erased>>
    IN {FreedomDive(0, TRUE, 0, none), FreedomDive(1, FALSE, 0, none), FreedomDive(2, TRUE, 0, none)} \cup
       IF size < 80 THEN {FreedomDive(1, TRUE, 3, none)}
       ELSE {FreedomDive(v, TRUE, IF v = 1 THEN 3 ELSE 0, recs) : v \in 1..2, recs \in FreedomRecords}
\* The records that the dive has room for.
FreedomCount(d) == Min({3, (size - FreedomHeader(d.version)) \div 16})

\* The mixes: first of the tanks, then the diluents, then of the events.
FreedomOf(d, k) == LET S == {i \in 1..FreedomCount(d) : d.recs[i].k = k}
                       is == SetToSortSeq(S, LAMBDA a, b : a < b)
                   IN [j \in DOMAIN is |-> d.recs[is[j]].v]
FreedomMixes(d) ==
    LET one == FreedomOf(d, "tank")
        dil == FreedomOf(d, "diluent")
        two == IF dil = << >> THEN one ELSE Adding(one, 3)
        thr == IF d.diluent = 0 THEN two ELSE Adding(two, d.diluent)
    IN FoldLeft(Adding, thr, FreedomOf(d, "mix"))
\* A pressure whose tank has not been configured before it.
FreedomStray(d) ==
    \E i \in 1..FreedomCount(d) : /\ d.recs[i].k = "pressure"
                                  /\ \A j \in 1..(i - 1) : d.recs[j] # FreedomRecord("tank", d.recs[i].v, 10)
FreedomStatus(d) ==
    CASE size < 4 \/ d.version = 0 \/ ~d.crc -> "dataformat"
      [] size < FreedomHeader(d.version) -> "dataformat"
      [] FreedomStray(d) -> "dataformat"
      [] Len(FreedomMixes(d)) > FreedomGases -> "nomemory"
      [] OTHER -> "ok"

\* Leaves the status of the call in cache'.st.
divesoft_freedom_cache ==
    IF cache.st = "ok" THEN NoRead /\ UNCHANGED cache
    ELSE IF size < 4 THEN NoRead /\ cache' = [cache EXCEPT !.st = "dataformat"]
    ELSE \E d \in Look(0, FreedomDives) :
           LET n == IF d.version = 0 \/ size < FreedomHeader(d.version) THEN 4 ELSE size
           IN /\ Read(0, n, d)
              /\ cache' = IF FreedomStatus(d) # "ok" THEN [cache EXCEPT !.st = FreedomStatus(d)]
                          ELSE [st |-> "ok", gases |-> FreedomMixes(d), tanks |-> FreedomOf(d, "tank"), dive |-> d]

divesoft_freedom_parser_get_datetime ==
    /\ parser = "divesoft_freedom" /\ call = "none" /\ divesoft_freedom_cache
    /\ status' = cache'.st /\ UNCHANGED <<call, pc, r, out, ans>> /\ Same

divesoft_freedom_parser_get_field ==
    /\ At("divesoft_freedom", "field", "start") /\ divesoft_freedom_cache
    /\ Reply(IF cache'.st # "ok" THEN Failed(cache'.st)
             ELSE Fields(Len(cache'.gases), Len(cache'.tanks), Stored))

divesoft_freedom_parser_samples_foreach ==
    /\ At("divesoft_freedom", "samples", "start") /\ divesoft_freedom_cache
    /\ IF cache'.st # "ok" THEN Finish(cache'.st, out)
       ELSE Silent /\ Goto("record", [i |-> 1, time |-> -1])

FreedomValues(x) == CASE x.k = "mix" -> <<Gas(Find(cache.gases, x.v))>>
                      [] x.k = "pressure" -> <<Tank(Find(cache.tanks, x.v))>>
                      [] x.k = "point" -> <<Value>> [] OTHER -> << >>

\* Mutant: time may go back.
divesoft_freedom_record_AnyTime ==
    /\ Doing("divesoft_freedom", "record") /\ NoRead /\ UNCHANGED cache
    /\ IF r.i > FreedomCount(cache.dive) THEN Finish("ok", out)
       ELSE \E x \in {cache.dive.recs[r.i]} :
              IF x.k = "erased" THEN Silent /\ Goto("record", [r EXCEPT !.i = @ + 1])
              ELSE /\ Deliver(If(x.t # r.time, Time(x.t)) \o FreedomValues(x))
                   /\ Goto("record", [i |-> r.i + 1, time |-> x.t])

\* Small steps back in time are skipped, larger ones are refused.
divesoft_freedom_record ==
    /\ Doing("divesoft_freedom", "record") /\ NoRead /\ UNCHANGED cache
    /\ IF r.i > FreedomCount(cache.dive) THEN Finish("ok", out)
       ELSE \E x \in {cache.dive.recs[r.i]} :
              LET back == x.t < r.time
                  next == [i |-> r.i + 1, time |-> x.t]
                  ss   == If(x.t # r.time, Time(x.t)) \o If(r.time = -1 /\ cache.dive.diluent # 0,
                                                            Gas(Find(cache.gases, cache.dive.diluent)))
                          \o FreedomValues(x)
              IN CASE x.k = "erased" -> Silent /\ Goto("record", [r EXCEPT !.i = @ + 1])
                   [] x.k # "erased" /\ back /\ r.time - x.t > 5 -> Finish("dataformat", out)
                   [] x.k # "erased" /\ back /\ r.time - x.t <= 5 ->
                        Silent /\ Goto("record", [r EXCEPT !.i = @ + 1])
                   [] OTHER -> Deliver(ss) /\ Goto("record", next)

-----------------------------------------------------------------------------
(* Suunto EON Steel: entries that describe a type of data and entries of   *)
(* the described types.  Creating the parser makes a pass for the fields,  *)
(* samples_foreach another one for the samples.                            *)

\* An entry: a sample after v seconds, a change to gas v (ignored if there is
\* no such gas), the pressure of cylinder v, data of a type that is not
\* described (skipped), and what cannot be an entry.
EonEntries ==
    {Class("sample", 0), Class("sample", 10), Class("switch", 0), Class("switch", 2),
     Class("skipped", 0), Class("broken", 0), Class("pressure", 1), Class("pressure", 2)}
\* add_gas_type: a gas beyond the table is not entered.
EonGases(f) == Min({f.gases, EonMaxGases})
\* A file of complete entries, in which a type is described before it is used;
\* gases come first, and events and pressures (of known gases) after a sample.
EonFiles ==
    {f \in [magic : BOOLEAN, entries : UNION {[1..n -> EonEntries] : n \in 0..3}, gases : 0..3] :
        /\ ~f.magic => f.entries = << >> /\ f.gases = 0
        /\ \A i \in DOMAIN f.entries :
             /\ f.entries[i].k = "pressure" => f.entries[i].v <= EonGases(f)
             /\ f.entries[i].k \in {"switch", "pressure"} => f.entries[1].k = "sample"}

\* traverse_data stops at the first entry it cannot read.
EonLength(f) == LET B == {i \in DOMAIN f.entries : f.entries[i].k = "broken"}
                IN IF B = {} THEN Len(f.entries) ELSE Min(B) - 1
\* Mutant: the pass for the fields goes on behind an entry it cannot read.
EonTime_Whole(f) == FoldLeft(LAMBDA t, x : IF x.k = "sample" THEN t + x.v ELSE t, 0, f.entries)
EonTime(f) == FoldLeft(LAMBDA t, x : IF x.k = "sample" THEN t + x.v ELSE t, 0,
                       SubSeq(f.entries, 1, EonLength(f)))

suunto_eonsteel_parser_create ==
    \E f \in EonFiles : \E s \in IF f.magic THEN {12 + 16 * Len(f.entries)} ELSE {3, 4} :
        Create("suunto_eonsteel", "", s, [file |-> f, gases |-> EonGases(f), divetime |-> EonTime(f)])

suunto_eonsteel_parser_get_datetime ==
    /\ parser = "suunto_eonsteel" /\ call = "none"
    /\ IF size < 4 THEN NoRead /\ status' = "unsupported" ELSE Skim(4) /\ status' = "ok"
    /\ UNCHANGED <<call, pc, r, cache, out, ans>> /\ Same

\* The counts are unsupported in a dive without gases.
suunto_eonsteel_parser_get_field ==
    /\ At("suunto_eonsteel", "field", "start") /\ NoRead /\ UNCHANGED cache
    /\ LET n == IF cache.gases = 0 THEN Unsupported ELSE cache.gases
       IN Reply(Fields(n, n, cache.divetime))

suunto_eonsteel_parser_samples_foreach ==
    /\ At("suunto_eonsteel", "samples", "start") /\ NoRead /\ UNCHANGED cache /\ Silent
    /\ Goto("entry", [i |-> 1, time |-> 0])

traverse_samples ==
    /\ Doing("suunto_eonsteel", "entry") /\ UNCHANGED cache
    /\ IF r.i > EonLength(cache.file) THEN NoRead /\ Finish("ok", out)
       ELSE \E x \in {cache.file.entries[r.i]} :
              LET time == r.time + IF x.k = "sample" THEN x.v ELSE 0
              IN /\ Skim(12 + 16 * r.i)
                 /\ Deliver(CASE x.k = "sample" -> <<Time(time), Value>>
                              [] x.k = "switch" -> If(x.v \in 1..cache.gases, Gas(x.v - 1))
                              [] x.k = "pressure" -> <<Tank(x.v - 1)>>
                              [] OTHER -> << >>)
                 /\ Goto("entry", [i |-> r.i + 1, time |-> time])

TaggedFamily == {"deepsix_excursion", "divesoft_freedom", "halcyon_symbios", "suunto_eonsteel"}

TaggedInit ==
    \/ halcyon_symbios_parser_create \/ deepsix_excursion_parser_create
    \/ divesoft_freedom_parser_create \/ suunto_eonsteel_parser_create
TaggedNext ==
    \/ halcyon_symbios_parser_get_datetime \/ halcyon_symbios_parser_get_field
    \/ halcyon_symbios_parser_samples_foreach \/ halcyon_symbios_foreach
    \/ deepsix_excursion_parser_get_datetime \/ deepsix_excursion_parser_get_field
    \/ deepsix_excursion_parser_samples_foreach \/ deepsix_excursion_parser_samples_foreach_v0
    \/ deepsix_excursion_tables \/ deepsix_excursion_parser_samples_foreach_v1
    \/ divesoft_freedom_parser_get_datetime \/ divesoft_freedom_parser_get_field
    \/ divesoft_freedom_parser_samples_foreach \/ divesoft_freedom_record
    \/ suunto_eonsteel_parser_get_datetime \/ suunto_eonsteel_parser_get_field
    \/ suunto_eonsteel_parser_samples_foreach \/ traverse_samples
=============================================================================
