---------------------------- MODULE StreamParsers ----------------------------
(***************************************************************************)
(* The parsers of the Uwatec Smart, Liquivision Lynx and Cochran families, *)
(* whose profiles are streams in which most records change a running value *)
(* and only some complete a sample.                                        *)
(***************************************************************************)
EXTENDS DiveParser

CONSTANT StreamMixes     \* NGASMIXES and NTANKS of the parsers

-----------------------------------------------------------------------------
(* Uwatec Smart.  The gas mixes and the tanks are in the header or, on the *)
(* trimix models, in records of the stream: a first pass over the stream,  *)
(* without a callback, collects them for the pass that delivers samples.   *)

SmartModels == {"smarttec", "galileo", "g2"}
SmartHeader(trimix) == CASE model = "smarttec" -> 132 [] model = "galileo" /\ ~trimix -> 152
                         [] OTHER -> 84

\* The bytes of the header that are in use.
SmartUsed(trimix) == CASE model = "smarttec" -> 46 [] model = "galileo" /\ ~trimix -> 96
                       [] OTHER -> 72

\* Only a Galileo compares the size, with 44 bytes, before it reads the header.
uwatec_smart_parser_create ==
    \E m \in SmartModels : \E s \in Sizes("uwatec_smart",
        CASE m = "smarttec" -> {46, 132, 136, 137} [] m = "galileo" -> {43, 72, 86, 96, 152, 155}
          [] m = "g2" -> {72, 84, 86, 87, 101, 104, 107, 135},
        CASE m = "smarttec" -> {45} [] m = "galileo" -> {44, 71} [] m = "g2" -> {71}) :
        Create("uwatec_smart", m, s, [cached |-> "none", header |-> IF m = "g2" THEN 84 ELSE IF m = "galileo"
                  THEN 152 ELSE 132, trimix |-> m = "g2", gases |-> << >>, tanks |-> << >>, interval |-> 4])

uwatec_smart_parser_get_datetime ==
    parser = "uwatec_smart" /\ Datetime("uwatec_smart", cache.header, 17)

\* What the header says; the gases and tanks of a trimix header are empty.
SmartHeaders ==
    {h \in [trimix : BOOLEAN, gases : {<< >>, <<0>>, <<1, 2>>}, tanks : {<< >>, <<1>>},
            interval : {1, 4}] :
        /\ model = "g2" => h.trimix
        /\ model = "smarttec" => ~h.trimix
        /\ h.interval = 1 => model # "smarttec"
        /\ "uwatec_smart" \notin Unchecked => SmartUsed(h.trimix) <= size
        /\ h.trimix => h.gases = << >> /\ h.tanks = << >>
        /\ h.interval = 1 => h.gases = << >> /\ h.tanks = << >>}

uwatec_smart_parser_cache ==
    /\ Doing("uwatec_smart", "start") /\ cache.cached = "none"
    /\ IF model = "galileo" /\ size < 44 THEN NoRead /\ UNCHANGED cache /\ Abort("dataformat")
       ELSE \E h \in Look(0, SmartHeaders) :
              /\ Read(0, SmartUsed(h.trimix), h) /\ Silent
              /\ cache' = [cached |-> "header", header |-> SmartHeader(h.trimix), trimix |-> h.trimix,
                           gases |-> h.gases, tanks |-> h.tanks, interval |-> h.interval]
              /\ Goto("start", << >>)

SmartPass(quiet) ==
    Goto("record", [quiet |-> quiet, off |-> cache.header, time |-> 0, gas |-> 0, tank |-> 0,
                    last |-> -1, pressure |-> FALSE])

uwatec_smart_parser_get_field ==
    /\ At("uwatec_smart", "field", "start") /\ UNCHANGED cache
    /\ \/ cache.cached = "header" /\ NoRead /\ Silent /\ SmartPass(TRUE)
       \/ /\ cache.cached = "profile" /\ Skim(34)
          /\ Reply(Fields(Len(cache.gases), Len(cache.tanks), Stored))

uwatec_smart_parser_samples_foreach ==
    /\ At("uwatec_smart", "samples", "start") /\ cache.cached # "none"
    /\ UNCHANGED cache /\ NoRead /\ Silent /\ SmartPass(cache.cached = "header")

Record(k, len, v) == [k |-> k, len |-> len, v |-> v]
\* uwatec_smart_identify, uwatec_galileo_identify: the records and their
\* lengths.  A record "mix" describes mix v, with a tank if v = 1; "short" is
\* one that ends too early.  One-byte records are left to the end of a stream.
\* A "misc" of one byte passes the check and has its type read behind it, which
\* at the end of the dive is outside.
SmartRecords ==
    CASE model = "smarttec" -> {Record("depth", 2, 0), Record("depth", 4, 0), Record("value", 2, 0),
                                Record("pressure", 4, 0), Record("pressure", 4, 1), Record("time", 2, 2),
                                Record("unknown", 2, 0)}
      [] model = "galileo" /\ cache.trimix /\ r.off = 84 /\ size >= 152 -> {Record("mix", size - 87, 0), Record("mix", size - 87, 1)}
      [] size - r.off > 3 -> {Record("mix", 17, 0), Record("mix", 17, 1)} \cup
                             IF r.off > 84 + 17 THEN {Record("mix", 17, 2)}
                             ELSE IF r.off > cache.header THEN {}
                             ELSE {Record("short", 16, 0), Record("depth", 3, 0), Record("apnea", 9, 0)}
      [] OTHER -> {Record("depth", 1, 0), Record("gas", 2, 0), Record("gas", 2, 1),
                   Record("pressure", 3, 1), Record("time", 1, 2), Record("time", 1, 0),
                   Record("misc", 3, 0), Record("unknown", 1, 0)}
                  \cup IF size - r.off # 2 \/ "uwatec_smart" \in Unchecked THEN {Record("misc", 2, 0)} ELSE {}

\* What the record makes of the running values.
SmartAfter(x) == CASE x.k = "pressure" -> [r EXCEPT !.tank = x.v, !.gas = x.v, !.pressure = TRUE]
                   [] x.k = "gas" -> [r EXCEPT !.gas = x.v] [] OTHER -> r
Completes(x) == CASE x.k = "depth" -> 1 [] x.k = "time" -> x.v [] OTHER -> 0

uwatec_smart_record(x) ==
    LET gases  == IF x.k = "mix" THEN Adding(cache.gases, x.v) ELSE cache.gases
        tanks  == IF x.k = "mix" /\ x.v = 1 THEN Adding(cache.tanks, x.v) ELSE cache.tanks
        q      == SmartAfter(x)
        n      == Completes(x)
        switch == gases # << >> /\ q.gas # q.last
        known  == Find(gases, q.gas) < Len(gases)
        tank   == Find(tanks, q.tank)
        body   == If(q.pressure /\ tank < Len(tanks), Tank(tank)) \o <<Value>>
        ss     == <<Time(r.time)>> \o If(switch, Gas(Find(gases, q.gas))) \o body
        more   == IF n = 2 THEN <<Time(r.time + cache.interval)>> \o body ELSE << >>
    IN IF n > 0 /\ switch /\ ~known
       THEN /\ UNCHANGED cache
            /\ IF r.quiet THEN Abort("dataformat") ELSE FinishAfter("dataformat", <<Time(r.time)>>)
       ELSE IF Len(gases) > StreamMixes \/ Len(tanks) > StreamMixes
       THEN /\ cache' = [cache EXCEPT !.gases = IF Len(gases) > StreamMixes THEN @ ELSE gases]
            /\ Abort("nomemory")
       ELSE /\ cache' = [cache EXCEPT !.gases = gases, !.tanks = tanks]
            /\ IF n = 0 \/ r.quiet THEN Silent ELSE Deliver(ss \o more)
            /\ Goto("record", [q EXCEPT !.off = @ + x.len, !.time = @ + n * cache.interval,
                                        !.last = IF n > 0 /\ switch THEN q.gas ELSE @])

uwatec_smart_parse ==
    /\ Doing("uwatec_smart", "record")
    /\ \/ /\ r.off >= size /\ NoRead
          /\ cache' = [cache EXCEPT !.cached = "profile"]
          /\ IF r.quiet THEN Silent /\ Goto("start", << >>) ELSE Finish("ok", out)
       \/ /\ r.off < size
          /\ \E x \in Look(r.off, SmartRecords) :
               LET bad == r.off + x.len > size \/ x.k \in {"unknown", "short"}
               IN /\ Read(r.off, CASE bad -> 1 [] x.k = "misc" -> 3 [] OTHER -> x.len, x)
                  /\ IF bad THEN UNCHANGED cache /\ Abort("dataformat") ELSE uwatec_smart_record(x)

-----------------------------------------------------------------------------
(* Liquivision Lynx: after the header, samples and events of several       *)
(* lengths, whose numbers are in the header.  The events between two       *)
(* samples name the gas and the pressures that the next sample delivers.   *)

LynxHeader == IF model = "xen" THEN 80 ELSE 96
LynxSample == IF model = "xeo" THEN 18 ELSE 4

liquivision_lynx_parser_create ==
    \E m \in {"xen", "xeo", "lynx"} : \E s \in
        CASE m = "xen" -> {79, 84} [] m = "xeo" -> {95, 114}
          [] m = "lynx" -> {96, 101, 108, 112, 120} :
        Create("liquivision_lynx", m, s, [cached |-> FALSE, gases |-> 0, tanks |-> 0])

liquivision_lynx_parser_get_datetime == Datetime("liquivision_lynx", LynxHeader, 46)

liquivision_lynx_parser_get_field ==
    /\ At("liquivision_lynx", "field", "start") /\ UNCHANGED cache
    /\ \/ size < LynxHeader /\ NoRead /\ Reply(DataFormat)
       \/ size >= LynxHeader /\ ~cache.cached /\ NoRead /\ Silent /\ Goto("pass", << >>)
       \/ /\ size >= LynxHeader /\ cache.cached /\ Skim(IF model = "xen" THEN 40 ELSE 94)
          /\ Reply(Fields(cache.gases, cache.tanks, Stored))

\* The sample interval, if the code knows it, and the numbers of records.
LynxHeaders == {[interval |-> 10, samples |-> n, events |-> n] : n \in {1, 9}}
               \cup {[interval |-> 0, samples |-> 0, events |-> 0]}

\* An event has 6 bytes and those of its type.  They are checked, but the time
\* stamp is read two bytes too far, beyond a dive that ends within those two.
LynxRecords ==
    {Record("sample", LynxSample, 0)} \cup
    IF "liquivision_lynx" \notin Unchecked /\ r.off + 6 <= size /\ r.off + 8 > size THEN {}
    ELSE {Record("gas", 8, 1), Record("gas", 8, 2), Record("tank", 12, 1), Record("tank", 12, 2),
          Record("event", 6, 0), Record("event", 7, 0)}
         \cup IF Len(r.gases) = 2 THEN {Record("gas", 8, 3)} ELSE {}

LynxPressures(p) == [i \in 1..Len(p) |-> Tank(p[i])]

liquivision_lynx_record(x) ==
    LET time  == r.time + 10
        gases == Adding(r.gases, x.v)
        tanks == Adding(r.tanks, x.v)
        full  == \/ x.k = "gas" /\ Len(gases) > StreamMixes
                 \/ x.k = "tank" /\ Len(tanks) > StreamMixes
        next  == [r EXCEPT !.off = @ + x.len, !.events = IF x.k = "sample" THEN @ ELSE @ + 1]
    IN \/ /\ x.k = "sample"
          /\ Deliver(<<Time(time), Value, Value>> \o If(r.gas >= 0, Gas(r.gas)) \o LynxPressures(r.pressure))
          /\ Goto("record", [next EXCEPT !.time = time, !.gas = -1, !.pressure = << >>, !.samples = @ + 1])
       \/ x.k = "event" /\ Silent /\ Goto("record", next)
       \/ full /\ Abort("dataformat")
       \/ /\ x.k = "gas" /\ ~full /\ Silent
          /\ Goto("record", IF x.v = r.mix THEN next
                            ELSE [next EXCEPT !.gases = gases, !.gas = Find(r.gases, x.v), !.mix = x.v])
       \/ /\ x.k = "tank" /\ ~full /\ Silent
          /\ Goto("record", [next EXCEPT !.tanks = tanks,
                                         !.pressure = Adding(@, Find(r.tanks, x.v))])

\* What a complete pass leaves for get_field.
LynxCached == [cached |-> TRUE, gases |-> Len(r.gases), tanks |-> Len(r.tanks)]

liquivision_lynx_parser_samples_foreach ==
    /\ parser = "liquivision_lynx"
    /\ \/ /\ pc = "pass" \/ (pc = "start" /\ call = "samples")
          /\ UNCHANGED cache
          /\ IF size < LynxHeader THEN NoRead /\ Abort("dataformat")
             ELSE \E h \in Look(8, LynxHeaders) :
                    /\ Read(8, 32, h)
                    /\ IF h.interval = 0 THEN Abort("dataformat")
                       ELSE Silent /\ Goto("record", [off |-> LynxHeader, time |-> 0, samples |-> 0,
                                events |-> 0, gases |-> << >>, tanks |-> << >>, mix |-> 0, gas |-> -1,
                                pressure |-> << >>])
       \/ /\ pc = "record" /\ r.off + 2 <= size /\ UNCHANGED cache
          /\ \E x \in Look(r.off, LynxRecords) :
               /\ IF x.k = "sample" THEN r.samples < mem[8].samples ELSE r.events < mem[8].events
               /\ IF r.off + x.len > size
                  THEN /\ Read(r.off, IF x.k # "sample" /\ r.off + 6 <= size THEN 8 ELSE 2, x)
                       /\ Abort("dataformat")
                  ELSE Read(r.off, IF x.k = "sample" THEN x.len ELSE Max({8, x.len}), x) /\ liquivision_lynx_record(x)
       \* The stream or the counts of the header are used up.
       \/ /\ pc = "record"
          /\ \/ r.off + 2 > size /\ NoRead
             \/ /\ r.off + 2 <= size
                /\ \E x \in Look(r.off, LynxRecords) :
                     /\ Read(r.off, 2, x)
                     /\ IF x.k = "sample" THEN r.samples >= mem[8].samples
                                          ELSE r.events >= mem[8].events
          /\ cache' = LynxCached
          /\ IF call = "samples" THEN Finish("ok", out) ELSE Silent /\ Goto("start", << >>)

-----------------------------------------------------------------------------
(* Cochran Commander and EMC: one time at the start, then events and       *)
(* samples that change the depth.  A dive without an end block is cut at   *)
(* the events that belong to the time after it.                            *)

CochranHeader(m) == CASE m = "tm" -> 90 [] m = "cmdr" -> 256 [] m = "emc" -> 512
CochranSample == CASE model = "tm" -> 1 [] model = "cmdr" -> 2 [] model = "emc" -> 3

cochran_commander_parser_create ==
    \E m \in {"tm", "cmdr", "emc"} : \E n \in Sizes("cochran_commander",
        CASE m = "tm" -> {-1, 2, 4} [] m = "cmdr" -> {-1, 0, 1, 2, 4, 23} [] m = "emc" -> {-1, 0, 1, 2, 4},
        IF m = "tm" THEN {0, 1} ELSE {}) :
        Create("cochran_commander", m, CochranHeader(m) + n, << >>)

cochran_commander_parser_get_datetime ==
    parser = "cochran_commander" /\ Datetime("cochran_commander", CochranHeader(model), 19)

cochran_commander_parser_get_field ==
    /\ At("cochran_commander", "field", "start") /\ UNCHANGED cache
    /\ IF size < CochranHeader(model) THEN NoRead /\ Reply(DataFormat)
       ELSE Skim(CochranHeader(model)) /\ Reply(Fields(2, Unsupported, Stored))

\* cochran_commander_backparse: the bytes left when the inter-dive events at
\* the end are taken off.
cochran_commander_backparse(n, events) == IF n - 19 * events > 0 THEN n - 19 * events ELSE n

\* The header of a complete dive, or of one cut short; the longest dives are
\* those with events at the end.
CochranHeaders == IF size > CochranHeader(model) + 4 THEN {[corrupt |-> TRUE, events |-> 1]}
                  ELSE {[corrupt |-> FALSE, events |-> 0]} \cup
                       IF model = "tm" THEN {} ELSE {[corrupt |-> TRUE, events |-> 1]}

CochranStart(limit, corrupt) ==
    /\ Deliver(<<Time(0), Value, Value, Gas(0)>>)
    /\ Goto("record", [off |-> CochranHeader(model) + IF model = "tm" THEN 2 ELSE 0, limit |-> limit,
                       corrupt |-> corrupt, time |-> 0, told |-> 0, gas |-> 0])

\* Events of one byte and, on the later models, changes of ceiling with five,
\* which are not checked.  0xF3 selects the first blend, 0xEF the second, 0xA8
\* starts the time after the dive.
CochranRecords ==
    {Record("sample", CochranSample, 0), Record("event", 1, 0)} \cup
    IF model = "tm" THEN {Record("ceiling", 1, 0)}
    ELSE {Record("gas", 1, 0), Record("gas", 1, 1), Record("end", 1, 0)} \cup
         IF r.off + 5 <= size \/ "cochran_commander" \in Unchecked THEN {Record("ceiling", 5, 0)} ELSE {}

cochran_commander_record(x) ==
    LET now    == If(r.time # r.told, Time(r.time))
        switch == x.k = "gas" /\ x.v # r.gas
        next   == [r EXCEPT !.off = @ + x.len, !.told = r.time]
    IN IF \/ r.corrupt /\ (x.k = "end" \/ (r.time > 1 /\ x.k = "gas" /\ x.v = 0))
          \/ x.k = "sample" /\ r.off + x.len > r.limit
       THEN FinishAfter("ok", now)
       ELSE /\ Deliver(now \o IF x.k = "gas" THEN If(switch, Gas(x.v)) ELSE <<Value>>)
            /\ Goto("record", [next EXCEPT !.time = IF x.k = "sample" THEN @ + 1 ELSE @,
                                           !.gas = IF x.k = "gas" THEN x.v ELSE @])

CochranSamples ==
    /\ parser = "cochran_commander" /\ call = "samples" /\ UNCHANGED cache
    /\ \/ pc = "start" /\ size < CochranHeader(model) /\ NoRead /\ Finish("dataformat", out)
       \/ /\ pc = "start" /\ size >= CochranHeader(model)
          /\ \E h \in Look(0, CochranHeaders) :
               LET n == size - CochranHeader(model)
               IN /\ Read(0, CochranHeader(model) + IF model = "tm" THEN 2 ELSE 0, h)
                  /\ CochranStart(CochranHeader(model) + IF h.corrupt
                                  THEN cochran_commander_backparse(n, h.events) ELSE n, h.corrupt)
       \/ pc = "record" /\ r.off >= r.limit /\ NoRead /\ Finish("ok", out)
       \/ /\ pc = "record" /\ r.off < r.limit
          /\ \E x \in Look(r.off, CochranRecords) :
               Read(r.off, IF x.k = "sample" /\ r.off + x.len > size THEN 1 ELSE x.len, x)
               /\ cochran_commander_record(x)
cochran_commander_parser_samples_foreach_tm == model = "tm" /\ CochranSamples
cochran_commander_parser_samples_foreach_emc == model # "tm" /\ CochranSamples
cochran_commander_parser_samples_foreach ==
    cochran_commander_parser_samples_foreach_tm \/ cochran_commander_parser_samples_foreach_emc

-----------------------------------------------------------------------------

StreamFamily == {"cochran_commander", "liquivision_lynx", "uwatec_smart"}

StreamInit ==
    uwatec_smart_parser_create \/ liquivision_lynx_parser_create \/ cochran_commander_parser_create

StreamNext ==
    \/ uwatec_smart_parser_get_datetime \/ uwatec_smart_parser_cache
    \/ uwatec_smart_parser_get_field \/ uwatec_smart_parser_samples_foreach \/ uwatec_smart_parse
    \/ liquivision_lynx_parser_get_datetime \/ liquivision_lynx_parser_get_field
    \/ liquivision_lynx_parser_samples_foreach
    \/ cochran_commander_parser_get_datetime \/ cochran_commander_parser_get_field
    \/ cochran_commander_parser_samples_foreach
=============================================================================
