--------------------------- MODULE OceanicParsers ---------------------------
(***************************************************************************)
(* The parsers of the Oceanic Veo 250, VT Pro and Atom 2 families.  Dives  *)
(* are pages of 16 bytes: header pages, samples, and footer pages that     *)
(* repeat the end of the logbook entry.  The dive time is not stored, so   *)
(* get_field makes a pass over the samples first.                          *)
(***************************************************************************)
EXTENDS DiveParser

HALF == 8     \* PAGESIZE / 2

NoPass == [cached |-> FALSE, divetime |-> 0]
\* A pass over the samples ends; get_field keeps the statistics and goes on.
PassEnds(time) ==
    IF call = "samples" THEN Finish("ok", out) /\ UNCHANGED cache
    ELSE /\ cache' = [cache EXCEPT !.cached = TRUE, !.divetime = time]
         /\ Silent /\ Goto("start", << >>)

-----------------------------------------------------------------------------
(* Veo 250: samples of half a page, blank ones skipped *)

oceanic_veo250_parser_create ==
    \E s \in {0, 7, 8, 55, 56, 63, 64, 72, 80} : Create("oceanic_veo250", 0, s, NoPass)

oceanic_veo250_parser_get_datetime == Datetime("oceanic_veo250", 8, 8)

oceanic_veo250_parser_get_field ==
    /\ At("oceanic_veo250", "field", "start") /\ UNCHANGED cache
    /\ \/ size < 7 * HALF /\ NoRead /\ Reply(DataFormat)
       \/ size >= 7 * HALF /\ ~cache.cached /\ NoRead /\ Silent /\ Goto("pass", << >>)
       \/ size >= 7 * HALF /\ cache.cached /\ Skim(size - 9) /\ Reply(Fields(1, Unsupported, Stored))

oceanic_veo250_parser_samples_foreach ==
    /\ parser = "oceanic_veo250"
    /\ \/ /\ pc = "pass" \/ (pc = "start" /\ call = "samples")
          /\ UNCHANGED cache
          /\ IF size < 7 * HALF THEN NoRead /\ Abort("dataformat")
             ELSE \E interval \in Look(39, {2, 60}) :
                    /\ Read(39, 1, interval) /\ Silent
                    /\ Goto("sample", [off |-> 5 * HALF, time |-> 0])
       \/ /\ pc = "sample" /\ r.off + HALF > size - 2 * HALF /\ NoRead
          /\ PassEnds(r.time)
       \/ /\ pc = "sample" /\ r.off + HALF <= size - 2 * HALF /\ UNCHANGED cache
          /\ \E x \in Look(r.off, {"blank", "sample"}) :
               LET time == r.time + IF x = "blank" THEN 0 ELSE mem[39]
               IN /\ Read(r.off, HALF, x)
                  /\ Deliver(IF x = "blank" THEN << >> ELSE <<Time(time), Value, Value, Value, Value>>)
                  /\ Goto("sample", [off |-> r.off + HALF, time |-> time])

-----------------------------------------------------------------------------
(* VT Pro: a sample has a time stamp in minutes.  With a known sample      *)
(* interval the samples of a minute are counted off; without one they are  *)
(* counted ahead and spread over the minute.                               *)

oceanic_vtpro_parser_create ==
    \E s \in {0, 7, 8, 55, 56, 64, 72, 80} : Create("oceanic_vtpro", 0, s, NoPass)

oceanic_vtpro_parser_get_datetime == Datetime("oceanic_vtpro", 8, 8)

\* The pressures at the start and at the end: one tank unless both are zero.
oceanic_vtpro_parser_get_field ==
    /\ At("oceanic_vtpro", "field", "start") /\ UNCHANGED cache
    /\ \/ size < 7 * HALF /\ NoRead /\ Reply(DataFormat)
       \/ size >= 7 * HALF /\ ~cache.cached /\ NoRead /\ Silent /\ Goto("pass", << >>)
       \/ /\ size >= 7 * HALF /\ cache.cached
          /\ \E tank \in Look(38, 0..1) :
               Read(38, size - 9 - 38, tank) /\ Reply(Fields(1, tank, cache.divetime))

VtproHalves == {Class("blank", 0)} \cup {Class("sample", m) : m \in 0..2}

\* The sample at r.off belongs to minute m and is sample i of count.
VtproSample(m, i, count) ==
    LET interval == mem[39]
        time == m * 60 + IF interval # 0 THEN (i + 1) * interval ELSE ((i + 1) * 120 + count) \div (2 * count)
    IN /\ Deliver(<<Time(time), Value, Value, Value>>)
       /\ Goto("sample", [off |-> r.off + HALF, stamp |-> m, count |-> count, i |-> i,
                          time |-> time])

oceanic_vtpro_sample ==
    /\ Doing("oceanic_vtpro", "sample") /\ r.off + HALF <= size - 2 * HALF /\ UNCHANGED cache
    /\ \E x \in Look(r.off, VtproHalves) :
         LET interval == mem[39]
             new   == x.v # r.stamp \/ r.count = 0
             i     == IF new THEN 0 ELSE r.i + 1
             count == IF new /\ interval # 0 THEN 60 \div interval ELSE r.count
         IN /\ Read(r.off, HALF, x)
            /\ \/ x.k = "blank" /\ Silent /\ Goto("sample", [r EXCEPT !.off = @ + HALF])
               \/ /\ x.k = "sample" /\ \/ x.v < r.stamp
                                       \/ interval # 0 /\ x.v > r.stamp + 1
                  /\ Abort("dataformat")
               \/ /\ x.k = "sample" /\ x.v >= r.stamp /\ interval # 0 /\ x.v <= r.stamp + 1
                  /\ IF i >= count
                     THEN Silent /\ Goto("sample", [r EXCEPT !.off = @ + HALF, !.i = i, !.count = count])
                     ELSE VtproSample(x.v, i, count)
               \/ /\ x.k = "sample" /\ x.v >= r.stamp /\ interval = 0 /\ new /\ Silent
                  /\ Goto("count", [r EXCEPT !.i = 0, !.count = 1, !.stamp = x.v] @@ [idx |-> r.off + HALF])
               \/ /\ x.k = "sample" /\ x.v >= r.stamp /\ interval = 0 /\ ~new
                  /\ VtproSample(x.v, i, count)

\* Counting ahead the samples with the same time stamp.
oceanic_vtpro_count ==
    /\ Doing("oceanic_vtpro", "count") /\ UNCHANGED cache
    /\ IF r.idx + HALF > size - 2 * HALF THEN NoRead /\ VtproSample(r.stamp, 0, r.count)
       ELSE \E x \in Look(r.idx, VtproHalves) :
              /\ Read(r.idx, HALF, x)
              /\ \/ x.k = "sample" /\ x.v # r.stamp /\ VtproSample(r.stamp, 0, r.count)
                 \/ /\ x.k = "blank" \/ x.v = r.stamp
                    /\ Silent
                    /\ Goto("count", [r EXCEPT !.idx = @ + HALF,
                                               !.count = IF x.k = "blank" THEN @ ELSE @ + 1])

oceanic_vtpro_parser_samples_foreach ==
    \/ /\ parser = "oceanic_vtpro" /\ (pc = "pass" \/ (pc = "start" /\ call = "samples"))
       /\ UNCHANGED cache
       /\ IF size < 7 * HALF THEN NoRead /\ Abort("dataformat")
          ELSE \E interval \in Look(39, {0, 25, 60}) :
                 /\ Read(39, 1, interval) /\ Silent
                 /\ Goto("sample", [off |-> 5 * HALF, stamp |-> 0, count |-> 0, i |-> 0, time |-> 0])
    \/ /\ Doing("oceanic_vtpro", "sample") /\ r.off + HALF > size - 2 * HALF /\ NoRead
       /\ PassEnds(r.time)
    \/ oceanic_vtpro_sample \/ oceanic_vtpro_count

-----------------------------------------------------------------------------
(* Atom 2 and its descendants.  One model stands for each layout the code  *)
(* tells apart: F10 (free dives only), VT3 (free dives are a mode), I450T  *)
(* (samples carry a time), TX1 and DSX (samples carry a gas), A300CS (the  *)
(* header counts the mixes) and Atom 2.                                    *)

Atom2Models == {"f10", "vt3", "i450t", "tx1", "dsx", "a300cs", "atom2"}
atom2_headersize(m) == CASE m = "f10" -> 48 [] m \in {"vt3", "atom2"} -> 72 [] m = "tx1" -> 104
                         [] m = "dsx" -> 768 [] OTHER -> 80
atom2_footersize(m) == CASE m = "f10" -> 0 [] m = "dsx" -> 64 [] OTHER -> 16
atom2_samplesize(m, mode) ==
    CASE m = "f10" -> 2 [] m # "dsx" /\ mode = "freedive" -> 4
      [] m \in {"i450t", "tx1", "a300cs"} -> 16 [] m = "dsx" -> 32 [] OTHER -> 8

Atom2NotCached == [cached |-> "none", mode |-> "normal", gases |-> 0, divetime |-> 0]

\* The bytes get_datetime reads; all but the F10 compare the size with 8.
atom2_datetime(m) == CASE m = "f10" -> 14 [] m = "tx1" -> 16 [] m \in {"i450t", "a300cs"} -> 11 [] OTHER -> 8

oceanic_atom2_parser_create ==
    \/ \E m \in Atom2Models : \E n \in 0..3, d \in {-1, 0, 7} :
        LET samples == n * atom2_samplesize(m, IF m = "f10" THEN "freedive" ELSE "normal")
        IN /\ n = 3 => d = 0 /\ m \in {"atom2", "f10"}
           /\ Create("oceanic_atom2", m, atom2_headersize(m) + samples + atom2_footersize(m) + d,
                     Atom2NotCached)
    \/ \E m \in Atom2Models : \E s \in Sizes("oceanic_atom2", {7, atom2_datetime(m)}, {8}) :
           Create("oceanic_atom2", m, s, Atom2NotCached)

oceanic_atom2_parser_get_datetime ==
    parser = "oceanic_atom2" /\ Datetime("oceanic_atom2", IF model = "f10" THEN 32 ELSE 8,
             atom2_datetime(model))

is_freedive(mode) == mode = "freedive" /\ model # "dsx"

\* What the header says: the mode, the number of mixes, and whether it holds
\* a pressure (10000 stands for none).
Atom2Headers ==
    {h \in [mode : {"normal", "gauge", "freedive"}, gases : {0, 1, 3, 6}, pressure : BOOLEAN] :
        /\ model = "f10" => h.mode = "freedive"
        /\ model \notin {"f10", "vt3"} => h.mode # "freedive"
        /\ model \notin {"vt3", "dsx"} => h.mode # "gauge"
        /\ h.gases = CASE is_freedive(h.mode) -> 0
                       [] model = "dsx" -> IF h.mode = "gauge" THEN 0 ELSE 6
                       [] model = "tx1" -> 6 [] OTHER -> h.gases
        /\ h.gases \in {0, 6} => is_freedive(h.mode) \/ model \in {"tx1", "dsx"}
        /\ h.gases = 1 => model = "a300cs"
        /\ is_freedive(h.mode) => ~h.pressure}

\* oceanic_atom2_parser_cache: the header, before anything else.
oceanic_atom2_parser_cache ==
    /\ parser = "oceanic_atom2" /\ call # "none" /\ pc = "start" /\ cache.cached = "none"
    /\ IF size < atom2_headersize(model) + atom2_footersize(model)
       THEN NoRead /\ UNCHANGED cache /\ Abort("dataformat")
       ELSE \E h \in Look(0, Atom2Headers) :
              /\ Read(0, atom2_headersize(model), h) /\ Silent
              /\ cache' = [cache EXCEPT !.cached = "header", !.mode = h.mode, !.gases = h.gases]
              /\ Goto("start", << >>)

oceanic_atom2_parser_get_field ==
    /\ At("oceanic_atom2", "field", "start") /\ UNCHANGED cache
    /\ \/ cache.cached = "header" /\ NoRead /\ Silent /\ Goto("pass", << >>)
       \/ /\ cache.cached = "profile"
          /\ Skim(IF model = "f10" THEN 6 ELSE size - atom2_footersize(model) + 14)
          /\ Reply(Fields(cache.gases, Unsupported,
                          IF model = "f10" THEN Stored ELSE cache.divetime))

Atom2Interval == IF is_freedive(cache.mode) THEN 1 ELSE 2
Atom2SampleSize == atom2_samplesize(model, cache.mode)

\* A sample is blank, a change of tank (0xAA), a surface interval (0xBB), or
\* a measurement, with its time stamp or its gas where the model has one.
Atom2Samples ==
    Plain({"blank"}) \cup
    IF is_freedive(cache.mode) THEN Plain({"sample"})
    ELSE CASE model = "i450t" -> {Class("sample", t) : t \in {0, 2, 4}} \cup {Class("surface", 4)}
           [] model = "tx1" -> {Class("sample", g) : g \in {0, 1, 6, 7}}
           [] model = "dsx" -> {Class("sample", g) : g \in {0, 1, 7}} \cup {Class("surface", 4)}
           [] OTHER -> {Class("sample", 0), Class("surface", 1), Class("surface", 4),
                        Class("tank", 0), Class("tank", 2)}

\* oceanic_atom2_parser_vendor: the bytes since the last complete sample.
Vendor == Value

Atom2Surface(x, end) ==
    LET n == x.v \div Atom2Interval
    IN /\ Deliver([j \in 1..(2 * n) |->
                     IF j % 2 = 1 THEN Time(r.time + ((j + 1) \div 2) * Atom2Interval) ELSE Value])
       /\ Goto("sample", [r EXCEPT !.off = end, !.time = @ + n * Atom2Interval, !.extra = @ + x.v])

\* The rest of a measurement: decompression, remaining times, bookmarks.
Atom2Deco == <<Value>>

\* A measurement: on the models with time stamps, time that stands still is
\* skipped and time that runs backwards is an error.
Atom2Measure(x, end) ==
    LET stamp    == x.v + r.extra
        time     == IF model = "i450t" THEN stamp ELSE r.time + Atom2Interval
        indexed  == model \in {"tx1", "dsx"}
        tank     == IF model = "dsx" THEN x.v ELSE r.tank
        pressure == mem[0].pressure /\ tank > 0
        switch   == indexed /\ x.v # r.last /\ cache.gases > 0
        ss       == <<Time(time), Vendor, Value>> \o If(pressure, Tank(tank - 1)) \o <<Value>>
    IN CASE model = "i450t" /\ stamp < r.time -> Abort("dataformat")
         [] model = "i450t" /\ stamp = r.time -> Silent /\ Goto("sample", [r EXCEPT !.off = end])
         [] switch /\ (x.v < 1 \/ x.v > cache.gases) ->
                IF call = "samples" THEN FinishAfter("dataformat", ss) ELSE Reply(DataFormat)
         [] OTHER -> /\ Deliver(ss \o If(switch, Gas(x.v - 1)) \o Atom2Deco)
                     /\ Goto("sample", [r EXCEPT !.off = end, !.time = time, !.tank = tank,
                                                 !.last = IF switch THEN x.v ELSE @])

oceanic_atom2_parser_samples_foreach ==
    LET limit == size - atom2_footersize(model)
    IN /\ parser = "oceanic_atom2"
       /\ \/ /\ \/ pc = "pass" \/ (pc = "start" /\ call = "samples" /\ cache.cached # "none")
             /\ UNCHANGED cache /\ Silent /\ Skim(atom2_headersize(model) + IF model = "a300cs" THEN 10 ELSE 0)
             /\ Goto("sample", [off |-> atom2_headersize(model), time |-> 0, extra |-> 0,
                                tank |-> 1, last |-> -1])
          \/ /\ pc = "sample" /\ r.off + Atom2SampleSize > limit /\ NoRead
             /\ IF call = "samples" THEN Finish("ok", out) /\ UNCHANGED cache
                ELSE /\ cache' = [cache EXCEPT !.cached = "profile", !.divetime = r.time]
                     /\ Silent /\ Goto("start", << >>)
          \/ /\ pc = "sample" /\ r.off + Atom2SampleSize <= limit /\ UNCHANGED cache
             /\ \E x \in Look(r.off, Atom2Samples) :
                  LET length == IF x.k = "surface" THEN 2 * HALF ELSE Atom2SampleSize
                      end    == r.off + length
                  IN /\ Read(r.off, IF end > limit THEN Atom2SampleSize ELSE length, x)
                     /\ \/ x.k = "blank" /\ Silent /\ Goto("sample", [r EXCEPT !.off = @ + Atom2SampleSize])
                        \/ x.k = "surface" /\ end > limit /\ Abort("dataformat")
                        \/ x.k = "surface" /\ end <= limit /\ Atom2Surface(x, end)
                        \/ x.k = "tank" /\ Silent /\ Goto("sample", [r EXCEPT !.off = end, !.tank = x.v])
                        \/ x.k = "sample" /\ Atom2Measure(x, end)

-----------------------------------------------------------------------------

OceanicFamily == {"oceanic_atom2", "oceanic_veo250", "oceanic_vtpro"}

OceanicInit ==
    oceanic_veo250_parser_create \/ oceanic_vtpro_parser_create \/ oceanic_atom2_parser_create

OceanicNext ==
    \/ oceanic_veo250_parser_get_datetime \/ oceanic_veo250_parser_get_field
    \/ oceanic_veo250_parser_samples_foreach
    \/ oceanic_vtpro_parser_get_datetime \/ oceanic_vtpro_parser_get_field
    \/ oceanic_vtpro_parser_samples_foreach
    \/ oceanic_atom2_parser_get_datetime \/ oceanic_atom2_parser_cache
    \/ oceanic_atom2_parser_get_field \/ oceanic_atom2_parser_samples_foreach
=============================================================================
