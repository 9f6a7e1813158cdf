---------------------------- MODULE MaresParsers ----------------------------
(***************************************************************************)
(* The parsers of the Mares Darwin, Nemo and Icon HD families.  A Darwin   *)
(* dive is a header and samples; a Nemo or Icon HD dive starts with its    *)
(* length and keeps its header at the end; a Genius dive is a header and   *)
(* records with a type at both ends.  The Nemo parser checks the lengths   *)
(* once, when it is created; the Icon HD parser when it is first asked.    *)
(***************************************************************************)
EXTENDS DiveParser

-----------------------------------------------------------------------------
(* Darwin *)

HeaderOf(m) == IF m = "darwinair" THEN 60 ELSE 52
SampleOf(m) == IF m = "darwinair" THEN 3 ELSE 2
DarwinHeader == HeaderOf(model)
DarwinSample == SampleOf(model)

mares_darwin_parser_create ==
    \E m \in {"darwin", "darwinair"} : \E n \in 0..4 : \E d \in {-1, 0, 1} :
        Create("mares_darwin", m, HeaderOf(m) + n * SampleOf(m) + d, << >>)

mares_darwin_parser_get_datetime == Datetime("mares_darwin", DarwinHeader, 6)

DarwinMode == Look(12, {"air", "gauge", "other"})

mares_darwin_parser_get_field ==
    /\ At("mares_darwin", "field", "start") /\ UNCHANGED cache
    /\ IF size < DarwinHeader THEN NoRead /\ Reply(DataFormat)
       ELSE \E mode \in DarwinMode :
              /\ Read(12, 15, mode)
              /\ Reply(Fields(IF mode = "gauge" THEN 0 ELSE 1,
                              IF model = "darwinair" THEN 1 ELSE 0, Stored))

\* The pressure comes with every third sample of a Darwin Air.
mares_darwin_parser_samples_foreach ==
    /\ parser = "mares_darwin" /\ call = "samples" /\ UNCHANGED cache
    /\ \/ pc = "start" /\ size < DarwinHeader /\ NoRead /\ Finish("dataformat", out)
       \/ /\ pc = "start" /\ size >= DarwinHeader
          /\ \E mode \in DarwinMode :
               /\ Read(12, 13, mode) /\ Silent
               /\ Goto("sample", [off |-> DarwinHeader, time |-> 0,
                                  gas |-> IF mode = "gauge" THEN -1 ELSE 0, last |-> -1])
       \/ pc = "sample" /\ r.off + DarwinSample > size /\ NoRead /\ Finish("ok", out)
       \/ /\ pc = "sample" /\ r.off + DarwinSample <= size
          /\ \E events \in Look(r.off, 0..1) :
               LET time == r.time + 20
               IN /\ Read(r.off, DarwinSample, events)
                  /\ Deliver(<<Time(time), Value>> \o If(r.gas # r.last, Gas(r.gas))
                             \o If(events = 1, Value) \o <<Value>>
                             \o If(model = "darwinair" /\ (time \div 20 + 2) % 3 = 0, Tank(0)))
                  /\ Goto("sample", [r EXCEPT !.off = @ + DarwinSample, !.time = time,
                                              !.last = r.gas])

-----------------------------------------------------------------------------
(* Nemo: length, samples, header, and for dives with a transmitter extra   *)
(* bytes that end with a marker                                            *)

FreediveMode(m) == IF m \in {"nemowide", "puckair"} THEN "gauge" ELSE "freedive"
NemoExtra(m, marker) == CASE ~marker -> 0 [] m = "puckair" -> 7 [] OTHER -> 12
NemoSample(m, mode, extra) == CASE mode = FreediveMode(m) -> 6 [] extra = 0 -> 2
                                [] extra = 7 -> 3 [] OTHER -> 5
NemoHeader(m, mode) == IF mode = FreediveMode(m) THEN 28 ELSE 53

\* A parser exists only for a dive whose length agrees with its samples.
mares_nemo_parser_create ==
    \E m \in {"nemo", "nemowide", "apneist", "puckair"} : \E marker \in BOOLEAN :
    \E mode \in {"air", "freedive", "gauge", "other"} : \E n \in 0..3 :
    \E length \in 5..83, more \in {0, 1, 4, 8} :
        LET s     == length + more
            extra == NemoExtra(m, marker)
            ssize == NemoSample(m, mode, extra)
        IN /\ mode = FreediveMode(m) => n <= 2
           /\ s >= 5 /\ length <= s /\ length >= 2 + extra + 3
           /\ length = 2 + n * ssize + NemoHeader(m, mode) + extra
           /\ Create("mares_nemo", m, s,
                     [mode |-> mode, length |-> length, count |-> n, sample |-> ssize,
                      header |-> NemoHeader(m, mode), extra |-> extra])

IsFreedive == cache.mode = FreediveMode(model)

mares_nemo_parser_get_datetime ==
    /\ parser = "mares_nemo" /\ Datetime("mares_nemo", 1, cache.length - cache.extra - 3)

\* The dive time is counted from the samples; that of a session of free dives
\* is the time under water, and not the time of the last sample.
mares_nemo_parser_get_field ==
    /\ At("mares_nemo", "field", "start") /\ UNCHANGED cache
    /\ Skim(2 + cache.count * cache.sample + cache.header
              + IF IsFreedive THEN 0 ELSE IF cache.extra = 0 THEN 0 ELSE IF cache.extra = 12 THEN 8 ELSE 4)
    /\ Reply(IF IsFreedive THEN Fields(0, Unsupported, Stored)
             ELSE Fields(IF cache.mode = "air" THEN 1 ELSE 0, IF cache.extra = 0 THEN 0 ELSE 1,
                         cache.count * 20))

mares_nemo_sample ==
    /\ Doing("mares_nemo", "sample") /\ UNCHANGED cache
    /\ IF r.i = cache.count THEN NoRead /\ Finish("ok", out)
       ELSE LET time == r.time + 20
                gas  == IF cache.mode = "air" THEN 0 ELSE -1
            IN /\ Skim(2 + cache.sample * (r.i + 1))
               /\ Deliver(<<Time(time), Value>> \o If(gas # r.last, Gas(gas)) \o <<Value>>
                          \o If(cache.sample = 3 \/ (cache.sample = 5 /\ (time \div 20) % 3 = 0),
                                Tank(0)))
               /\ Goto("sample", [i |-> r.i + 1, time |-> time, last |-> gas])

\* One free dive: the surface interval, then the profile if there is one.
FreeDives == {[dive |-> 0, surf |-> 60], [dive |-> 3, surf |-> 0], [dive |-> 5, surf |-> 60]}
mares_nemo_freedive ==
    /\ Doing("mares_nemo", "freedive") /\ UNCHANGED cache
    /\ IF r.i = cache.count THEN NoRead /\ Finish("ok", out)
       ELSE \E x \in Look(2 + 6 * r.i, FreeDives) :
              LET time     == r.time + x.surf
                  interval == IF model = "apneist" THEN 1 ELSE 4
                  next     == [r EXCEPT !.i = @ + 1, !.time = time + x.dive]
              IN /\ Read(2 + 6 * r.i, 6, x)
                 /\ IF size > cache.length
                    THEN /\ Deliver(<<Time(time), Value>>)
                         /\ Goto("depth", [next EXCEPT !.time = time] @@
                                 [n |-> (x.dive + interval - 1) \div interval, count |-> 0,
                                  maxtime |-> time + x.dive, interval |-> interval])
                    ELSE /\ Deliver(<<Time(time), Value, Time(time + x.dive), Value>>)
                         /\ Goto("freedive", next)

\* The depths up to the zero that ends them must be as many as the dive time
\* says; the last one is moved to the end of the dive.
mares_nemo_depth ==
    LET next == [i |-> r.i, time |-> r.time, off |-> r.off]
        done(off, count) ==
            IF count # r.n THEN Finish("dataformat", out)
            ELSE Silent /\ Goto("freedive", [next EXCEPT !.off = off])
    IN /\ Doing("mares_nemo", "depth") /\ UNCHANGED cache
       /\ IF r.off + 2 > size THEN NoRead /\ done(r.off, r.count)
          ELSE \E x \in Look(r.off, {"zero", "depth"}) :
                 LET time == IF r.time + r.interval > r.maxtime THEN r.maxtime
                             ELSE r.time + r.interval
                 IN /\ Read(r.off, 2, x)
                    /\ \/ x = "zero" /\ done(r.off + 2, r.count)
                       \/ x = "depth" /\ r.count + 1 > r.n /\ done(r.off + 2, r.count + 1)
                       \/ /\ x = "depth" /\ r.count + 1 <= r.n
                          /\ Deliver(<<Time(time), Value>>)
                          /\ Goto("depth", [r EXCEPT !.off = @ + 2, !.count = @ + 1, !.time = time])

mares_nemo_parser_samples_foreach ==
    \/ /\ At("mares_nemo", "samples", "start") /\ UNCHANGED cache /\ Silent
       /\ Skim(IF ~IsFreedive /\ cache.extra = 12 THEN cache.length - 6 ELSE 0)
       /\ IF IsFreedive THEN Goto("freedive", [i |-> 0, time |-> 0, off |-> cache.length])
          ELSE Goto("sample", [i |-> 0, time |-> 0, last |-> -1])
    \/ mares_nemo_sample \/ mares_nemo_freedive \/ mares_nemo_depth

-----------------------------------------------------------------------------
(* Icon HD.  Times are in milliseconds: a Smart Apnea takes several        *)
(* samples a second.                                                       *)

IconModels == {"iconhd", "iconhdnet", "smart", "smartapnea", "smartair"}

IconFormat(h, s, t, g) == [header |-> h, sample |-> s, tanks |-> t, gases |-> g]
mares_iconhd_layout(m, mode) ==
    CASE m = "iconhdnet" -> IconFormat(128, 12, TRUE, TRUE)
      [] m = "smart" /\ mode = "freedive" -> IconFormat(46, 6, FALSE, FALSE)
      [] m = "smartair" /\ mode = "freedive" -> IconFormat(48, 6, FALSE, FALSE)
      [] m = "smartair" /\ mode # "freedive" -> IconFormat(132, 12, TRUE, TRUE)
      [] m = "smartapnea" -> IconFormat(80, 14, FALSE, FALSE)
      [] OTHER -> IconFormat(92, 8, FALSE, TRUE)
\* The bytes at the end that hold the type and the number of samples.
IconTrailer == CASE model = "iconhdnet" -> 128 [] model \in {"smart", "smartair"} -> 4
                 [] model = "smartapnea" -> 6 [] OTHER -> 92

IconNotCached == [cached |-> FALSE, mode |-> "air", n |-> 0, size |-> 0, header |-> 0,
              gases |-> 0, tanks |-> 0, surface |-> 0, interval |-> 0]

IconBytes(m, h) ==
    LET l == mares_iconhd_layout(m, h.mode)
    IN 4 + l.header + h.n * l.sample
       + CASE l.tanks -> (h.n \div 4) * 8 [] m = "smartapnea" -> h.dive * h.rate * 2 [] OTHER -> 0

\* What the trailer says; the free dives of a Smart Apnea last `dive' seconds.
IconDives(m) == {h \in [mode : {"air", "gauge", "nitrox", "freedive"}, n : {1, 2, 4},
                        gases : 1..2, tanks : 0..1, dive : 0..2, rate : 1..2] :
                    /\ h.mode # "nitrox" => h.gases = 1
                    /\ IF mares_iconhd_layout(m, h.mode).tanks THEN h.n # 2
                                                               ELSE h.n # 4 /\ h.tanks = 0
                    /\ IF m = "smartapnea" THEN h.mode = "freedive" ELSE h.dive = 0 /\ h.rate = 1}

mares_iconhd_parser_create ==
    \/ \E m \in IconModels : \E h \in IconDives(m), d \in {0, 3} :
         Create("mares_iconhd", m, IconBytes(m, h) + d, IconNotCached)
    \/ \E s \in {0, 3, 4, 95, 96} : Create("mares_iconhd", "iconhd", s, IconNotCached)
    \/ \E s \in {19, 183, 184, 187, 204, 222, 238, 246} :
         Create("mares_iconhd", "genius", s, IconNotCached)

\* mares_iconhd_cache: the header of a dive whose lengths agree.
IconHeaders ==
    LET bad == [mode |-> "air", n |-> 9, gases |-> 1, tanks |-> 0, dive |-> 0, rate |-> 1]
    IN {h @@ [length |-> IconBytes(model, h)] :
            h \in {d \in IconDives(model) : IconBytes(model, d) \in {size, size - 3}}}
       \cup {bad @@ [length |-> l] : l \in {3, size, size + 1}}
mares_iconhd_cache(h) ==
    LET l == mares_iconhd_layout(model, h.mode)
    IN IF \/ size < 4 \/ h.length < 4 + IconTrailer \/ h.length > size
          \/ h.length < 4 + l.header \/ h.length # IconBytes(model, h) THEN IconNotCached
       ELSE [cached |-> TRUE, mode |-> h.mode, n |-> h.n, size |-> h.length, header |-> l.header,
             gases |-> CASE ~l.gases -> 0 [] h.mode \in {"gauge", "freedive"} -> 0
                         [] h.mode = "air" -> 1 [] OTHER -> h.gases,
             tanks |-> h.tanks, surface |-> 180,
             interval |-> IF model = "smartapnea" THEN 1000 \div h.rate ELSE 5000]

\* mares_genius_cache: the object header, of one of two sizes.
GeniusHeaders == {h \in [valid : BOOLEAN, header : {184, 208}, gases : 0..2, tanks : 0..1] :
                     h.valid \/ h = [valid |-> FALSE, header |-> 184, gases |-> 0, tanks |-> 0]}
mares_genius_cache(h) ==
    IF size < 20 \/ ~h.valid \/ h.header > size THEN IconNotCached
    ELSE [IconNotCached EXCEPT !.cached = TRUE, !.size = size, !.header = h.header,
                           !.gases = h.gases, !.tanks = h.tanks,
                           !.surface = 180, !.interval = 5000]

\* mares_iconhd_parser_cache
mares_iconhd_parser_cache ==
    \/ cache.cached /\ UNCHANGED cache /\ NoRead
    \/ /\ ~cache.cached /\ model = "genius"
       /\ \E h \in Look(0, GeniusHeaders) :
            /\ cache' = mares_genius_cache(h)
            /\ Read(0, CASE size < 20 -> 0 [] ~cache'.cached -> 20 [] OTHER -> h.header, h)
    \/ /\ ~cache.cached /\ model # "genius"
       /\ \E h \in Look(0, IconHeaders) :
            /\ cache' = mares_iconhd_cache(h)
            /\ Read(0, CASE size < 4 -> 0 [] ~cache'.cached -> 4 [] OTHER -> h.length, h)

mares_iconhd_parser_get_datetime ==
    /\ parser = "mares_iconhd" /\ call = "none" /\ mares_iconhd_parser_cache
    /\ status' = IF cache'.cached THEN "ok" ELSE "dataformat"
    /\ UNCHANGED <<call, pc, r, out, ans>> /\ Same

\* The dive time is in the header (of a Genius: as a number of samples), or
\* the time of the samples without the minutes recorded at the surface, which
\* wraps around for a dive cut off before that.
IconDivetime(c) ==
    LET net == (c.n * c.interval) \div 1000 - c.surface
    IN CASE model \in {"smartapnea", "genius"} \/ (model \in {"smart", "smartair"} /\ c.mode = "freedive")
              -> Stored
         [] net < 0 -> Wrapped
         [] OTHER -> net

mares_iconhd_parser_get_field ==
    /\ At("mares_iconhd", "field", "start") /\ mares_iconhd_parser_cache
    /\ Reply(IF ~cache'.cached THEN DataFormat
             ELSE Fields(cache'.gases, cache'.tanks, IconDivetime(cache')))

mares_iconhd_parser_samples_foreach ==
    /\ At("mares_iconhd", "samples", "start") /\ mares_iconhd_parser_cache
    /\ IF ~cache'.cached THEN Finish("dataformat", out)
       ELSE /\ Silent
            /\ Goto(IF model = "genius" THEN "profile" ELSE "sample",
                    [off |-> IF model = "genius" THEN cache'.header ELSE 4,
                     n |-> 0, time |-> 0, last |-> -1, tank |-> -1])

\* The free dives of a session: all of one Smart Apnea dive in a step.  Nothing
\* relates their times to that of the header: short ones end in the header
\* behind the samples, a long one outside the dive.
IconFreedives == 0..2 \cup IF model = "smartapnea" /\ "mares_iconhd" \in Unchecked THEN {64} ELSE {}
mares_iconhd_freedive(x) ==
    LET apnea == model = "smartapnea"
        count == IF apnea THEN x * mem[0].rate ELSE 1
        step  == IF apnea THEN cache.interval ELSE x * 1000
        start == r.time + 1000       \* after the surface interval
        len   == (IF apnea THEN 14 ELSE mares_iconhd_layout(model, "freedive").sample)
                 + IF apnea THEN 2 * count ELSE 0
    IN /\ Read(r.off, len, x)
       /\ Deliver(<<Time(start), Value>> \o
                  [i \in 1..(2 * count) |->
                      IF i % 2 = 1 THEN Time(start + ((i + 1) \div 2) * step) ELSE Value])
       /\ Goto("sample", [r EXCEPT !.n = @ + 1, !.off = @ + len,
                                   !.time = start + count * step])

\* A sample; after every fourth there is a pressure.
mares_iconhd_sample(gas) ==
    LET l    == mares_iconhd_layout(model, cache.mode)
        more == IF l.tanks /\ (r.n + 1) % 4 = 0 THEN 8 ELSE 0
        time == r.time + cache.interval
        ss   == <<Time(time), Value, Value>>
    IN /\ Read(r.off, l.sample + more, gas)
       /\ IF cache.gases > 0 /\ gas >= cache.gases THEN FinishAfter("dataformat", ss)
          ELSE /\ Deliver(ss \o If(cache.gases > 0 /\ gas # r.last, Gas(gas))
                          \o If(more > 0 /\ gas < cache.tanks, Tank(gas)))
               /\ Goto("sample", [r EXCEPT !.n = @ + 1, !.off = @ + l.sample + more, !.time = time,
                                           !.last = IF cache.gases > 0 THEN gas ELSE @])

mares_iconhd_foreach ==
    /\ At("mares_iconhd", "samples", "sample") /\ UNCHANGED cache
    /\ \/ r.n = cache.n /\ NoRead /\ Finish("ok", out)
       \/ /\ r.n < cache.n /\ (model = "smartapnea" \/ cache.mode = "freedive")
          /\ \E x \in Look(r.off, IconFreedives) : mares_iconhd_freedive(x)
       \/ /\ r.n < cache.n /\ model # "smartapnea" /\ cache.mode # "freedive"
          /\ \E gas \in Look(r.off, 0..1) : mares_iconhd_sample(gas)

\* The records of a Genius, whose type is repeated after a checksum.
GeniusRecords == {[k |-> k, v |-> v] : k \in {"DPRS", "SDPT"}, v \in 0..1}
                 \cup Plain({"DSTR", "TISS", "AIRS", "DEND", "unknown", "damaged"})
GeniusSize(x) == CASE x.k = "DSTR" -> 58 [] x.k = "TISS" -> 138 [] x.k \in {"DPRS", "damaged"} -> 34
                   [] x.k = "SDPT" -> 78 [] x.k = "AIRS" -> 16 [] x.k = "DEND" -> 162 [] OTHER -> 10

\* The profile starts with a type and a version the parser has to know.
mares_genius_profile ==
    /\ At("mares_iconhd", "samples", "profile") /\ UNCHANGED cache
    /\ \/ r.off + 4 > size /\ NoRead /\ Finish("dataformat", out)
       \/ /\ r.off + 4 <= size
          /\ \E known \in Look(r.off, BOOLEAN) :
               /\ Read(r.off, 4, known)
               /\ IF known THEN Silent /\ Goto("record", [r EXCEPT !.off = @ + 4])
                           ELSE Finish("dataformat", out)

mares_genius_foreach ==
    /\ parser = "mares_iconhd" /\ call = "samples" /\ UNCHANGED cache
    /\ \/ pc = "record" /\ r.off >= size /\ NoRead /\ Finish("ok", out)
       \/ pc = "record" /\ r.off < size /\ r.off + 10 > size /\ NoRead /\ Finish("dataformat", out)
       \/ /\ pc = "record" /\ r.off + 10 <= size
          /\ \E x \in Look(r.off, GeniusRecords) :
               LET end  == r.off + GeniusSize(x)
                   time == r.time + cache.interval
                   ss   == <<Time(time), Value, Value>>
               IN /\ Read(r.off, IF end > size THEN 10 ELSE GeniusSize(x), x)
                  /\ \/ /\ end > size \/ x.k \in {"unknown", "damaged"}
                        /\ Finish("dataformat", out)
                     \/ /\ end <= size /\ x.k \in {"DSTR", "TISS", "DEND"} /\ Silent
                        /\ Goto("record", [r EXCEPT !.off = end])
                     \/ /\ end <= size /\ x.k = "AIRS"
                        /\ Deliver(If(r.tank >= 0 /\ r.tank < cache.tanks, Tank(r.tank)))
                        /\ Goto("record", [r EXCEPT !.off = end])
                     \/ /\ end <= size /\ x.k \in {"DPRS", "SDPT"}
                        /\ IF cache.gases > 0 /\ x.v >= cache.gases
                           THEN FinishAfter("dataformat", ss)
                           ELSE /\ Deliver(ss \o If(cache.gases > 0 /\ x.v # r.last, Gas(x.v))
                                           \o <<Value>>)
                                /\ Goto("record", [r EXCEPT !.off = end, !.time = time, !.tank = x.v,
                                              !.last = IF cache.gases > 0 THEN x.v ELSE @])

-----------------------------------------------------------------------------

MaresFamily == {"mares_darwin", "mares_iconhd", "mares_nemo"}

MaresInit == mares_darwin_parser_create \/ mares_nemo_parser_create \/ mares_iconhd_parser_create

MaresNext ==
    \/ mares_darwin_parser_get_datetime \/ mares_darwin_parser_get_field
    \/ mares_darwin_parser_samples_foreach
    \/ mares_nemo_parser_get_datetime \/ mares_nemo_parser_get_field
    \/ mares_nemo_parser_samples_foreach
    \/ mares_iconhd_parser_get_datetime \/ mares_iconhd_parser_get_field
    \/ mares_iconhd_parser_samples_foreach \/ mares_iconhd_foreach
    \/ mares_genius_profile \/ mares_genius_foreach
=============================================================================
