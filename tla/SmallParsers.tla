---------------------------- MODULE SmallParsers ----------------------------
(***************************************************************************)
(* The parsers of the DiveComputer.eu, Sporasub SP2, Deepblu Cosmiq,       *)
(* Citizen Aqualand, Oceans S1 and McLean Extreme, and of the Reefnet      *)
(* Sensus, Sensus Pro and Sensus Ultra.                                    *)
(***************************************************************************)
EXTENDS DiveParser

Step == 10     \* a sample interval

\* A field answered from a header of h bytes, of which the first `last' are read.
HeaderField(h, last, f) ==
    IF size < h THEN NoRead /\ Reply(DataFormat) ELSE Skim(last) /\ Reply(f)

-----------------------------------------------------------------------------
(* DiveComputer.eu: a header of 100 bytes, samples of 8 *)

tecdiving_divecomputereu_parser_create ==
    \E s \in Sizes("tecdiving_divecomputereu", {48, 99, 100, 107, 108, 116}, {0, 47}) :
        Create("tecdiving_divecomputereu", 0, s, << >>)

tecdiving_divecomputereu_parser_get_datetime == Datetime("tecdiving_divecomputereu", 100, 8)

tecdiving_divecomputereu_parser_get_field ==
    /\ At("tecdiving_divecomputereu", "field", "start") /\ UNCHANGED cache
    /\ HeaderField(100, 43, Fields(Unsupported, Unsupported, Stored))

tecdiving_divecomputereu_parser_samples_foreach ==
    /\ parser = "tecdiving_divecomputereu" /\ call = "samples" /\ UNCHANGED cache
    /\ \/ pc = "start" /\ Skim(48) /\ Silent /\ Goto("sample", [off |-> 100, time |-> 0])
       \/ pc = "sample" /\ r.off + 8 > size /\ NoRead /\ Finish("ok", out)
       \/ /\ pc = "sample" /\ r.off + 8 <= size
          /\ Skim(r.off + 8) /\ Deliver(<<Time(r.time + Step), Value, Value, Value, Value>>)
          /\ Goto("sample", [off |-> r.off + 8, time |-> r.time + Step])

-----------------------------------------------------------------------------
(* SP2: a header of 32 bytes with the number of samples, samples of 4 *)

sporasub_sp2_parser_create ==
    \E s \in {0, 31, 32, 35, 36, 40, 44} : Create("sporasub_sp2", 0, s, << >>)

sporasub_sp2_parser_get_datetime == Datetime("sporasub_sp2", 32, 8)

sporasub_sp2_parser_get_field ==
    /\ At("sporasub_sp2", "field", "start") /\ UNCHANGED cache
    /\ HeaderField(32, 27, Fields(Unsupported, Unsupported, Stored))

sporasub_sp2_parser_samples_foreach ==
    /\ parser = "sporasub_sp2" /\ call = "samples" /\ UNCHANGED cache
    /\ \/ pc = "start" /\ size < 32 /\ NoRead /\ Finish("dataformat", out)
       \/ /\ pc = "start" /\ size >= 32
          /\ \E n \in Look(0, 0..2) :
               /\ Read(0, 27, n) /\ Silent
               /\ Goto("sample", [off |-> 32, time |-> 0, left |-> n])
       \/ pc = "sample" /\ (r.off + 4 > size \/ r.left = 0) /\ NoRead /\ Finish("ok", out)
       \/ /\ pc = "sample" /\ r.off + 4 <= size /\ r.left > 0
          /\ \E heart \in Look(r.off, BOOLEAN) :
               /\ Read(r.off, 4, heart)
               /\ Deliver(<<Time(r.time + Step), Value, Value>> \o If(heart, Value))
          /\ Goto("sample", [off |-> r.off + 4, time |-> r.time + Step, left |-> r.left - 1])

-----------------------------------------------------------------------------
(* Cosmiq: a header of 36 bytes, samples of 4, some of them blank *)

deepblu_cosmiq_parser_create ==
    \E s \in {0, 35, 36, 39, 40, 44, 48} : Create("deepblu_cosmiq", 0, s, << >>)

deepblu_cosmiq_parser_get_datetime == Datetime("deepblu_cosmiq", 36, 12)

deepblu_cosmiq_parser_get_field ==
    /\ At("deepblu_cosmiq", "field", "start") /\ UNCHANGED cache
    /\ IF size < 36 THEN NoRead /\ Reply(DataFormat)
       ELSE \E scuba \in Look(2, {0, 1}) :
              Read(2, 22, scuba) /\ Reply(Fields(scuba, Unsupported, Stored))

deepblu_cosmiq_parser_samples_foreach ==
    /\ parser = "deepblu_cosmiq" /\ call = "samples" /\ UNCHANGED cache
    /\ \/ pc = "start" /\ size < 36 /\ NoRead /\ Finish("dataformat", out)
       \/ /\ pc = "start" /\ size >= 36
          /\ Skim(27) /\ Silent /\ Goto("sample", [off |-> 36, time |-> 0])
       \/ pc = "sample" /\ r.off + 4 > size /\ NoRead /\ Finish("ok", out)
       \/ /\ pc = "sample" /\ r.off + 4 <= size
          /\ \E blank \in Look(r.off, BOOLEAN) :
               LET time == IF blank THEN r.time ELSE r.time + Step
               IN /\ Read(r.off, 4, blank)
                  /\ Deliver(IF blank THEN << >> ELSE <<Time(time), Value, Value>>)
                  /\ Goto("sample", [off |-> r.off + 4, time |-> time])

-----------------------------------------------------------------------------
(* Aqualand: a header of 32 bytes, then depths and temperatures of three   *)
(* nibbles each, the two lists ended by 0xEF and 0xFF                      *)

citizen_aqualand_parser_create ==
    \E s \in {0, 31, 32, 33, 34, 35, 36, 37, 38} : Create("citizen_aqualand", 0, s, << >>)

citizen_aqualand_parser_get_datetime == Datetime("citizen_aqualand", 32, 13)

citizen_aqualand_parser_get_field ==
    /\ At("citizen_aqualand", "field", "start") /\ UNCHANGED cache
    /\ HeaderField(32, 24, Fields(0, Unsupported, Stored))

\* The markers are bytes of their own: the class of an octet is whether it is
\* the end of the first or of the second list, or digits.
Octet(o) == Look(o, {"digits", "EF", "FF"})
Marker(i) == IF i = 0 THEN "EF" ELSE "FF"

\* The first half of samples_foreach collects both lists.  r.off counts
\* nibbles; maxcount bounds the array the values are put into.
citizen_collect ==
    /\ parser = "citizen_aqualand" /\ call = "samples" /\ UNCHANGED cache
    /\ \/ pc = "start" /\ size < 32 /\ NoRead /\ Finish("dataformat", out)
       \/ /\ pc = "start" /\ size >= 32 /\ Skim(5) /\ Silent
          /\ Goto("collect", [off |-> 64, list |-> 0, n |-> 0, depths |-> 0,
                              max |-> (2 * (size - 32) + 2) \div 3])
       \/ /\ pc = "collect" /\ r.off + 3 <= 2 * size
          /\ LET o == r.off \div 2 IN
             \E hi \in Octet(o) : \E lo \in Octet(o + 1) :
               /\ mem' = (o :> hi) @@ (o + 1 :> lo) @@ mem /\ Silent
               /\ IF Marker(r.list) \in {hi, lo}
                  THEN /\ Touch(o + 2)
                       /\ Goto("marker", [r EXCEPT !.off = @ + (@ % 2)])
                  ELSE /\ inside' = (inside /\ o + 2 <= size /\ r.n < r.max)
                       /\ Goto("collect", [r EXCEPT !.off = @ + 3, !.n = @ + 1,
                                           !.depths = IF r.list = 0 THEN @ + 1 ELSE @])
       \/ /\ pc = "collect" /\ r.off + 3 > 2 * size
          /\ NoRead /\ Silent /\ Goto("marker", r)

\* Each list must end with its marker; then the depths are delivered, every
\* sixtieth one (five minutes) with a temperature.
citizen_aqualand_parser_samples_foreach ==
    /\ parser = "citizen_aqualand" /\ call = "samples" /\ UNCHANGED cache
    /\ \/ pc = "marker" /\ r.off + 2 > 2 * size /\ NoRead /\ Finish("dataformat", out)
       \/ /\ pc = "marker" /\ r.off + 2 <= 2 * size
          /\ \E x \in Octet(r.off \div 2) :
               /\ Read(r.off \div 2, 1, x)
               /\ IF x # Marker(r.list) THEN Finish("dataformat", out)
                  ELSE IF r.list = 0
                  THEN Silent /\ Goto("collect", [r EXCEPT !.off = @ + 2, !.list = 1])
                  ELSE Silent /\ Goto("sample", [r EXCEPT !.off = 0])
       \/ /\ pc = "sample" /\ r.off < r.depths /\ NoRead
          /\ Deliver(<<Time(5 * (r.off + 1)), Value>>
                     \o If((r.off + 1) % 60 = 0 /\ r.depths + (r.off + 1) \div 60 < r.n, Value))
          /\ Goto("sample", [r EXCEPT !.off = @ + 1])
       \/ pc = "sample" /\ r.off >= r.depths /\ NoRead /\ Finish("ok", out)

-----------------------------------------------------------------------------
(* Oceans S1: lines of text.  size counts lines; get_datetime, like        *)
(* get_field, first makes a pass without callback                          *)

oceans_s1_parser_create ==
    \E s \in 0..3 : Create("oceans_s1", 0, s, [cached |-> FALSE, mode |-> 0])

OceansStart == [off |-> 0, time |-> 0, interval |-> 10, mode |-> 0]

oceans_s1_parser_get_datetime ==
    /\ parser = "oceans_s1" /\ NoRead /\ UNCHANGED cache
    /\ \/ /\ call = "none" /\ ~cache.cached /\ call' = "datetime" /\ pc' = "line"
          /\ r' = OceansStart /\ Same /\ UNCHANGED <<out, ans, status>>
       \/ (call = "none" \/ (call = "datetime" /\ pc = "start")) /\ cache.cached /\ Tell("ok")

oceans_s1_parser_get_field ==
    /\ At("oceans_s1", "field", "start") /\ NoRead /\ UNCHANGED cache
    /\ IF cache.cached
       THEN Reply(Fields(IF cache.mode = 0 THEN 1 ELSE 0, Unsupported, Stored))
       ELSE Silent /\ Goto("line", OceansStart)

\* The lines: "divelog" with an interval, "dive" with a mode, "continue" with a
\* number of seconds, a sample, the other known lines, one that does not parse.
OceansLines == {Class("divelog", 0), Class("divelog", 5), Class("dive", 0), Class("dive", 1),
                Class("continue", 4), Class("continue", 12), Class("sample", 0),
                Class("other", 0), Class("bad", 0)}

oceans_s1_parser_samples_foreach ==
    /\ parser = "oceans_s1" /\ call # "none"
    /\ \/ /\ pc = "start" /\ call = "samples" /\ NoRead /\ Silent /\ UNCHANGED cache
          /\ Goto("line", OceansStart)
       \/ /\ pc = "line" /\ r.off = size /\ NoRead
          /\ cache' = [cached |-> TRUE, mode |-> r.mode]
          /\ IF call = "samples" THEN Finish("ok", out) ELSE Silent /\ Goto("start", << >>)
       \/ /\ pc = "line" /\ r.off < size /\ UNCHANGED cache
          /\ \E x \in Look(r.off, OceansLines) :
               /\ Read(r.off, 1, x)
               /\ LET next == [r EXCEPT !.off = @ + 1]
                      skip == x.v \div r.interval   \* samples at the surface
                  IN CASE x.k = "bad" \/ (x.k = "divelog" /\ x.v = 0) -> Abort("dataformat")
                       [] x.k = "divelog" /\ x.v # 0 ->
                            Silent /\ Goto("line", [next EXCEPT !.interval = x.v])
                       [] x.k = "dive" -> Silent /\ Goto("line", [next EXCEPT !.mode = x.v])
                       [] x.k = "other" -> Silent /\ Goto("line", next)
                       [] x.k = "continue" ->
                            /\ Deliver([i \in 1..2 * (skip + 1) |->
                                  IF i % 2 = 0 THEN Value
                                  ELSE Time(r.time + r.interval * ((i + 1) \div 2))])
                            /\ Goto("line", [next EXCEPT !.time = @ + r.interval * (skip + 1)])
                       [] x.k = "sample" ->
                            /\ Deliver(<<Time(r.time + r.interval), Value, Value, Value>>)
                            /\ Goto("line", [next EXCEPT !.time = @ + r.interval])

-----------------------------------------------------------------------------
(* McLean Extreme: the gas mixes are those the samples name, in the order  *)
(* they are met; a pass over the samples collects them                     *)

MCLEAN_HEADER == 45 + 49
mclean_extreme_parser_create ==
    \E s \in {0, 93, 94, 95, 98, 102, 106} :
        Create("mclean_extreme", 0, s, [cached |-> FALSE, gases |-> << >>])

mclean_extreme_parser_get_datetime == Datetime("mclean_extreme", MCLEAN_HEADER, 49)

mclean_extreme_parser_get_field ==
    /\ At("mclean_extreme", "field", "start") /\ UNCHANGED cache
    /\ \/ size < MCLEAN_HEADER /\ NoRead /\ Reply(DataFormat)
       \/ /\ size >= MCLEAN_HEADER /\ ~cache.cached
          /\ NoRead /\ Silent /\ Goto("pass", << >>)
       \/ /\ size >= MCLEAN_HEADER /\ cache.cached
          /\ \E density \in Look(35, {"known", "unknown"}) :
               /\ Read(35, 36, density)
               /\ Reply(IF density = "unknown" THEN DataFormat
                        ELSE Fields(Len(cache.gases), Unsupported, Stored))

mclean_extreme_parser_samples_foreach ==
    /\ parser = "mclean_extreme"
    /\ \/ /\ pc = "pass" \/ (pc = "start" /\ call = "samples")
          /\ IF size < MCLEAN_HEADER THEN NoRead /\ Abort("dataformat")
             ELSE \E n \in Look(92, 0..3) :
                    /\ Read(92, 2, n)
                    /\ IF size # MCLEAN_HEADER + 4 * n THEN Abort("dataformat")
                       ELSE /\ Silent
                            /\ Goto("sample", [off |-> MCLEAN_HEADER, time |-> 0,
                                               gases |-> << >>, last |-> -1])
          /\ UNCHANGED cache
       \/ /\ pc = "sample" /\ r.off < size /\ UNCHANGED cache
          /\ \E x \in Look(r.off, {[gas |-> g, ccr |-> g = 7] : g \in {0, 3, 7}}) :
               /\ Read(r.off, 4, x)
               /\ Deliver(<<Time(r.time + Step), Value, Value>>
                          \o If(x.gas # r.last, Gas(Find(r.gases, x.gas))) \o If(x.ccr, Value))
               /\ Goto("sample", [off |-> r.off + 4, time |-> r.time + Step,
                                  gases |-> Adding(r.gases, x.gas), last |-> x.gas])
       \/ /\ pc = "sample" /\ r.off >= size /\ NoRead
          /\ cache' = [cached |-> TRUE, gases |-> r.gases]
          /\ IF call = "samples" THEN Finish("ok", out) ELSE Silent /\ Goto("start", << >>)

-----------------------------------------------------------------------------

SmallFamily == {"citizen_aqualand", "deepblu_cosmiq", "mclean_extreme", "oceans_s1", "sporasub_sp2", "tecdiving_divecomputereu"}

SmallInit ==
    \/ tecdiving_divecomputereu_parser_create \/ sporasub_sp2_parser_create
    \/ deepblu_cosmiq_parser_create \/ citizen_aqualand_parser_create
    \/ oceans_s1_parser_create \/ mclean_extreme_parser_create

SmallNext ==
    \/ tecdiving_divecomputereu_parser_get_datetime \/ tecdiving_divecomputereu_parser_get_field
    \/ tecdiving_divecomputereu_parser_samples_foreach
    \/ sporasub_sp2_parser_get_datetime \/ sporasub_sp2_parser_get_field
    \/ sporasub_sp2_parser_samples_foreach
    \/ deepblu_cosmiq_parser_get_datetime \/ deepblu_cosmiq_parser_get_field
    \/ deepblu_cosmiq_parser_samples_foreach
    \/ citizen_aqualand_parser_get_datetime \/ citizen_aqualand_parser_get_field
    \/ citizen_collect \/ citizen_aqualand_parser_samples_foreach
    \/ oceans_s1_parser_get_datetime \/ oceans_s1_parser_get_field \/ oceans_s1_parser_samples_foreach
    \/ mclean_extreme_parser_get_datetime \/ mclean_extreme_parser_get_field
    \/ mclean_extreme_parser_samples_foreach

-----------------------------------------------------------------------------
(***************************************************************************)
(* Reefnet.  The dives carry no dive time: get_field walks over the        *)
(* samples once and keeps the result, samples_foreach makes a walk of its  *)
(* own, from the header that the driver has cut the dive at.               *)
(***************************************************************************)

CONSTANT SurfaceCount   \* consecutive surface samples that end a Sensus dive
                        \* (17 in the code)

Interval == 10          \* the sample interval in the header, only added up
Unread == [cached |-> FALSE, divetime |-> 0]

-----------------------------------------------------------------------------
(* Sensus: one byte of depth, and every sixth sample one of temperature *)

reefnet_sensus_parser_create ==
    \E s \in {0, 6, 7, 8, 9, 10, 11, 16, 17} : Create("reefnet_sensus", 0, s, Unread)

reefnet_sensus_parser_get_datetime == Datetime("reefnet_sensus", 6, 6)

reefnet_sensus_parser_get_field ==
    /\ At("reefnet_sensus", "field", "start")
    /\ \/ size < 7 /\ NoRead /\ Reply(DataFormat)
       \/ size >= 7 /\ cache.cached /\ NoRead /\ Reply(Fields(0, Unsupported, cache.divetime))
       \/ /\ size >= 7 /\ ~cache.cached
          /\ Skim(2) /\ Silent
          /\ Goto("scan", [off |-> 7, n |-> 0, surface |-> 0])
    /\ UNCHANGED cache

\* Whether the n-th sample has a temperature, and the surface count after d.
Sixth(n) == IF n % 6 = 0 THEN 1 ELSE 0
Surface(d) == IF d = "surface" THEN r.surface + 1 ELSE 0

sensus_scan ==
    /\ At("reefnet_sensus", "field", "scan")
    /\ IF r.off + 1 <= size /\ r.surface < SurfaceCount
       THEN /\ \E d \in Look(r.off, {"deep", "surface"}) :
                 /\ Read(r.off, 1, d)
                 /\ Goto("scan", [off |-> r.off + 1 + Sixth(r.n), n |-> r.n + 1,
                                  surface |-> Surface(d)])
            /\ Silent /\ UNCHANGED cache
       ELSE /\ cache' = [cached |-> TRUE, divetime |-> r.n * Interval]
            /\ Reply(Fields(0, Unsupported, r.n * Interval)) /\ NoRead

reefnet_sensus_parser_samples_foreach ==
    /\ At("reefnet_sensus", "samples", "start") /\ UNCHANGED cache
    /\ IF 7 > size THEN NoRead /\ Finish("ok", out)
       ELSE Skim(7) /\ Silent /\ Goto("sample", [off |-> 7, n |-> 0, surface |-> 0])

sensus_sample ==
    /\ At("reefnet_sensus", "samples", "sample")
    /\ IF r.off + 1 <= size /\ r.surface < SurfaceCount
       THEN \E d \in Look(r.off, {"deep", "surface"}) :
              LET cut == r.n % 6 = 0 /\ r.off + 2 > size
                  ss  == <<Time((r.n + 1) * Interval), Value>>
              IN /\ Read(r.off, IF cut THEN 1 ELSE 1 + Sixth(r.n), d)
                 /\ IF cut
                    THEN FinishAfter("dataformat", ss)
                    ELSE /\ Deliver(ss \o If(r.n % 6 = 0, Value))
                         /\ Goto("sample", [off |-> r.off + 1 + Sixth(r.n),
                                            n |-> r.n + 1, surface |-> Surface(d)])
       ELSE NoRead /\ Finish("ok", out)
    /\ UNCHANGED cache

-----------------------------------------------------------------------------
(* Sensus Pro and Ultra: samples of w bytes after a header of h bytes, up  *)
(* to a footer of w bytes                                                  *)

Layout == [reefnet_sensuspro   |-> [h |-> 10, w |-> 2, min |-> 12, interval |-> 6],
           reefnet_sensusultra |-> [h |-> 16, w |-> 4, min |-> 20, interval |-> 12]]
L == Layout[parser]

reefnet_sensuspro_parser_create ==
    \E s \in {0, 9, 10, 11, 12, 13, 14, 16} : Create("reefnet_sensuspro", 0, s, Unread)
reefnet_sensusultra_parser_create ==
    \E s \in {0, 15, 16, 19, 20, 23, 24, 28} : Create("reefnet_sensusultra", 0, s, Unread)

reefnet_sensuspro_parser_get_datetime == Datetime("reefnet_sensuspro", 10, 10)
reefnet_sensusultra_parser_get_datetime == Datetime("reefnet_sensusultra", 8, 8)

Words == {"deep", "shallow", "footer"}

\* get_field of both: the cached summary, or a first walk over the samples.
FieldStart ==
    /\ call = "field" /\ pc = "start"
    /\ \/ size < L.min /\ NoRead /\ Reply(DataFormat)
       \/ size >= L.min /\ cache.cached /\ NoRead /\ Reply(Fields(0, Unsupported, cache.divetime))
       \/ /\ size >= L.min /\ ~cache.cached
          /\ Skim(L.interval) /\ Silent
          /\ Goto("scan", [off |-> L.h, n |-> 0])
    /\ UNCHANGED cache

\* One round of that walk; the Ultra counts samples from its threshold on.
FieldScan ==
    /\ call = "field" /\ pc = "scan"
    /\ IF r.off + L.w > size
       THEN /\ cache' = [cached |-> TRUE, divetime |-> r.n * Interval]
            /\ NoRead /\ Reply(Fields(0, Unsupported, r.n * Interval))
       ELSE \E x \in Look(r.off, Words) :
              /\ Read(r.off, L.w, x)
              /\ IF x = "footer"
                 THEN /\ cache' = [cached |-> TRUE, divetime |-> r.n * Interval]
                      /\ Reply(Fields(0, Unsupported, r.n * Interval))
                 ELSE /\ Goto("scan", [off |-> r.off + L.w,
                                       n |-> IF L.w = 4 /\ x = "shallow" THEN r.n ELSE r.n + 1])
                      /\ Silent /\ UNCHANGED cache

\* samples_foreach of both: the four zero bytes of the header.
Seek ==
    /\ call = "samples" /\ pc = "start" /\ UNCHANGED cache
    /\ \/ 4 > size /\ NoRead /\ Finish("ok", out)
       \/ 4 <= size /\ L.h > size /\ Skim(4) /\ Finish("dataformat", out)
       \/ /\ L.h <= size /\ Skim(L.interval) /\ Silent
          /\ Goto("sample", [off |-> L.h, n |-> 0])

Sample ==
    /\ call = "samples" /\ pc = "sample"
    /\ IF r.off + L.w > size
       THEN NoRead /\ Finish("ok", out)
       ELSE \E x \in Look(r.off, Words) :
              /\ Read(r.off, L.w, x)
              /\ IF x = "footer"
                 THEN Finish("ok", out)
                 ELSE /\ Deliver(<<Time((r.n + 1) * Interval), Value, Value>>)
                      /\ Goto("sample", [off |-> r.off + L.w, n |-> r.n + 1])
    /\ UNCHANGED cache

reefnet_sensuspro_parser_get_field == parser = "reefnet_sensuspro" /\ (FieldStart \/ FieldScan)
reefnet_sensuspro_parser_samples_foreach == parser = "reefnet_sensuspro" /\ (Seek \/ Sample)
reefnet_sensusultra_parser_get_field == parser = "reefnet_sensusultra" /\ (FieldStart \/ FieldScan)
reefnet_sensusultra_parser_samples_foreach == parser = "reefnet_sensusultra" /\ (Seek \/ Sample)

-----------------------------------------------------------------------------

ReefnetFamily == {"reefnet_sensus", "reefnet_sensuspro", "reefnet_sensusultra"}

ReefnetInit ==
    \/ reefnet_sensus_parser_create \/ reefnet_sensuspro_parser_create
    \/ reefnet_sensusultra_parser_create

ReefnetNext ==
    \/ reefnet_sensus_parser_get_datetime \/ reefnet_sensus_parser_get_field
    \/ sensus_scan \/ reefnet_sensus_parser_samples_foreach
    \/ sensus_sample
    \/ reefnet_sensuspro_parser_get_datetime \/ reefnet_sensuspro_parser_get_field
    \/ reefnet_sensuspro_parser_samples_foreach
    \/ reefnet_sensusultra_parser_get_datetime \/ reefnet_sensusultra_parser_get_field
    \/ reefnet_sensusultra_parser_samples_foreach
=============================================================================
