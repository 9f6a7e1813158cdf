--------------------------- MODULE RecordParsers ---------------------------
(***************************************************************************)
(* The parsers of the Dive Rite NiTek Q, Uwatec Memomouse, Atomic Cobalt   *)
(* and Seac Screen families.  On the NiTek Q and the Screen the gas mixes  *)
(* are those the records name: a pass over the dive collects them before   *)
(* get_field can answer.  And the parsers of the Cressi families.          *)
(***************************************************************************)
EXTENDS DiveParser

CONSTANT NitekqMixes     \* NGASMIXES of diverite_nitekq_parser.c (7 in the code)

Tick == 10               \* a sample interval

-----------------------------------------------------------------------------
(* NiTek Q: blocks of settings, samples and gas changes after 6 bytes of   *)
(* logbook; the type of the last block says how samples look               *)

diverite_nitekq_parser_create ==
    \E s \in {0, 5, 6, 7, 32, 33, 36, 38, 42, 44, 47} :
        Create("diverite_nitekq", 0, s, [cached |-> FALSE, gases |-> << >>, divetime |-> 0])

diverite_nitekq_parser_get_datetime == Datetime("diverite_nitekq", 6, 6)

diverite_nitekq_parser_get_field ==
    /\ At("diverite_nitekq", "field", "start") /\ NoRead /\ UNCHANGED cache
    /\ \/ size < 6 /\ Reply(DataFormat)
       \/ size >= 6 /\ ~cache.cached /\ Silent /\ Goto("pass", << >>)
       \/ /\ size >= 6 /\ cache.cached
          /\ Reply(Fields(Len(cache.gases), Unsupported, cache.divetime))

\* A dive starts with its settings; samples or a gas change follow the start
\* of a block of samples.
NitekqBlocks ==
    IF r.off = 6 THEN {Class("settings", 0), Class("settings", Tick), Class("unknown", 0)}
    ELSE IF r.type # "none" THEN {Class("sample", 0), Class("gas", 1)}
    ELSE Plain({"oc", "cc", "unknown", "sample"}) \cup {Class("gas", g) : g \in 1..2}
BlockSize(x) == CASE x.k = "settings" -> 27 [] x.k = "gas" -> 7 [] OTHER -> 2

diverite_nitekq_parser_samples_foreach ==
    /\ parser = "diverite_nitekq"
    /\ \/ /\ pc = "pass" \/ (pc = "start" /\ call = "samples")
          /\ NoRead /\ UNCHANGED cache
          /\ IF size < 6 THEN Abort("dataformat")
             ELSE /\ Silent
                  /\ Goto("block", [off |-> 6, type |-> "none", interval |-> 0, time |-> 0,
                                    gases |-> << >>, gas |-> -1, last |-> -1])
       \/ /\ pc = "block" /\ r.off + 2 > size /\ NoRead
          /\ cache' = [cached |-> TRUE, gases |-> r.gases, divetime |-> r.time]
          /\ IF call = "samples" THEN Finish("ok", out) ELSE Silent /\ Goto("start", << >>)
       \/ /\ pc = "block" /\ r.off + 2 <= size /\ UNCHANGED cache
          /\ \E x \in Look(r.off, NitekqBlocks) :
               LET end  == r.off + BlockSize(x)
                   cut  == end > size
                   time == r.time + r.interval
                   ss   == <<Time(time)>> \o If(r.gas # r.last, Gas(r.gas)) \o <<Value>>
               IN /\ Read(r.off, IF cut THEN 2 ELSE BlockSize(x), x)
                  /\ \/ /\ \/ cut \/ x.k = "unknown"
                           \/ x.k = "gas" /\ Len(Adding(r.gases, x.v)) > NitekqMixes
                           \/ x.k = "sample" /\ (r.type = "none" \/ r.interval = 0)
                        /\ Abort("dataformat")
                     \/ /\ x.k = "settings" /\ ~cut /\ Silent
                        /\ Goto("block", [r EXCEPT !.off = end, !.interval = x.v, !.type = "none"])
                     \/ /\ x.k \in {"oc", "cc"} /\ Silent
                        /\ Goto("block", [r EXCEPT !.off = end, !.type = x.k])
                     \/ /\ x.k = "gas" /\ ~cut /\ Len(Adding(r.gases, x.v)) <= NitekqMixes
                        /\ Silent
                        /\ Goto("block", [r EXCEPT !.off = end, !.type = "none",
                                                   !.gases = Adding(r.gases, x.v),
                                                   !.gas = Find(r.gases, x.v)])
                     \/ /\ x.k = "sample" /\ r.type # "none" /\ r.interval # 0
                        /\ IF r.type = "cc" /\ end + 1 > size
                           THEN IF call = "samples" THEN FinishAfter("dataformat", ss)
                                ELSE Reply(DataFormat)
                           ELSE /\ Deliver(ss \o If(r.type = "cc", Value))
                                /\ Goto("block", [r EXCEPT !.time = time, !.last = r.gas,
                                       !.off = IF r.type = "cc" THEN end + 1 ELSE end])

-----------------------------------------------------------------------------
(* Memomouse: 18 bytes of the Memomouse, the header of the Aladin, samples *)
(* of two bytes and, every minute, one more (two on the oxygen models)     *)

uwatec_memomouse_parser_create ==
    \E m \in {"air", "nitrox", "oxygen"} : \E s \in {0, 17, 18, 39, 42, 44, 46, 49, 50, 51, 52} :
        Create("uwatec_memomouse", m, s, << >>)

uwatec_memomouse_parser_get_datetime == Datetime("uwatec_memomouse", 15, 15)

MemoHeader == 22 + CASE model = "nitrox" -> 2 [] model = "oxygen" -> 3 [] OTHER -> 0

uwatec_memomouse_parser_get_field ==
    /\ At("uwatec_memomouse", "field", "start") /\ UNCHANGED cache
    /\ IF size < 18 THEN NoRead /\ Reply(DataFormat)
       ELSE \E tank \in Look(10, {0, 1}) :
              /\ Read(10, IF size >= MemoHeader + 18 /\ model # "air" THEN 32 ELSE 6, tank)
              /\ Reply(Fields(1, tank, Stored))

uwatec_memomouse_parser_samples_foreach ==
    /\ parser = "uwatec_memomouse" /\ call = "samples" /\ UNCHANGED cache
    /\ \/ pc = "start" /\ size < 18 /\ NoRead /\ Finish("dataformat", out)
       \/ /\ pc = "start" /\ size >= 18 /\ Skim(4) /\ Silent
          /\ Goto("sample", [off |-> MemoHeader + 18, time |-> 20])
       \/ pc = "sample" /\ r.off + 2 > size /\ NoRead /\ Finish("ok", out)
       \/ /\ pc = "sample" /\ r.off + 2 <= size
          /\ \E events \in Look(r.off, 0..1) :
               LET extra == CASE r.time % 60 # 0 -> 0 [] model = "oxygen" -> 2 [] OTHER -> 1
                   ss == <<Time(r.time), Value>> \o If(r.time = 20, Gas(0)) \o <<Value>>
                         \o If(events = 1, Value)
               IN /\ Read(r.off, 2, events)
                  /\ IF r.off + 2 + extra > size THEN FinishAfter("dataformat", ss)
                     ELSE /\ Deliver(ss \o If(extra > 0, Value))
                          /\ Goto("sample", [off |-> r.off + 2 + extra, time |-> r.time + 20])

-----------------------------------------------------------------------------
(* Cobalt: a header of 228 bytes, 18 for each gas mix, 6 for each switch,  *)
(* and segments of 16                                                      *)

atomics_cobalt_parser_create ==
    \E s \in {0, 227, 228, 246, 262, 264, 270, 280, 286} : Create("atomics_cobalt", 0, s, << >>)

atomics_cobalt_parser_get_datetime == Datetime("atomics_cobalt", 228, 26)

\* The header: the gas mixes, each with a tank, whose records get_field reads
\* without a check; the switches; the segments; the tank with the first sensor.
CobaltHeaders == {h \in [mixes : 0..2, switches : 0..1, segments : 1..2, sensor : 0..2] :
                     /\ 228 + 18 * h.mixes <= size \/ "atomics_cobalt" \in Unchecked
                     /\ h.sensor <= h.mixes}

atomics_cobalt_parser_get_field ==
    /\ At("atomics_cobalt", "field", "start") /\ UNCHANGED cache
    /\ IF size < 228 THEN NoRead /\ Reply(DataFormat)
       ELSE \E h \in Look(42, CobaltHeaders) :
              /\ Read(42, IF h.mixes = 0 THEN 48 ELSE 228 + 18 * h.mixes - 42, h)
              /\ Reply(Fields(h.mixes, h.mixes, Stored))

atomics_cobalt_parser_samples_foreach ==
    /\ parser = "atomics_cobalt" /\ call = "samples" /\ UNCHANGED cache
    /\ \/ pc = "start" /\ size < 228 /\ NoRead /\ Finish("dataformat", out)
       \/ /\ pc = "start" /\ size >= 228
          /\ \E h \in Look(42, CobaltHeaders) :
               LET header == 228 + 18 * h.mixes + 6 * h.switches
               IN /\ Read(42, 40, h)
                  /\ IF size < header + 16 * h.segments \/ h.sensor >= h.mixes
                     THEN Finish("dataformat", out)
                     ELSE Silent /\ Goto("segment", [off |-> header, time |-> 0, last |-> -1])
       \/ pc = "segment" /\ r.off + 16 > size /\ NoRead /\ Finish("ok", out)
       \/ /\ pc = "segment" /\ r.off + 16 <= size
          /\ \E gas \in Look(r.off, 0..mem[42].mixes) :
               LET time == r.time + Tick
                   ss   == <<Time(time), Value, Tank(mem[42].sensor)>>
               IN /\ Read(r.off, 16, gas)
                  /\ IF gas # r.last /\ gas >= mem[42].mixes THEN FinishAfter("dataformat", ss)
                     ELSE /\ Deliver(ss \o If(gas # r.last, Gas(gas)) \o <<Value, Value>>)
                          /\ Goto("segment", [off |-> r.off + 16, time |-> time, last |-> gas])

-----------------------------------------------------------------------------
(* Seac Screen: a header of two records of 64 bytes, samples of 64, each   *)
(* with the identification of the dive and a checksum                      *)

seac_screen_parser_create ==
    \E m \in {"screen", "tablet"} : \E s \in {0, 127, 128, 191, 192, 256, 320} :
        (m = "tablet" => s = 192) /\
        Create("seac_screen", m, s, [cached |-> FALSE, gases |-> << >>])

\* seac_screen_record_isvalid: the class of the two header records together.
SeacHeader == Look(0, {"valid", "invalid"})

seac_screen_parser_get_datetime ==
    /\ parser = "seac_screen" /\ call = "none"
    /\ IF size < 128 THEN NoRead /\ status' = "dataformat"
       ELSE \E h \in SeacHeader : /\ Read(0, 128, h)
                                  /\ status' = IF h = "valid" THEN "ok" ELSE "dataformat"
    /\ UNCHANGED <<call, pc, r, cache, out, ans>> /\ Same

seac_screen_parser_get_field ==
    /\ At("seac_screen", "field", "start") /\ UNCHANGED cache
    /\ \/ size < 128 /\ NoRead /\ Reply(DataFormat)
       \/ size >= 128 /\ ~cache.cached /\ NoRead /\ Silent /\ Goto("pass", << >>)
       \/ /\ size >= 128 /\ cache.cached
          /\ Skim(116) /\ Reply(Fields(Len(cache.gases), Unsupported, Stored))

SEAC_NGASMIXES == 2
SeacSamples == {[valid |-> TRUE, time |-> t, o2 |-> g] : t \in {5, 10}, g \in 1..3}
               \cup {[valid |-> FALSE, time |-> 0, o2 |-> 1]}

\* The time stamps must not run backwards, and there are at most two mixes.
seac_screen_parser_samples_foreach ==
    /\ parser = "seac_screen"
    /\ \/ /\ pc = "pass" \/ (pc = "start" /\ call = "samples")
          /\ UNCHANGED cache
          /\ IF size < 128 THEN NoRead /\ Abort("dataformat")
             ELSE \E h \in SeacHeader :
                    /\ Read(0, 128, h)
                    /\ IF h = "invalid" THEN Abort("dataformat")
                       ELSE Silent /\ Goto("sample", [off |-> 128, time |-> 0,
                                                      gases |-> << >>, last |-> -1])
       \/ /\ pc = "sample" /\ r.off + 64 > size /\ NoRead
          /\ cache' = [cached |-> TRUE, gases |-> r.gases]
          /\ IF call = "samples" THEN Finish("ok", out) ELSE Silent /\ Goto("start", << >>)
       \/ /\ pc = "sample" /\ r.off + 64 <= size /\ UNCHANGED cache
          /\ \E x \in Look(r.off, SeacSamples) :
               LET gases == Adding(r.gases, x.o2)
                   ss    == <<Time(x.time), Value, Value>>
               IN /\ Read(r.off, 64, x)
                  /\ \/ (~x.valid \/ x.time < r.time) /\ Abort("dataformat")
                     \/ /\ x.valid /\ x.time >= r.time /\ Len(gases) > SEAC_NGASMIXES
                        /\ IF call = "samples" THEN FinishAfter("dataformat", ss)
                           ELSE Reply(DataFormat)
                     \/ /\ x.valid /\ x.time >= r.time /\ Len(gases) <= SEAC_NGASMIXES
                        /\ Deliver(ss \o If(x.o2 # r.last, Gas(Find(r.gases, x.o2)))
                                   \o <<Value, Value>> \o If(model = "tablet", Tank(0)))
                        /\ Goto("sample", [off |-> r.off + 64, time |-> x.time,
                                           gases |-> gases, last |-> x.o2])

-----------------------------------------------------------------------------

RecordFamily == {"atomics_cobalt", "diverite_nitekq", "seac_screen", "uwatec_memomouse"}

RecordInit ==
    \/ diverite_nitekq_parser_create \/ uwatec_memomouse_parser_create
    \/ atomics_cobalt_parser_create \/ seac_screen_parser_create

RecordNext ==
    \/ diverite_nitekq_parser_get_datetime \/ diverite_nitekq_parser_get_field
    \/ diverite_nitekq_parser_samples_foreach
    \/ uwatec_memomouse_parser_get_datetime \/ uwatec_memomouse_parser_get_field
    \/ uwatec_memomouse_parser_samples_foreach
    \/ atomics_cobalt_parser_get_datetime \/ atomics_cobalt_parser_get_field
    \/ atomics_cobalt_parser_samples_foreach
    \/ seac_screen_parser_get_datetime \/ seac_screen_parser_get_field
    \/ seac_screen_parser_samples_foreach

-----------------------------------------------------------------------------
(***************************************************************************)
(* Cressi Leonardo, Edy and Goa: a header of a fixed or looked up layout,  *)
(* then samples of two bytes.                                              *)
(***************************************************************************)

-----------------------------------------------------------------------------
(* Leonardo; the Drake is a freediving model without a gas mix *)

\* The samples of a Drake start with a look at the header that is not checked.
cressi_leonardo_parser_create ==
    \E m \in {"leonardo", "drake"} : \E s \in Sizes("cressi_leonardo",
            {24, 81, 82, 83, 84, 85, 86, 88} \cup (IF m = "leonardo" THEN {0} ELSE {}),
            IF m = "drake" THEN {0, 23} ELSE {}) :
        Create("cressi_leonardo", m, s, << >>)

cressi_leonardo_parser_get_datetime == Datetime("cressi_leonardo", 82, 13)

\* The sample interval, which the Drake has in its header.
LeonardoInterval == Look(23, IF model = "drake" THEN {0, 1} ELSE {20})

cressi_leonardo_parser_get_field ==
    /\ At("cressi_leonardo", "field", "start") /\ UNCHANGED cache
    /\ IF size < 82 THEN NoRead /\ Reply(DataFormat)
       ELSE \E i \in LeonardoInterval :
              /\ Read(23, 12, i)
              /\ Reply(IF i = 0 THEN DataFormat
                       ELSE Fields(IF model = "drake" THEN 0 ELSE 1, Unsupported, Stored))

\* A surface interval is a pair of words, the second one 0xFF00.
LeonardoWords == {"sample", "ascent"} \cup IF r.off + 4 <= size THEN {"surface"} ELSE {}

cressi_leonardo_parser_samples_foreach ==
    /\ parser = "cressi_leonardo" /\ call = "samples" /\ UNCHANGED cache
    /\ \/ /\ pc = "start"
          /\ \E i \in LeonardoInterval :
               /\ IF model = "drake" THEN Read(23, 1, i) ELSE NoRead
               /\ IF i = 0 THEN Finish("dataformat", out)
                  ELSE /\ Silent
                       /\ Goto("sample", [off |-> 82, time |-> 0, interval |-> i,
                                          gas |-> model # "drake"])
       \/ pc = "sample" /\ r.off + 2 > size /\ NoRead /\ Finish("ok", out)
       \/ /\ pc = "sample" /\ r.off + 2 <= size
          /\ \E x \in Look(r.off, LeonardoWords) :
               /\ Read(r.off, IF r.off + 4 <= size THEN 4 ELSE 2, x)
               /\ IF x = "surface"
                  THEN /\ Deliver(<<Time(r.time + 60), Value>>)
                       /\ Goto("sample", [r EXCEPT !.off = @ + 4, !.time = @ + 60])
                  ELSE /\ Deliver(<<Time(r.time + r.interval), Value>> \o If(r.gas, Gas(0))
                                  \o If(x = "ascent", Value))
                       /\ Goto("sample", [off |-> r.off + 2, time |-> r.time + r.interval,
                                          interval |-> r.interval, gas |-> FALSE])

-----------------------------------------------------------------------------
(* Edy, IQ700 and Archimede *)

\* samples_foreach counts the gas mixes without a check of the size.
cressi_edy_parser_create ==
    \E m \in {"edy", "iq700", "archimede"} : \E s \in Sizes("cressi_edy",
            {24, 31, 32, 33, 34, 36, 38, 40}, {0, 21}) :
        Create("cressi_edy", m, s, << >>)

cressi_edy_parser_get_datetime == Datetime("cressi_edy", 32, 20)

\* The mixes whose state nibble, one byte before the other, is not 0x0F.
cressi_edy_parser_count_gasmixes == Look(23, IF model = "archimede" THEN 0..1 ELSE 0..3)

cressi_edy_parser_get_field ==
    /\ At("cressi_edy", "field", "start") /\ UNCHANGED cache
    /\ IF size < 32 THEN NoRead /\ Reply(DataFormat)
       ELSE \E n \in cressi_edy_parser_count_gasmixes :
              Read(23, 1, n) /\ Reply(Fields(n, Unsupported, Stored))

\* A sample has four more bytes when its first bit is set; one every 30 seconds
\* (15 on some dives of the IQ700), on the Edy every second.
EdySamples == {[end |-> FALSE, extra |-> e, gas |-> g] : e \in {0, 4}, g \in IF model = "edy" THEN {0, 1, 3} ELSE {0}}
              \cup {[end |-> TRUE, extra |-> 0, gas |-> 0]}

cressi_edy_parser_samples_foreach ==
    /\ parser = "cressi_edy" /\ call = "samples" /\ UNCHANGED cache
    /\ \/ /\ pc = "start"
          /\ \E n \in cressi_edy_parser_count_gasmixes :
               /\ Read(23, 1, n) /\ Silent
               /\ Goto("sample", [off |-> 32, time |-> 0, gas |-> -1])
       \/ pc = "sample" /\ r.off + 2 > size /\ NoRead /\ Finish("ok", out)
       \/ /\ pc = "sample" /\ r.off + 2 <= size
          /\ \E x \in Look(r.off, EdySamples) :
               LET time == r.time + (IF model = "edy" THEN 1 ELSE 30)
                   idx  == IF model = "edy" THEN x.gas ELSE 0
                   ss   == <<Time(time), Value>>
                   n    == mem[23]
               IN /\ Read(r.off, IF x.end THEN 1 ELSE 2, x)
                  /\ \/ x.end /\ Finish("ok", out)
                     \/ /\ ~x.end /\ n > 0 /\ idx >= n
                        /\ FinishAfter("dataformat", ss)
                     \/ /\ ~x.end /\ (n = 0 \/ idx < n)
                        /\ Deliver(ss \o If(n > 0 /\ idx # r.gas, Gas(idx)))
                        /\ Goto("sample", [off |-> r.off + 2 + x.extra, time |-> time,
                                           gas |-> IF n > 0 THEN idx ELSE r.gas])

-----------------------------------------------------------------------------
(* Goa: the layout of the header by format version and dive mode *)

GoaModels == {"scuba_v0", "scuba_v3", "scuba_v4", "freedive_v0", "gauge_v4", "advanced_v4"}
GoaLayout(m) ==
    CASE m = "scuba_v0"    -> [header |-> 90, rate |-> FALSE, mixes |-> 2, last |-> 79]
      [] m = "scuba_v3"    -> [header |-> 92, rate |-> FALSE, mixes |-> 3, last |-> 89]
      [] m = "scuba_v4"    -> [header |-> 82, rate |-> TRUE,  mixes |-> 3, last |-> 72]
      [] m = "freedive_v0" -> [header |-> 34, rate |-> FALSE, mixes |-> 0, last |-> 27]
      [] m = "gauge_v4"    -> [header |-> 28, rate |-> TRUE,  mixes |-> 0, last |-> 21]
      [] m = "advanced_v4" -> [header |-> 28, rate |-> TRUE,  mixes |-> 0, last |-> 24]
Scuba == model \in {"scuba_v0", "scuba_v3", "scuba_v4"}

\* The identification and the logbook entry in front of the header: 9 and 15
\* bytes at least.  create() refuses a dive without a complete header.
GoaPrefix == 2 + 9 + 15
\* Mutant: the size of the header after them is not checked.
cressi_goa_init_Prefix(m, s) == s >= GoaPrefix
cressi_goa_init(m, s) == s >= GoaPrefix /\ s >= GoaPrefix + GoaLayout(m).header

cressi_goa_parser_create ==
    \E m \in GoaModels : \E s \in {-20, -1, 0, 1, 2, 4, 15, 17} :
        /\ cressi_goa_init(m, GoaPrefix + GoaLayout(m).header + s)
        /\ Create("cressi_goa", m, GoaPrefix + GoaLayout(m).header + s, << >>)

cressi_goa_parser_get_datetime == Datetime("cressi_goa", 0, GoaPrefix + 20)

\* What the header tells: the mixes with an oxygen content, the sample rate and
\* the number of samples.
GoaHeaders ==
    {[mixes |-> IF Scuba THEN g ELSE 0, rate |-> rt, n |-> n] :
        g \in 1..2, rt \in CASE GoaLayout(model).rate -> {0, 1, 4}
                                [] model = "freedive_v0" -> {3} [] OTHER -> {4}, n \in 0..2}

cressi_goa_parser_get_field ==
    /\ At("cressi_goa", "field", "start") /\ UNCHANGED cache
    /\ \E h \in Look(GoaPrefix, GoaHeaders) :
         /\ Read(GoaPrefix, GoaLayout(model).last, h)
         /\ Reply(Fields(h.mixes, Unsupported, Stored))

\* A sample word; a gas mix in it is one of the header's, which the code takes
\* on trust.
GoaWords(h) == Plain({"free", "temperature"})
               \cup {Class("surface", 1), Class("surface", 9)}
               \cup {Class("scuba", g) : g \in 0..(IF Scuba THEN h.mixes - 1 ELSE 0)}
Rates == <<500, 1000, 2000, 5000>>

cressi_goa_parser_samples_foreach ==
    /\ parser = "cressi_goa" /\ call = "samples" /\ UNCHANGED cache
    /\ LET trailer == IF model = "advanced_v4" THEN 13 ELSE 0
       IN \/ /\ pc = "start"
             /\ \E h \in Look(GoaPrefix, GoaHeaders) :
                  /\ Read(GoaPrefix, 12, h)
                  /\ IF h.rate = 0 THEN Finish("dataformat", out)
                     ELSE /\ Silent
                          /\ Goto("sample", [off |-> GoaPrefix + GoaLayout(model).header, i |-> 0,
                                             time |-> 0, temp |-> FALSE, gas |-> 0, last |-> -1])
          \/ pc = "sample" /\ r.i = mem[GoaPrefix].n /\ NoRead /\ Finish("ok", out)
          \/ /\ pc = "sample" /\ r.i < mem[GoaPrefix].n /\ r.off + 2 + trailer > size
             /\ NoRead /\ Finish("dataformat", out)
          \/ /\ pc = "sample" /\ r.i < mem[GoaPrefix].n /\ r.off + 2 + trailer <= size
             /\ \E x \in Look(r.off, GoaWords(mem[GoaPrefix])) :
                  LET interval == Rates[mem[GoaPrefix].rate]
                      long  == x.k = "surface" /\ x.v * 1000 > interval
                      first == IF long THEN r.time + interval ELSE r.time
                      time  == CASE x.k = "temperature" -> r.time
                                 [] x.k = "surface" -> r.time + x.v * 1000
                                 [] OTHER -> r.time + interval
                      gas   == IF x.k = "scuba" THEN x.v ELSE r.gas
                      shown == x.k # "temperature"
                      mix   == shown /\ Scuba /\ gas # r.last
                  IN /\ Read(r.off, 2, x)
                     /\ Deliver((IF long THEN <<Time(first), Value>> ELSE << >>)
                                \o If(shown, Time(time)) \o If(shown /\ r.temp, Value)
                                \o If(shown, Value) \o If(mix, Gas(gas)))
                     /\ Goto("sample", [off |-> r.off + 2, i |-> r.i + 1, time |-> time,
                                        temp |-> ~shown, gas |-> gas,
                                        last |-> IF mix THEN gas ELSE r.last])

-----------------------------------------------------------------------------

CressiFamily == {"cressi_edy", "cressi_goa", "cressi_leonardo"}

CressiInit ==
    cressi_leonardo_parser_create \/ cressi_edy_parser_create \/ cressi_goa_parser_create

CressiNext ==
    \/ cressi_leonardo_parser_get_datetime \/ cressi_leonardo_parser_get_field
    \/ cressi_leonardo_parser_samples_foreach
    \/ cressi_edy_parser_get_datetime \/ cressi_edy_parser_get_field
    \/ cressi_edy_parser_samples_foreach
    \/ cressi_goa_parser_get_datetime \/ cressi_goa_parser_get_field
    \/ cressi_goa_parser_samples_foreach
=============================================================================
