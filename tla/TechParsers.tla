----------------------------- MODULE TechParsers -----------------------------
(***************************************************************************)
(* The parsers of the computers for technical diving, Heinrichs Weikamp    *)
(* OSTC, Shearwater and Divesystem.  Their tables of gas mixes start with  *)
(* the ones of the settings, lose those that were never used, and grow by  *)
(* those set up during the dive.                                           *)
(***************************************************************************)
EXTENDS DiveParser

CONSTANTS
    OstcMixes, PredatorMixes, IdiveMixes,   \* NGASMIXES of the three parsers
    IdiveTanks                              \* NTANKS of divesystem_idive

-----------------------------------------------------------------------------
(* Heinrichs Weikamp OSTC.  A first pass without a callback collects the   *)
(* mixes and then removes the disabled ones, so that the pass that         *)
(* delivers the samples sees other indices than the first.                 *)

\* The versions of the format; the version is a byte of the dive.
OstcVersions == {"20", "21", "22", "23", "other"}
OstcHeader == CASE model = "20" -> 47 [] model = "21" -> 57 [] OTHER -> 256
OstcFixed == IF model = "22" THEN 3 ELSE 5
None == 0

hw_ostc_parser_create ==
    \E m \in OstcVersions : \E s \in
        CASE m = "20" -> {8, 46, 47, 52, 54} [] m = "21" -> {59, 69}
          [] m = "22" -> {255, 258, 260} [] m = "23" -> {256, 260, 261, 263, 268}
          [] m = "other" -> {9} :
        Create("hw_ostc", m, s,
               [cached |-> "none", gases |-> << >>, ndisabled |-> 0, initial |-> None])

\* The mixes of the settings that are enabled, and the one the dive starts with.
OstcHeaders ==
    {h \in [enabled : {{1, 2}, 1..OstcFixed}, initial : {None, 1, 3, 6}] :
        /\ (h.enabled = {1, 2}) <=> model \in {"21", "23"}
        /\ model = "20" => h.initial # 3
        /\ model = "23" => h.initial \in {None, 1}}

\* Leaves the status of the call in cache'.cached.
hw_ostc_parser_cache ==
    IF cache.cached # "none" THEN NoRead /\ UNCHANGED cache
    ELSE IF size < 9 THEN NoRead /\ UNCHANGED cache
    ELSE IF model = "other" \/ size < OstcHeader THEN Skim(9) /\ UNCHANGED cache
    ELSE \E h \in Look(0, OstcHeaders) :
           /\ Read(0, OstcHeader, h)
           /\ cache' = IF h.initial > OstcFixed THEN cache ELSE
                [cached |-> "header", ndisabled |-> 0, initial |-> h.initial,
                 gases |-> [i \in 1..OstcFixed |-> [id |-> i, mix |-> <<"fixed", i>>, used |-> i \in h.enabled]]]

hw_ostc_parser_get_datetime ==
    /\ parser = "hw_ostc" /\ call = "none" /\ hw_ostc_parser_cache
    /\ status' = IF cache'.cached = "none" THEN "dataformat" ELSE "ok"
    /\ UNCHANGED <<call, pc, r, out, ans>> /\ Same

OstcPass(quiet) == Goto("profile", [quiet |-> quiet])

hw_ostc_parser_get_field ==
    /\ At("hw_ostc", "field", "start") /\ hw_ostc_parser_cache
    /\ CASE cache'.cached = "none"   -> Reply(DataFormat)
         [] cache'.cached = "header" -> Silent /\ OstcPass(TRUE)
         [] OTHER -> Reply(Fields(Len(cache.gases), Unsupported, Stored))

hw_ostc_parser_samples_foreach ==
    /\ At("hw_ostc", "samples", "start") /\ hw_ostc_parser_cache
    /\ IF cache'.cached = "none" THEN Finish("dataformat", out)
       ELSE Silent /\ OstcPass(cache'.cached = "header")

\* The end of a pass that found nothing wrong.
OstcDone == IF r.quiet THEN Silent /\ Goto("start", << >>) ELSE Finish("ok", out)

\* What follows the header.  On the later models it starts with a table of the
\* fields of a sample (here at most one, of `bytes' bytes in every sample;
\* "tank" is a pressure, "ppo2" the field that some firmware leaves out).
OstcTable == IF model = "23" THEN OstcHeader ELSE 36
OstcField(k, n, bytes) == [k |-> k, n |-> n, bytes |-> bytes]
OstcProfiles ==
    (IF size - OstcHeader \in {0, 2, 5} THEN {OstcField("empty", 0, 0)} ELSE {}) \cup
    (IF model # "23" THEN {OstcField("none", 6, 0), OstcField("tank", 6, 2), OstcField("size", 6, 3)}
     ELSE {OstcField("none", 0, 0), OstcField("tank", 1, 2), OstcField("ppo2", 1, 3),
           OstcField("size", 1, 3), OstcField("many", 8, 0)})

\* The checks before the first sample.
OstcStart ==
    /\ Doing("hw_ostc", "profile")
    /\ \E p \in IF size = OstcHeader THEN {OstcField("empty", 0, 0)} ELSE Look(OstcTable, OstcProfiles) :
         LET table == IF model = "23" THEN 5 + 3 * p.n ELSE 0
             bad   == \/ p.k \in {"size", "many"}
                      \/ OstcHeader + table > size
         IN IF p.k = "empty" THEN
                /\ Read(OstcTable, size - OstcTable, p)
                /\ cache' = [cache EXCEPT !.cached = "profile"] /\ OstcDone
            ELSE IF model = "23" /\ size < OstcHeader + 5 THEN
                NoRead /\ UNCHANGED cache /\ Abort("dataformat")
            ELSE /\ Read(OstcTable, CASE model # "23" -> 7 [] p.k = "many" -> 5 [] OTHER -> Min({table, size - OstcHeader}), p)
                 /\ UNCHANGED cache
                 /\ IF bad THEN Abort("dataformat")
                    ELSE /\ Silent
                         /\ Goto("sample", [quiet |-> r.quiet, off |-> OstcHeader + table, field |-> p,
                                            time |-> 0, tank |-> IF cache.initial = None THEN 0
                                                                 ELSE cache.initial - 1])

\* The mixes of the settings are at the front of the table.
OstcKept == OstcFixed - cache.ndisabled
hw_ostc_find_gasmix_fixed(gases, id) ==
    Find([i \in 1..OstcKept |-> gases[i].id], id)
hw_ostc_find_gasmix_manual(gases, mix) ==
    OstcKept + Find([i \in 1..(Len(gases) - OstcKept) |-> gases[OstcKept + i].mix], mix)

\* A sample of 3 bytes and `len' more, with the event k and its argument v: a
\* mix set up by the diver, a change to a mix of the settings, a bailout, a
\* set point, a compass bearing, a position, or event bytes that have no end.
\* (The OSTC 4 gives the mixes of a closed circuit dive numbers from 6 on,
\* which the code folds back first.)
OstcEvents == {<<"none", 0>>, <<"manual", 1>>, <<"manual", 2>>, <<"fixed", 3>>} \cup
              (IF r.time > 0 THEN {} ELSE {<<"fixed", 6>>, <<"setpoint", 0>>, <<"bailout", 1>>}) \cup
              (IF model = "23" /\ r.time = 0 THEN {<<"bearing", 0>>, <<"location", 0>>, <<"endless", 0>>} ELSE {})
EventBytes(k) == CASE k = "none" -> 0 [] k \in {"fixed", "setpoint"} -> 2
                   [] k = "manual" -> 3 [] k = "bailout" -> IF model = "23" THEN 4 ELSE 3
                   [] k = "bearing" -> 4 [] k = "location" -> 10 [] k = "endless" -> 128
OstcSamples(rest) ==
    {x \in [ev : OstcEvents, len : 0..(rest + 1)] :
        LET n == Min({EventBytes(x.ev[1]), rest + 1})
        IN x.len \in {n, rest - 2} \cup IF r.time > 0 THEN {rest + 1} ELSE {n - 1, n + r.field.bytes}}

\* The table after the first sample's mix and after the event.
OstcUse(gases, i) == [gases EXCEPT ![i + 1].used = TRUE]
hw_ostc_sample(x, over) ==
    LET k      == x.ev[1]
        first  == r.time = 0 /\ cache.initial # None
        i0     == hw_ostc_find_gasmix_fixed(cache.gases, cache.initial)
        g1     == IF first THEN OstcUse(cache.gases, i0) ELSE cache.gases
        manual == k \in {"manual", "bailout"}
        i      == IF manual THEN hw_ostc_find_gasmix_manual(g1, <<k, x.ev[2]>>)
                  ELSE hw_ostc_find_gasmix_fixed(g1, x.ev[2])
        g2     == IF manual THEN (IF i < Len(g1) THEN g1 ELSE
                                  Append(g1, [id |-> 0, mix |-> <<k, x.ev[2]>>, used |-> TRUE]))
                  ELSE IF k = "fixed" THEN OstcUse(g1, i) ELSE g1
        tank   == IF k = "fixed" THEN x.ev[2] - 1 ELSE r.tank
        left   == x.len - EventBytes(k)
        lost   == left < r.field.bytes      \* no room for the field
        after  == IF lost THEN [r EXCEPT !.field = OstcField("none", 0, 0)] ELSE r
    IN CASE over \/ left < 0 \/ (k = "fixed" /\ x.ev[2] > OstcFixed) ->
              cache' = [cache EXCEPT !.gases = g1] /\ Abort("dataformat")
         [] manual /\ i >= OstcMixes -> cache' = [cache EXCEPT !.gases = g1] /\ Abort("nomemory")
         [] lost /\ r.field.k # "ppo2" ->
              cache' = [cache EXCEPT !.gases = g2] /\ Abort("dataformat")
         [] OTHER ->
              /\ cache' = [cache EXCEPT !.gases = g2]
              /\ IF r.quiet THEN Silent
                 ELSE Deliver(<<Time(r.time + 1)>> \o If(first, Gas(i0)) \o <<Value>>
                              \o If(manual \/ k = "fixed", Gas(i))
                              \o If(r.field.k = "tank", Tank(tank)))
              /\ Goto("sample", [after EXCEPT !.time = @ + 1, !.off = @ + 3 + x.len, !.tank = tank])

\* The disabled mixes leave the table.
hw_ostc_remove_disabled ==
    LET kept == SelectSeq(SubSeq(cache.gases, 1, OstcKept), LAMBDA g : g.used)
    IN [cache EXCEPT !.cached = "profile", !.ndisabled = @ + OstcKept - Len(kept),
                     !.gases = kept \o SubSeq(@, OstcKept + 1, Len(@))]

hw_ostc_parser_internal_foreach ==
    /\ Doing("hw_ostc", "sample")
    /\ IF r.off + 3 <= size THEN
           \E x \in Look(r.off, OstcSamples(size - r.off - 3)) :
               LET over == r.off + 3 + x.len > size
               IN /\ Read(r.off, IF over THEN 3 ELSE 3 + x.len, x)
                  /\ hw_ostc_sample(x, over)
       ELSE IF r.off + 2 > size THEN NoRead /\ UNCHANGED cache /\ Abort("dataformat")
       ELSE \E e \in Look(r.off, {"end", "more"}) :
              /\ Read(r.off, 2, e)
              /\ IF e = "more" THEN UNCHANGED cache /\ Abort("dataformat")
                 ELSE cache' = hw_ostc_remove_disabled /\ OstcDone

-----------------------------------------------------------------------------
(* Shearwater Predator and Petrel: blocks before and after the samples or, *)
(* in the later format ("pnf"), records of one size of which some open     *)
(* and close the dive.  The cache scans all the records: it needs the mixes*)
(* and the tanks that are in use.                                          *)

PredatorFormats == {"predator", "petrel", "pnf"}
SZ_BLOCK == 128
PredatorSampleSize == IF model = "predator" THEN 16 ELSE 32
PredatorNotCached == [st |-> "none", gases |-> << >>, tanks |-> {}, dive |-> << >>]

\* 10 of the records of a pnf dive are the ones that open and close it.
shearwater_common_parser_create ==
    \E m \in PredatorFormats : \E s \in
        CASE m = "predator" -> {255, 288, 416} [] m = "petrel" -> {383, 448}
          [] m = "pnf" -> {65, 384} :
        Create("shearwater_predator", m, s, PredatorNotCached)

\* A record: a sample breathing mix g (0: none given) and with the pressures
\* of some tanks, the extension of a sample, four freedive samples, an event.
\* An extension or an event comes after a sample.
PredatorRecord(k, g, ccr, tanks) == [k |-> k, g |-> g, ccr |-> ccr, tanks |-> tanks]
PredatorRecords(i) ==
    {PredatorRecord("sample", g, ccr, {0}) : g \in IF i = 1 THEN {1, 2, 3} ELSE {0, 1, 3}, ccr \in BOOLEAN} \cup
    {PredatorRecord("sample", 1, FALSE, {1})} \cup
    IF model # "pnf" THEN {PredatorRecord("zero", 0, FALSE, {})}
    ELSE {PredatorRecord("avelo", 4, FALSE, {0}), PredatorRecord("freedive", 0, FALSE, {})} \cup
         IF i = 1 THEN {} ELSE {PredatorRecord("ext", 0, FALSE, {0}), PredatorRecord("ext", 0, FALSE, {2, 3}),
                                PredatorRecord("event", 0, FALSE, {})}

\* The contents of a dive: the log version, the mode the header names (from
\* version 8 on), the mode of the transmitters, whether the records that open
\* and close the dive are complete and whether a final block ends it, and the
\* records between; further records are all zero.
PredatorDives ==
    {d \in [log : {6, 7, 8, 14}, mode : {"oc", "cc", "freedive"}, hpccr : BOOLEAN,
            complete : BOOLEAN, final : {model = "petrel", model # "pnf"}, recs : PredatorRecords(1) \X PredatorRecords(2)] :
        /\ d.log < 8 => d.mode = "oc"
        /\ d.log = 6 => d.recs[1].g = 2
        /\ model = "predator" /\ d.final => d.log = 7
        /\ d.hpccr => d.log = 8 /\ model = "pnf"
        /\ ~d.complete => model = "pnf" /\ d.log = 8 /\ d.recs[1].g = 1 /\ d.recs[2].g = 1
        /\ d.mode = "freedive" => \E i \in 1..2 : d.recs[i].k = "freedive"
        /\ d.log = 14 => d.recs[1].g \in {1, 4} /\ d.recs[2].k # "sample"}

IsSample(x) == x.k \in {"sample", "avelo"}
\* The tanks whose pressures a record holds, by the log version and the mode.
PredatorTanks(d, x) ==
    CASE IsSample(x) /\ d.log >= 7 ->
           {(IF d.hpccr THEN 4 ELSE 0) + i : i \in {j \in x.tanks : x.k = "avelo" => j = 0}}
      [] x.k = "ext" -> {2 + i : i \in {j \in x.tanks : j < 2 /\ d.log >= 13}} \cup
                        {2 + i : i \in {j \in x.tanks : j >= 2 /\ d.log >= 14}}
      [] OTHER -> {}

\* The mixes: those of the settings, and those that only a sample names.
PredatorMix(g, dil) == [g |-> g, dil |-> dil]
PredatorFixed == <<PredatorMix(1, FALSE), PredatorMix(2, FALSE), PredatorMix(1, TRUE)>>
PredatorEnabled == IF model = "pnf" THEN {1, 3} ELSE 1..3
PredatorUsed(d) == LET Mix(x) == PredatorMix(x.g, x.ccr)
                       Breathes(x) == IsSample(x) /\ x.g # 0
                   IN [i \in {j \in 1..2 : Breathes(d.recs[j])} |-> Mix(d.recs[i])]
PredatorFound(d) ==
    LET used == PredatorUsed(d)
        one  == IF 1 \in DOMAIN used THEN Adding(PredatorFixed, used[1]) ELSE PredatorFixed
    IN IF 2 \in DOMAIN used THEN Adding(one, used[2]) ELSE one

\* Up to version 7 the samples tell the mode: the last that says so.
PredatorMode(d) ==
    LET Says(x) == CASE x.k = "freedive" -> "freedive" [] x.k = "sample" /\ x.ccr -> "cc" [] OTHER -> "oc"
    IN IF d.log >= 8 THEN d.mode
       ELSE IF Says(d.recs[2]) # "oc" THEN Says(d.recs[2]) ELSE Says(d.recs[1])
PredatorKept(d) ==
    LET all  == PredatorFound(d)
        used == PredatorUsed(d)
        Keep(i) == /\ i \in PredatorEnabled \/ \E j \in DOMAIN used : used[j] = all[i]
                   /\ all[i].dil => PredatorMode(d) = "cc"
    IN IF PredatorMode(d) = "freedive" THEN << >>
       ELSE FoldSeq(LAMBDA i, kept : IF Keep(i) THEN <<all[i]>> \o kept ELSE kept, << >>,
                    [i \in 1..Len(all) |-> i])

\* The status of the call; the opening and closing records are checked last.
PredatorFits(footer) == SZ_BLOCK + footer <= size
\* Mutant: the mixes are entered without looking at the room for them.
PredatorStatus_NoLimit(d) == IF (d.final /\ ~PredatorFits(2 * SZ_BLOCK)) \/ ~d.complete THEN "dataformat" ELSE "ok"
PredatorStatus(d) == IF d.final /\ ~PredatorFits(2 * SZ_BLOCK) THEN "dataformat"
                     ELSE IF Len(PredatorFound(d)) > PredatorMixes THEN "nomemory"
                     ELSE IF d.complete THEN "ok" ELSE "dataformat"
PredatorTooShort ==
    CASE model = "predator" -> ~PredatorFits(SZ_BLOCK)
      [] model = "petrel"   -> ~PredatorFits(2 * SZ_BLOCK)
      [] model = "pnf"      -> size < 10 * 32

\* Leaves the status of the call in cache'.st.
shearwater_predator_parser_cache ==
    IF cache.st = "ok" THEN NoRead /\ UNCHANGED cache
    ELSE IF PredatorTooShort THEN
        /\ IF model = "pnf" THEN Skim(size) ELSE NoRead
        /\ cache' = [cache EXCEPT !.st = "dataformat"]
    ELSE \E d \in Look(0, PredatorDives) :
           /\ Read(0, size, d)
           /\ cache' = IF PredatorStatus(d) # "ok" THEN [cache EXCEPT !.st = PredatorStatus(d)]
                       ELSE [st |-> "ok", gases |-> PredatorKept(d), dive |-> d,
                             tanks |-> UNION {PredatorTanks(d, d.recs[i]) : i \in 1..2}]

shearwater_predator_parser_get_datetime ==
    /\ parser = "shearwater_predator" /\ call = "none" /\ shearwater_predator_parser_cache
    /\ status' = cache'.st
    /\ UNCHANGED <<call, pc, r, out, ans>> /\ Same

shearwater_predator_parser_get_field ==
    /\ At("shearwater_predator", "field", "start") /\ shearwater_predator_parser_cache
    /\ Reply(IF cache'.st # "ok" THEN Failed(cache'.st)
             ELSE Fields(Len(cache'.gases), Cardinality(cache'.tanks), Stored))

shearwater_predator_parser_samples_foreach ==
    /\ At("shearwater_predator", "samples", "start") /\ shearwater_predator_parser_cache
    /\ IF cache'.st # "ok" THEN Finish(cache'.st, out)
       ELSE Silent /\ Goto("record", [i |-> 1, time |-> 0, last |-> PredatorMix(0, FALSE)])

\* Mutant: the number of the transmitter is taken for the place of its tank.
TankIndex_Raw(t) == t
\* The place of a tank among those in use.
TankIndex(t) == IF t \in cache.tanks THEN Cardinality({u \in cache.tanks : u < t}) ELSE 99
Pressures(ts) == LET order == SetToSortSeq(ts, LAMBDA a, b : a < b)
                 IN [i \in DOMAIN order |-> Tank(TankIndex(order[i]))]

shearwater_predator_record ==
    /\ Doing("shearwater_predator", "record") /\ NoRead /\ UNCHANGED cache
    /\ IF r.i > 2 THEN Finish("ok", out)
       ELSE \E x \in {cache.dive.recs[r.i]} :
              LET mix    == PredatorMix(x.g, x.ccr)
                  switch == IsSample(x) /\ x.g # 0 /\ mix # r.last
                  idx    == Find(cache.gases, mix)
                  steps  == CASE IsSample(x) -> 1 [] x.k = "freedive" -> 4 [] OTHER -> 0
                  ts     == [j \in 1..steps |-> Time(r.time + j)]
                  press  == Pressures(PredatorTanks(cache.dive, x))
              IN IF switch /\ idx = Len(cache.gases) THEN FinishAfter("dataformat", ts \o <<Value>>)
                 ELSE /\ Deliver(ts \o If(x.k \in {"event", "freedive"}, Value) \o If(switch, Gas(idx)) \o press)
                      /\ Goto("record", [i |-> r.i + 1, time |-> r.time + steps,
                                         last |-> IF switch THEN mix ELSE r.last])

-----------------------------------------------------------------------------
(* Divesystem iDive: samples of one size.  Everything get_field answers,   *)
(* the dive time too, comes from a complete pass over the samples.         *)

IdiveHeader == IF model = "idive" THEN 50 ELSE 54
\* The samples of the IX3M have 54 bytes, with APOS4 they have 64; the firmware
\* tells, and for some the number of samples in the header.
IdiveSample == CASE model = "idive" -> 50 [] model = "ix3m" -> 54 [] model = "apos4" -> 64
IdiveEmpty == [gases |-> << >>, tanks |-> << >>, time |-> 0]

\* samples_foreach reads the number of samples and the firmware from the
\* header without a check of the size.
IdiveUsed(m) == IF m = "idive" THEN 50 ELSE 46
divesystem_idive_parser_create ==
    \E m \in {"idive", "ix3m", "apos4"} : \E s \in Sizes("divesystem_idive",
        CASE m = "idive" -> {50, 200} [] m = "ix3m" -> {46, 170} [] m = "apos4" -> {46, 118, 247},
        {3, IdiveUsed(m) - 1}) :
        Create("divesystem_idive", m, s, [cached |-> FALSE, found |-> IdiveEmpty])

\* An unknown time zone of the later firmware is refused.
divesystem_idive_parser_get_datetime ==
    /\ parser = "divesystem_idive" /\ call = "none"
    /\ IF size < IdiveHeader THEN NoRead /\ status' = "dataformat"
       ELSE \E tz \in Look(48, {"known", "unknown"}) :
              /\ Read(48, 1, tz)
              /\ status' = IF model = "apos4" /\ tz = "unknown" THEN "dataformat" ELSE "ok"
    /\ UNCHANGED <<call, pc, r, cache, out, ans>> /\ Same

\* Mutant: a later pass goes on with the mixes and tanks of the earlier one.
IdivePass_NoReset == Goto("sample", [off |-> IdiveHeader, last |-> 0, id |-> -1, idx |-> -1,
                                     now |-> IF cache.cached THEN cache.found ELSE IdiveEmpty])
IdivePass == Goto("sample", [off |-> IdiveHeader, last |-> 0, id |-> -1, idx |-> -1, now |-> IdiveEmpty])

divesystem_idive_parser_get_field ==
    /\ At("divesystem_idive", "field", "start") /\ NoRead /\ UNCHANGED cache
    /\ CASE size < IdiveHeader -> Reply(DataFormat)
         [] cache.cached -> Reply(Fields(Len(cache.found.gases), Len(cache.found.tanks), cache.found.time))
         [] OTHER -> Silent /\ IdivePass

divesystem_idive_parser_samples_foreach ==
    /\ At("divesystem_idive", "samples", "start")
    /\ Skim(IdiveUsed(model)) /\ UNCHANGED cache /\ Silent /\ IdivePass

\* A record that is no sample, or a sample with its time, its mix, and the
\* pressure (0 or more) of a transmitter; tank 0 stands for no transmitter.
IdiveRecord(k, t, g, i, b) == [k |-> k, time |-> t, gas |-> g, tank |-> i, bar |-> b]
IdiveRecords ==
    IF model = "idive" THEN {IdiveRecord("sample", r.now.time + d, g, 0, 0) : d \in 0..1, g \in 1..3}
    ELSE {IdiveRecord("info", 0, 0, 0, 0), IdiveRecord("sample", r.now.time + 1, 1, 0, 0)} \cup
         IF model = "ix3m" THEN {}
         ELSE {IdiveRecord("sample", r.now.time + 1, 1, i, b) : i \in 1..2, b \in 0..1}

\* The tank: looked up when the transmitter changes, entered once it has a
\* pressure.
IdiveTank(x) == IF x.tank = 0 \/ x.tank = r.id THEN r.idx ELSE Find(r.now.tanks, x.tank)
IdiveEnters(x) == x.tank # 0 /\ IdiveTank(x) >= Len(r.now.tanks) /\ x.bar # 0

divesystem_idive_sample(x) ==
    LET now    == r.now
        gases  == Adding(now.gases, x.gas)
        gi     == Find(now.gases, x.gas)
        idx    == IdiveTank(x)
        enter  == IdiveEnters(x)
        tanks  == IF enter THEN Append(now.tanks, x.tank) ELSE now.tanks
        before == <<Time(x.time), Value>>
        gas    == If(x.gas # r.last, Gas(gi))
    IN CASE x.time <= now.time /\ now.time # 0 -> UNCHANGED cache /\ Abort("dataformat")
         [] Len(gases) > IdiveMixes ->
              /\ UNCHANGED cache
              /\ IF call = "samples" THEN FinishAfter("dataformat", before) ELSE Abort("dataformat")
         [] enter /\ idx >= IdiveTanks ->
              /\ UNCHANGED cache
              /\ IF call = "samples" THEN FinishAfter("dataformat", before \o gas) ELSE Abort("dataformat")
         [] OTHER ->
              /\ UNCHANGED cache
              /\ Deliver(before \o gas \o If(x.tank # 0 /\ idx < Len(tanks), Tank(idx)))
              /\ Goto("sample", [off |-> r.off + IdiveSample, last |-> x.gas,
                                 id |-> IF x.tank = 0 THEN r.id ELSE x.tank, idx |-> idx,
                                 now |-> [gases |-> gases, tanks |-> tanks, time |-> x.time]])

\* What a complete pass leaves for get_field.
IdiveCached == [cached |-> TRUE, found |-> r.now]

divesystem_idive_foreach ==
    /\ Doing("divesystem_idive", "sample")
    /\ IF r.off + IdiveSample > size THEN
           /\ NoRead /\ cache' = IdiveCached
           /\ IF call = "samples" THEN Finish("ok", out) ELSE Silent /\ Goto("start", << >>)
       ELSE \E x \in Look(r.off, IdiveRecords) :
              /\ Read(r.off, IdiveSample, x)
              /\ IF x.k = "info" THEN UNCHANGED cache /\ Silent /\ Goto("sample", [r EXCEPT !.off = @ + IdiveSample])
                 ELSE divesystem_idive_sample(x)

TechFamily == {"divesystem_idive", "hw_ostc", "shearwater_predator"}

TechInit == hw_ostc_parser_create \/ shearwater_common_parser_create \/ divesystem_idive_parser_create
TechNext ==
    \/ hw_ostc_parser_get_datetime \/ hw_ostc_parser_get_field \/ hw_ostc_parser_samples_foreach
    \/ OstcStart \/ hw_ostc_parser_internal_foreach
    \/ shearwater_predator_parser_get_datetime \/ shearwater_predator_parser_get_field
    \/ shearwater_predator_parser_samples_foreach \/ shearwater_predator_record
    \/ divesystem_idive_parser_get_datetime \/ divesystem_idive_parser_get_field
    \/ divesystem_idive_parser_samples_foreach \/ divesystem_idive_foreach
=============================================================================
