--------------------------- MODULE SuuntoParsers ---------------------------
(***************************************************************************)
(* The parsers of the Suunto Solution, Eon, Vyper and D9 families.  The    *)
(* first three walk over the profile once, to find the marker that ends it *)
(* and, on the Vyper, every gas mix a gas change names; the D9 family      *)
(* reads its gas mixes from a header whose layout depends on the model and *)
(* the firmware.                                                           *)
(***************************************************************************)
EXTENDS DiveParser

CONSTANT VyperMixes    \* NGASMIXES of suunto_vyper_parser.c (3 in the code)

SuuntoInterval == 20   \* the sample interval in the header, only added up

-----------------------------------------------------------------------------
(* Solution: a byte per three minutes, 0x80 and one more byte at the end.  *)
(* The driver cuts dives behind that pair; an event follows a sample.      *)

suunto_solution_parser_create ==
    \E s \in {0, 3, 5, 6, 7, 8} :
        Create("suunto_solution", 0, s, [cached |-> FALSE, divetime |-> 0])

\* "wide" samples (0x7D, 0x83) have a second byte, "quiet" is an unknown event.
SolutionBytes(o) ==
    IF o = size - 2 THEN {"end"}
    ELSE {"sample"} \cup (IF o < size - 3 THEN {"wide"} ELSE {})
                    \cup (IF o > 3 THEN {"event", "quiet"} ELSE {})
Width(x) == IF x = "wide" THEN 2 ELSE 1
IsDepth(x) == x \in {"sample", "wide"}

suunto_solution_parser_get_field ==
    /\ parser = "suunto_solution" /\ call = "field"
    /\ \/ pc = "start" /\ size < 4 /\ NoRead /\ Reply(DataFormat) /\ UNCHANGED cache
       \/ /\ pc = "start" /\ size >= 4 /\ cache.cached
          /\ NoRead /\ Reply(Fields(1, Unsupported, cache.divetime)) /\ UNCHANGED cache
       \/ /\ pc = "start" /\ size >= 4 /\ ~cache.cached
          /\ NoRead /\ Silent /\ Goto("scan", [off |-> 3, n |-> 0]) /\ UNCHANGED cache
       \/ /\ pc = "scan"
          /\ \E x \in Look(r.off, SolutionBytes(r.off)) :
               IF x = "end"
               THEN LET d == (r.n * 3 + 1) * 60
                    IN /\ Read(r.off, 2, x)
                       /\ cache' = [cached |-> TRUE, divetime |-> d]
                       /\ Reply(Fields(1, Unsupported, d))
               ELSE /\ Read(r.off, Width(x), x) /\ Silent /\ UNCHANGED cache
                    /\ Goto("scan", [off |-> r.off + Width(x),
                                     n |-> IF IsDepth(x) THEN r.n + 1 ELSE r.n])

suunto_solution_parser_samples_foreach ==
    /\ parser = "suunto_solution" /\ call = "samples"
    /\ \/ pc = "start" /\ size < 4 /\ NoRead /\ Finish("dataformat", out)
       \/ pc = "start" /\ size >= 4 /\ NoRead /\ Silent /\ Goto("sample", [off |-> 3, n |-> 0])
       \/ /\ pc = "sample"
          /\ \E x \in Look(r.off, SolutionBytes(r.off)) :
               /\ Read(r.off, Width(x), x)
               /\ \/ x = "end" /\ Finish("ok", out)
                  \/ /\ IsDepth(x)
                     /\ Deliver(<<Time((r.n + 1) * 180), Value>> \o If(r.n = 0, Gas(0)))
                     /\ Goto("sample", [off |-> r.off + Width(x), n |-> r.n + 1])
                  \/ /\ x \in {"event", "quiet"}
                     /\ Deliver(If(x = "event", Value))
                     /\ Goto("sample", [r EXCEPT !.off = @ + 1])
    /\ UNCHANGED cache

-----------------------------------------------------------------------------
(* Eon and Spyder, Vyper: the profile from byte `first' on, and at least   *)
(* `tail' bytes from the marker on                                         *)

Profile == [suunto_eon   |-> [min |-> 13, first |-> 11, tail |-> 3],
            suunto_vyper |-> [min |-> 18, first |-> 14, tail |-> 5]]
Prof == Profile[parser]

suunto_eon_parser_create ==
    \E s \in {0, 12, 13, 14, 15, 16} : \E spyder \in {0, 1} :
        (s = 14 \/ spyder = 0) /\ Create("suunto_eon", spyder, s,
               [cached |-> FALSE, divetime |-> 0, marker |-> 0, mixes |-> << >>])
suunto_vyper_parser_create ==
    \E s \in {0, 17, 18, 19, 20, 21} :
        Create("suunto_vyper", 0, s,
               [cached |-> FALSE, divetime |-> 0, marker |-> 0, mixes |-> << >>])

suunto_eon_parser_get_datetime == Datetime("suunto_eon", 11, 11)
suunto_vyper_parser_get_datetime == Datetime("suunto_vyper", 14, 14)

NGASMIXES == IF parser = "suunto_vyper" THEN VyperMixes ELSE 1

\* The bytes of a profile; 0x87 of the Vyper is a change to a mix named by its
\* oxygen (mix 1 is the one of the header).  A gauge has no gas to change, and
\* where a complete tail no longer fits the bytes of a cut off dive are samples.
ProfileBytes ==
    Plain(IF r.off > size - Prof.tail + 1 THEN {"sample"}
          ELSE IF r.off > size - Prof.tail THEN {"sample", "end"}
          ELSE {"sample", "event", "end"} \cup IF r.off = Prof.first THEN {"quiet"} ELSE {})
    \cup (IF parser = "suunto_vyper" /\ mem[4].mode = "oc" /\ r.off <= size - Prof.tail
          THEN {Class("gas", o2) : o2 \in IF r.off = Prof.first THEN 1..3 ELSE 2..3} ELSE {})
ProfileWidth(x) == IF x.k = "gas" THEN 2 ELSE 1

suunto_vyper_parser_find_gasmix(mixes, o2) == Find(mixes, o2)

\* The header: whether it is a gauge (on the Eon: nitrox) dive, and whether it
\* knows a tank pressure.
ProfileHeaders == {[mode |-> "oc", tank |-> 1], [mode |-> "gauge", tank |-> 1]}
                  \cup (IF size = Prof.min + 1 THEN {[mode |-> "oc", tank |-> 0]} ELSE {})

\* cache(): nothing to do, a dive too short, or the walk up to the marker.
ProfileCache ==
    \/ /\ pc = "start" /\ ~cache.cached /\ size < Prof.min
       /\ NoRead /\ Abort("dataformat") /\ UNCHANGED cache
    \/ /\ pc = "start" /\ ~cache.cached /\ size >= Prof.min
       /\ \E h \in Look(4, ProfileHeaders) : Read(4, 3, h)
       /\ Silent /\ UNCHANGED cache
       /\ Goto("scan", [off |-> Prof.first, n |-> 0, mixes |-> <<1>>])
    \/ /\ pc = "scan" /\ r.off >= size
       /\ NoRead /\ Abort("dataformat") /\ UNCHANGED cache
    \/ /\ pc = "scan" /\ r.off < size
       /\ \E x \in Look(r.off, ProfileBytes) :
            LET new == x.k = "gas"
                       /\ suunto_vyper_parser_find_gasmix(r.mixes, x.v) = Len(r.mixes)
                bad == \/ x.k = "gas" /\ r.off + 2 > size
                       \/ new /\ Len(r.mixes) >= NGASMIXES
                       \/ x.k = "end" /\ r.off + Prof.tail > size
            IN /\ Read(r.off, IF r.off + 2 > size THEN 1 ELSE ProfileWidth(x), x)
               /\ \/ bad /\ Abort("dataformat") /\ UNCHANGED cache
                  \/ /\ ~bad /\ x.k # "end" /\ Silent /\ UNCHANGED cache
                     /\ Goto("scan", [off |-> r.off + ProfileWidth(x),
                                      n |-> IF x.k = "sample" THEN r.n + 1 ELSE r.n,
                                      mixes |-> IF new THEN Append(r.mixes, x.v) ELSE r.mixes])
                  \/ /\ ~bad /\ x.k = "end" /\ Silent /\ Goto("start", << >>)
                     /\ cache' = [cached |-> TRUE, divetime |-> r.n * SuuntoInterval,
                                  marker |-> r.off, mixes |-> r.mixes]
suunto_eon_parser_cache == parser = "suunto_eon" /\ call # "none" /\ ProfileCache
suunto_vyper_parser_cache == parser = "suunto_vyper" /\ call # "none" /\ ProfileCache

\* A tank is known by a start or an end pressure; a nitrox Eon has none.
suunto_eon_parser_get_field ==
    /\ At("suunto_eon", "field", "start") /\ cache.cached /\ UNCHANGED cache
    /\ Skim(cache.marker + 3)
    /\ Reply(Fields(1, IF model = 0 /\ mem[4].mode = "gauge" THEN 0 ELSE mem[4].tank,
                    cache.divetime))

suunto_vyper_parser_get_field ==
    /\ At("suunto_vyper", "field", "start") /\ cache.cached /\ UNCHANGED cache
    /\ Skim(cache.marker + 4)
    /\ Reply(Fields(IF mem[4].mode = "gauge" THEN 0 ELSE Len(cache.mixes), mem[4].tank,
                    cache.divetime))

\* The samples: a first one at time zero, then one time per depth, with the
\* events up to that depth; a last depth of zero at the marker.
ProfileSamples(gas) ==
    /\ call = "samples" /\ UNCHANGED cache
    /\ \/ /\ pc = "start" /\ cache.cached
          /\ NoRead /\ Deliver(<<Time(0), Value>> \o If(gas, Gas(0)))
          /\ Goto("sample", [off |-> Prof.first, n |-> 1, complete |-> TRUE])
       \/ /\ pc = "sample"
          /\ \E x \in Look(r.off, ProfileBytes) :
               LET begin == If(r.complete, Time(r.n * SuuntoInterval))
                   idx == suunto_vyper_parser_find_gasmix(cache.mixes, x.v)
               IN /\ Read(r.off, ProfileWidth(x), x)
                  /\ \/ x.k = "end" /\ FinishAfter("ok", begin \o <<Value>>)
                     \/ /\ x.k = "sample" /\ Deliver(begin \o <<Value>>)
                        /\ Goto("sample", [off |-> r.off + 1, n |-> r.n + 1, complete |-> TRUE])
                     \/ /\ x.k \in {"event", "quiet"} /\ Deliver(begin \o If(x.k = "event", Value))
                        /\ Goto("sample", [r EXCEPT !.off = @ + 1, !.complete = FALSE])
                     \/ /\ x.k = "gas" /\ idx < Len(cache.mixes)
                        /\ Deliver(begin \o <<Gas(idx)>>)
                        /\ Goto("sample", [r EXCEPT !.off = @ + 2, !.complete = FALSE])
                     \/ /\ x.k = "gas" /\ idx >= Len(cache.mixes)
                        /\ FinishAfter("dataformat", begin)
suunto_eon_parser_samples_foreach == parser = "suunto_eon" /\ ProfileSamples(TRUE)
suunto_vyper_parser_samples_foreach ==
    parser = "suunto_vyper" /\ ProfileSamples(4 \in DOMAIN mem /\ mem[4].mode = "oc")

-----------------------------------------------------------------------------
(* D9: the layouts of the header by model and, for the later ones, by the  *)
(* version stored in the dive                                              *)

D9Models == {"D9", "D4", "HELO2", "D4i", "D6i", "D6i_V2", "VYPERNOVO", "D9tx", "DX"}
D9Layout(m) ==
    CASE m = "HELO2"  -> [gasmode |-> 31, gas |-> 84,  count |-> 8,  ccr |-> 0, first |-> 38]
      [] m = "D4i"    -> [gasmode |-> 29, gas |-> 95,  count |-> 1,  ccr |-> 0, first |-> 40]
      [] m \in {"D6i", "VYPERNOVO"} -> [gasmode |-> 29, gas |-> 95,  count |-> 2,  ccr |-> 0, first |-> 40]
      [] m = "D6i_V2" -> [gasmode |-> 29, gas |-> 103, count |-> 3,  ccr |-> 0, first |-> 45]
      [] m = "D9tx"   -> [gasmode |-> 29, gas |-> 135, count |-> 8,  ccr |-> 0, first |-> 40]
      [] m = "DX"     -> [gasmode |-> 33, gas |-> 193, count |-> 11, ccr |-> 3, first |-> 49]
      [] OTHER        -> [gasmode |-> 25, gas |-> 33,  count |-> 3,  ccr |-> 0, first |-> 0]
Old(m) == m \in {"D9", "D4"}
Config(m) == IF m = "D9" THEN 58 ELSE IF m = "D4" THEN 59
             ELSE D9Layout(m).gas + D9Layout(m).count * 6

\* Dives that stop within the header, behind the table of parameters, and in
\* the profile at different places.
\* The identifier and the table of parameters are read without a check.
suunto_d9_parser_create ==
    \E m \in D9Models : \E s \in Sizes("suunto_d9",
            IF m \in {"D9", "DX"} THEN {-20, 0, 8, 9, 10, 11, 12, 15, 17, 18} ELSE {0, 12, 17},
            {3 - Config(m), 1, 4}) :
        Create("suunto_d9", m,
               Config(m) + s + (IF m = "HELO2" /\ s > 9 THEN 12 ELSE 0),
               [cached |-> FALSE, gases |-> 0, ccr |-> 0, first |-> 0])

suunto_d9_parser_get_datetime ==
    LET at == CASE model \in {"HELO2", "DX"} -> 23 [] Old(model) -> 17 [] OTHER -> 19
    IN Datetime("suunto_d9", at + 7, at + 7)

\* The header: the mode ("ccr": a mix dive that starts on a diluent), the mixes
\* used (older models) and the first one; the parameters of a sample, each
\* present in every k-th one; the sample interval; the number of the sample the
\* first events follow; the bytes some HELO2 dives have before the profile.
Header(mode, used, first, params, interval, marker) ==
    [mode |-> mode, used |-> used, first |-> first, params |-> params,
     interval |-> interval, marker |-> marker,
     pad |-> IF model = "HELO2" /\ mode # "gauge" THEN 12 ELSE 0]
Depth == [size |-> 2, every |-> 1]
Temperature == [size |-> 1, every |-> 2]
D9Headers ==
    {Header("gauge", 0, 0, <<Depth>>, 10, 1), Header("air", 0, 0, <<Depth, Temperature>>, 10, 2),
     Header("mix", 1, 0, <<Depth>>, 10, 1), Header("mix", 2, 1, <<Depth>>, 10, 2),
     Header("mix", 0, 11, <<Depth>>, 10, 1), Header("ccr", 1, 0, <<Depth>>, 10, 1), Header("air", 0, 0, << >>, 10, 1),
     Header("air", 0, 0, <<Depth>>, 0, 1)}

\* cache(): the dive mode, the gas mixes and the first one in use.  The newer
\* models list all their mixes, the older ones stop at an unused entry.
suunto_d9_parser_cache ==
    /\ Doing("suunto_d9", "start") /\ ~cache.cached
    /\ IF Config(model) + 1 > size
       THEN Skim(5) /\ Abort("dataformat") /\ UNCHANGED cache
       ELSE LET l == D9Layout(model) IN
            \E h \in Look(0, D9Headers) :
              LET gases == CASE h.mode = "gauge" -> 0
                             [] h.mode = "air" -> 1
                             [] OTHER -> IF Old(model) THEN h.used ELSE l.count
                  ccr == IF h.mode \in {"mix", "ccr"} THEN l.ccr ELSE 0
              IN /\ mem' = (0 :> h) @@ mem
                 /\ Touch(IF l.first > l.gas + 6 * l.count THEN l.first + 1
                          ELSE Config(model))
                 /\ Silent /\ Goto("start", << >>)
                 /\ cache' = [cached |-> TRUE, gases |-> gases, ccr |-> ccr,
                              first |-> CASE l.first = 0 -> 0 [] h.mode = "ccr" -> h.first
                                         [] OTHER -> h.first + ccr]

suunto_d9_parser_get_field ==
    /\ At("suunto_d9", "field", "start") /\ cache.cached
    /\ Skim(38) /\ Reply(Fields(cache.gases, Unsupported, Stored)) /\ UNCHANGED cache

Present(p, n) == p.every # 0 /\ n % p.every = 0
Bytes(ps, n) == FoldLeft(LAMBDA b, p : IF Present(p, n) THEN b + p.size ELSE b, 0, ps)

suunto_d9_parser_samples_foreach ==
    /\ At("suunto_d9", "samples", "start") /\ cache.cached
    /\ LET t       == mem[0]
           table   == Config(model) + 2 + 3 * Len(t.params)
           profile == table + t.pad
       IN IF t.params = << >> \/ profile + 5 > size \/ t.interval = 0
          THEN Skim(IF t.params = << >> THEN Config(model) + 1 ELSE table) /\ Finish("dataformat", out)
          ELSE /\ Skim(profile + 5) /\ Silent
               /\ Goto("sample", [off |-> profile + 5, n |-> 0, marker |-> t.marker])
    /\ UNCHANGED cache

\* One sample: its time, the parameters due, the first gas mix, and then the
\* events if the marker names this sample.
d9_sample ==
    /\ At("suunto_d9", "samples", "sample")
    /\ LET t    == mem[0]
           due  == SelectSeq(t.params, LAMBDA p : Present(p, r.n))
           room == {i \in 1..Len(due) : Bytes(SubSeq(due, 1, i), r.n) <= size - r.off}
           head == <<Time(r.n * t.interval)>>
                   \o [i \in 1..Cardinality(room) |-> Value]
           gas  == r.n = 0 /\ cache.gases > 0
       IN IF r.off >= size THEN NoRead /\ Finish("ok", out)
          ELSE IF Cardinality(room) < Len(due)
          THEN Skim(r.off + Bytes(SubSeq(due, 1, Cardinality(room)), r.n))
               /\ FinishAfter("dataformat", head)
          ELSE /\ Skim(r.off + Bytes(t.params, r.n))
               /\ IF gas /\ cache.first >= cache.gases
                  THEN FinishAfter("dataformat", head)
                  ELSE /\ Deliver(head \o If(gas, Gas(cache.first)))
                       /\ Goto(IF r.n + 1 = r.marker THEN "event" ELSE "deco",
                               [r EXCEPT !.off = @ + Bytes(t.params, r.n)])
    /\ UNCHANGED cache

\* The bytes of an event behind its type byte.
EventLength(x) == CASE x.k \in {"next", "bookmark"} -> 4
                    [] x.k \in {"surfaced", "warning", "stop", "gas5"} -> 2
                    [] x.k = "gas6" -> IF model \in {"DX", "D6i_V2", "VYPERNOVO"} THEN 5 ELSE 4
                    [] x.k = "unknown" -> 0
D9Events ==
    {Class("next", 1), Class("gas6", 0), Class("gas5", cache.ccr)}
    \cup (IF model = "DX" THEN {Class("gas6", cache.gases), Class("bookmark", 0)} ELSE {})
    \cup (IF model = "D9" THEN {Class("gas5", cache.gases), Class("surfaced", 0),
                                Class("warning", 0), Class("stop", 0), Class("unknown", 0),
                                Class("next", 0)}
          ELSE {})

\* One event.  The next marker must name the sample it follows (v = 1), and
\* ends the events; a gas change must name a mix of the header.
d9_event ==
    /\ At("suunto_d9", "samples", "event")
    /\ IF r.off >= size THEN NoRead /\ Silent /\ Goto("deco", r)
       ELSE \E x \in Look(r.off, D9Events) :
              LET end == r.off + 1 + EventLength(x)
                  bad == \/ end > size
                         \/ x.k = "next" /\ x.v = 0
                         \/ x.k \in {"gas5", "gas6"} /\ x.v >= cache.gases
              IN /\ Read(r.off, IF end > size THEN 1 ELSE end - r.off, x)
                 /\ \/ bad /\ Finish("dataformat", out)
                    \/ /\ ~bad /\ x.k = "next" /\ Silent
                       /\ Goto("deco", [r EXCEPT !.off = end, !.marker = @ + 1])
                    \/ /\ ~bad /\ x.k # "next"
                       /\ Deliver(CASE x.k = "gas5" -> <<Gas(x.v)>>
                                    [] x.k = "gas6" -> <<Gas(x.v)>> \o If(x.v < cache.ccr, Value)
                                    [] x.k \in {"stop", "unknown"} -> << >>
                                    [] OTHER -> <<Value>>)
                       /\ Goto("event", [r EXCEPT !.off = end])
    /\ UNCHANGED cache

\* Every sample ends with the deco status.
d9_deco ==
    /\ At("suunto_d9", "samples", "deco")
    /\ Deliver(<<Value>>) /\ Goto("sample", [r EXCEPT !.n = @ + 1])
    /\ NoRead /\ UNCHANGED cache

-----------------------------------------------------------------------------

SuuntoFamily == {"suunto_d9", "suunto_eon", "suunto_solution", "suunto_vyper"}

SuuntoInit ==
    \/ suunto_solution_parser_create \/ suunto_eon_parser_create
    \/ suunto_vyper_parser_create \/ suunto_d9_parser_create

SuuntoNext ==
    \/ suunto_solution_parser_get_field \/ suunto_solution_parser_samples_foreach
    \/ suunto_eon_parser_get_datetime \/ suunto_eon_parser_cache
    \/ suunto_eon_parser_get_field \/ suunto_eon_parser_samples_foreach
    \/ suunto_vyper_parser_get_datetime \/ suunto_vyper_parser_cache
    \/ suunto_vyper_parser_get_field \/ suunto_vyper_parser_samples_foreach
    \/ suunto_d9_parser_get_datetime \/ suunto_d9_parser_cache
    \/ suunto_d9_parser_get_field \/ suunto_d9_parser_samples_foreach
    \/ d9_sample \/ d9_event \/ d9_deco
=============================================================================
