------------------------------ MODULE MCParsers ------------------------------
(***************************************************************************)
(* Every parser of the library over dives of several lengths, with any     *)
(* sequence of calls by the application.                                   *)
(***************************************************************************)
EXTENDS SuuntoParsers, SmallParsers, RecordParsers,
        MaresParsers, OceanicParsers, StreamParsers, TechParsers, TaggedParsers

\* A parser of one of the families, for a dive of one of the lengths.
dc_parser_new_internal ==
    \/ ReefnetInit \/ SuuntoInit \/ CressiInit \/ SmallInit \/ RecordInit
    \/ MaresInit \/ OceanicInit \/ StreamInit \/ TechInit \/ TaggedInit

Init == dc_parser_new_internal

Next ==
    \/ dc_parser_get_field \/ dc_parser_samples_foreach
    \/ parser \in ReefnetFamily /\ ReefnetNext
    \/ parser \in SuuntoFamily  /\ SuuntoNext
    \/ parser \in CressiFamily  /\ CressiNext
    \/ parser \in SmallFamily   /\ SmallNext
    \/ parser \in RecordFamily  /\ RecordNext
    \/ parser \in MaresFamily   /\ MaresNext
    \/ parser \in OceanicFamily /\ OceanicNext
    \/ parser \in StreamFamily  /\ StreamNext
    \/ parser \in TechFamily    /\ TechNext
    \/ parser \in TaggedFamily  /\ TaggedNext

\* A call that has been made goes on: the library runs in the thread of the
\* application, which is not stopped for good.
Spec == Init /\ [][Next]_vars /\ WF_vars(call # "none" /\ Next)

-----------------------------------------------------------------------------
(* Properties that need to know the family *)

\* The numbers of gas mixes and of tanks in the tables of the parser object,
\* and the sizes of the arrays.
Tables(gases, tanks) == [gases |-> gases, tanks |-> tanks]
Held ==
    CASE parser \in {"suunto_eon", "suunto_vyper"} -> Tables(Len(cache.mixes), 0)
      [] parser \in {"diverite_nitekq", "seac_screen", "deepsix_excursion", "hw_ostc"} ->
           Tables(Len(cache.gases), 0)
      [] parser \in {"uwatec_smart", "divesoft_freedom"} -> Tables(Len(cache.gases), Len(cache.tanks))
      [] parser = "shearwater_predator" -> Tables(Len(cache.gases), Cardinality(cache.tanks))
      [] parser = "liquivision_lynx" -> Tables(cache.gases, cache.tanks)
      [] parser \in {"divesystem_idive", "halcyon_symbios"} ->
           Tables(Len(cache.found.gases), Len(cache.found.tanks))
      [] parser = "suunto_eonsteel" -> Tables(cache.gases, cache.gases)
      [] OTHER -> Tables(0, 0)
Room ==
    CASE parser = "suunto_eon" -> Tables(1, 0)
      [] parser = "suunto_vyper" -> Tables(VyperMixes, 0)
      [] parser = "diverite_nitekq" -> Tables(NitekqMixes, 0)
      [] parser = "seac_screen" -> Tables(2, 0)
      [] parser = "deepsix_excursion" -> Tables(ExcursionGases, 0)
      [] parser = "hw_ostc" -> Tables(OstcMixes, 0)
      [] parser \in {"uwatec_smart", "liquivision_lynx"} -> Tables(StreamMixes, StreamMixes)
      [] parser = "divesoft_freedom" -> Tables(FreedomGases, FreedomGases)
      [] parser = "shearwater_predator" -> Tables(PredatorMixes, 6)
      [] parser = "divesystem_idive" -> Tables(IdiveMixes, IdiveTanks)
      [] parser = "halcyon_symbios" -> Tables(SymbiosGases, SymbiosTanks)
      [] parser = "suunto_eonsteel" -> Tables(EonMaxGases, EonMaxGases)
      [] OTHER -> Tables(0, 0)

\* The state is well formed and no table has outgrown its array, whatever a
\* dive makes the passes of any number of calls enter into it.
TypeOK ==
    /\ ParserOK
    /\ Held.gases <= Room.gases /\ Held.tanks <= Room.tanks

\* How far the dive time exceeds the time of the last sample: these parsers
\* count the time after the last sample, or leave the last or the shallow
\* samples out of the dive time.
Excess == CASE parser = "suunto_solution" -> {60}
            [] parser \in {"suunto_eon", "suunto_vyper"} -> {-20}
            [] parser = "reefnet_sensusultra" -> {-Interval * n : n \in 0..size}
            [] OTHER -> {0}

\* What get_field says of the whole dive and what an enumeration delivers are
\* the results of different passes over the same bytes, often of different
\* functions.  They agree on the gas mixes and the tanks that exist and, where
\* the dive time is computed from the samples, on the time of the last one.
PassesAgree ==
    /\ IndicesKnown
    /\ ans.fields.status = "ok" /\ ans.run.status = "ok" /\ ans.fields.divetime >= 0 =>
           ans.fields.divetime - Max({0, ans.run.samples.time}) \in Excess
=============================================================================
