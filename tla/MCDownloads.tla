---------------------------- MODULE MCDownloads ----------------------------
(***************************************************************************)
(* One download by one of the driver families, on a small device: every    *)
(* one of them has to implement DiveDownload.  The families share the      *)
(* variables an application can observe; what else a family needs is in    *)
(* v1 .. v20, as its INSTANCE says.                                        *)
(*                                                                         *)
(* oceanic: three logbook entries and a ring of five pages, dives of one,  *)
(*   two and five pages: the ring wraps, is exactly full, or has lost      *)
(*   dives the logbook lists.                                              *)
(* predator: a ring of seven blocks, up to three complete dives of two or  *)
(*   three blocks and the rest of an older one.                            *)
(* suunto: a ring of eight units, up to three dives, one maybe incomplete. *)
(* pointer: a ring of six units and two logbook pages of two entries.      *)
(* petrel: manifests of two records, up to five dives.                     *)
(* logbook: up to three dives numbered up to four, some not available.     *)
(* ostc3: a table of three headers, lengths at the limits of the checks.   *)
(* dump: a memory of twelve cells, up to four dives, a logbook of three.   *)
(* stream: a memory of twelve cells, read in packages of four, up to three  *)
(*   dives, of which the oldest may be cut.                                *)
(***************************************************************************)
EXTENDS Integers, Sequences

CONSTANTS
  Families,          \* the families of this run
  Corrupt,           \* the pointers in the memory of the device are anything
  DeletedAnywhere,   \* see PetrelDownload
  AllLayouts         \* see PredatorDownload

VARIABLES
  family,            \* the driver family of this download
  \* what all families have: the fingerprint set by the application, the state
  \* of the driver, and what the application has seen
  fingerprint, pc, delivered, stopped, info, current, maximum, status,
  v1, v2, v3, v4, v5, v6, v7, v8, v9, v10, v11, v12, v13, v14, v15, v16, v17, v18, v19, v20

\* The variables a family does not use.
rest20 == <<v20>>
rest13 == <<v13, v14, v15, v16, v17, v18, v19, rest20>>
rest11 == <<v11, v12, rest13>>
rest10 == <<v10, rest11>>
rest9  == <<v9, rest10>>
vars   == <<family, fingerprint, pc, delivered, stopped, info, current, maximum, status,
            v1, v2, v3, v4, v5, v6, v7, v8, rest9>>

Unused20 == v20 = 0
Unused13 == v13 = 0 /\ v14 = 0 /\ v15 = 0 /\ v16 = 0 /\ v17 = 0 /\ v18 = 0 /\ v19 = 0 /\ Unused20
Unused11 == v11 = 0 /\ v12 = 0 /\ Unused13
Unused10 == v10 = 0 /\ Unused11
Unused9  == v9 = 0 /\ Unused10

Oceanic == INSTANCE OceanicDownload WITH
  LB <- 2, L <- 3, PB <- 7, R <- 5, EntrySize <- 2, PAGESIZE <- 4,
  DiveSizes <- {1, 2, 5}, Tops <- {0, 2}, handed <- delivered,
  size <- v1, gapAt <- v2, bad <- v3, book <- v4, first <- v5, last <- v6,
  direction <- v7, begin <- v8, count <- v9, nread <- v10, list <- v11,
  matched <- v12, plan <- v13, entry <- v14, remaining <- v15, previous <- v16,
  pos <- v17, offset <- v18, failed <- v19

Predator == INSTANCE PredatorDownload WITH
  N <- IF AllLayouts THEN 5 ELSE 7, MaxDives <- IF AllLayouts THEN 1 ELSE 3,
  Lens <- {2, 3}, handed <- delivered,
  petrel <- v1, mem <- v2, wrong <- v3, offset <- v4, begin <- v5, mark <- v6,
  marked <- v7, highest <- v8, eop <- v9, buffer <- v10

Suunto == INSTANCE SuuntoDownload WITH
  PB <- 3, R <- IF Corrupt THEN 6 ELSE 8, MaxDives <- IF Corrupt THEN 0 ELSE 3,
  dives <- v1, begin <- v2, end <- v3, last <- v4, count <- v5, failed <- v6,
  at <- v7, previous <- v8, offset <- v9, pos <- v10, prev <- v11, next <- v12

Pointer == INSTANCE PointerDownload WITH
  PB <- 3, R <- IF Corrupt THEN 4 ELSE 6, L <- IF Corrupt THEN 3 ELSE 4,
  PerPage <- IF Corrupt THEN 3 ELSE 2, DiveSizes <- IF Corrupt THEN {2} ELSE {2, 3},
  driver <- v1, size <- v2, used <- v3, eop <- v4, last <- v5, valid <- v6,
  list <- v7, idx <- v8, nbytes <- v9, begin <- v10, count <- v11, skip <- v12,
  taken <- v13, total <- v14, remaining <- v15, previous <- v16, pos <- v17,
  top <- v18, at <- v19, len <- v20

Petrel == INSTANCE PetrelDownload WITH
  RECORD_COUNT <- 2, MaxRecords <- 5, UINT_MAX <- 1000000000, handed <- delivered,
  live <- v1, asleep <- v2, registered <- v3, cancelled <- v4, page <- v5,
  manifests <- v6, next <- v7, steps <- v8, total <- v9

Logbook == INSTANCE LogbookDownload WITH
  Slots <- 3, MaxNumber <- 4, PageLen <- 2, Unreported <- FALSE,
  p <- v1, slots <- v2, missing <- v3, entries <- v4, index <- v5, nchunks <- v6,
  data <- v7, mismatch <- v8

Ostc3 == INSTANCE Ostc3Download WITH
  N <- 3, UsualLen <- 20, Lengths <- {2, 5, 20}, handed <- delivered,
  hwos4 <- v1, compactSupported <- v2, header <- v3, compact <- v4, dive <- v5, next <- v6,
  scanned <- v7, plan <- v8

Dump == INSTANCE DumpDownload WITH
  R <- 12, LB <- 3, Samples <- {1, 5}, PuckSamples <- {1, 2}, MaxDives <- 4,
  Tops <- {0, 1, 6, 11}, UINT_MAX <- 1000000000,
  driver <- v1, dives <- v2, mem <- v3, eop <- v4, book <- v5, eol <- v6, log <- v7,
  step <- v8, at <- v9

Stream == INSTANCE StreamDownload WITH
  R <- 12, Samples <- {0, 4}, MaxDives <- 3, UINT_MAX <- 1000000000,
  driver <- v1, dives <- v2, mem <- v3, pointers <- v4, SZ_PACKET <- 4,
  buffer <- v5, offset <- v6, previous <- v7, npackets <- v8, log <- v9

ASSUME FamiliesAssumption ==
  /\ Families \subseteq {"oceanic", "predator", "suunto", "pointer", "petrel", "logbook", "ostc3", "dump",
                  "stream"}
  /\ Oceanic!OceanicAssumption /\ Predator!PredatorAssumption
  /\ Suunto!SuuntoAssumption /\ Pointer!PointerAssumption
  /\ Petrel!PetrelAssumption /\ Logbook!LogbookAssumption /\ Ostc3!OstcAssumption
  /\ Dump!DumpAssumption /\ Stream!StreamAssumption

Init ==
  /\ family \in Families
  /\ \/ family = "oceanic"  /\ Oceanic!Init  /\ Unused20
     \/ family = "predator" /\ Predator!Init /\ Unused11
     \/ family = "suunto"   /\ Suunto!Init   /\ Unused13
     \/ family = "pointer"  /\ Pointer!Init
     \/ family = "petrel"   /\ Petrel!Init   /\ Unused10
     \/ family = "logbook"  /\ Logbook!Init  /\ Unused9
     \/ family = "ostc3"    /\ Ostc3!Init    /\ Unused9
     \/ family = "dump"     /\ Dump!Init     /\ Unused10
     \/ family = "stream"   /\ Stream!Init   /\ Unused10

Next ==
  \/ family = "oceanic"  /\ Oceanic!Next  /\ UNCHANGED <<family, rest20>>
  \/ family = "predator" /\ Predator!Next /\ UNCHANGED <<family, rest11>>
  \/ family = "suunto"   /\ Suunto!Next   /\ UNCHANGED <<family, rest13>>
  \/ family = "pointer"  /\ Pointer!Next  /\ UNCHANGED family
  \/ family = "petrel"   /\ Petrel!Next   /\ UNCHANGED <<family, rest10>>
  \/ family = "logbook"  /\ Logbook!Next  /\ UNCHANGED <<family, rest9>>
  \/ family = "ostc3"    /\ Ostc3!Next    /\ UNCHANGED <<family, rest9>>
  \/ family = "dump"     /\ Dump!Next     /\ UNCHANGED <<family, rest10>>
  \/ family = "stream"   /\ Stream!Next   /\ UNCHANGED <<family, rest10>>

\* A driver is a sequential program: it goes on until it returns.
Spec == Init /\ [][Next]_vars /\ WF_vars(Next)

-----------------------------------------------------------------------------
\* The state of each family has its types: no count is negative, no index
\* leaves its list, no status is made up.
TypeOK ==
  /\ family = "oceanic"  => Oceanic!TypeOK
  /\ family = "predator" => Predator!TypeOK
  /\ family = "suunto"   => Suunto!TypeOK
  /\ family = "pointer"  => Pointer!TypeOK
  /\ family = "petrel"   => Petrel!TypeOK
  /\ family = "logbook"  => Logbook!TypeOK
  /\ family = "ostc3"    => Ostc3!TypeOK
  /\ family = "dump"     => Dump!TypeOK
  /\ family = "stream"   => Stream!TypeOK

\* Every family keeps the promise of dc_device_foreach, each with its own
\* notion of the dives its device still holds: they are handed out newest
\* first up to the fingerprint, success means all of them, and the progress
\* never runs backward or past its maximum.  (Only the Petrel is closed.)
DownloadSpec ==
  /\ family = "oceanic"  => Oceanic!Download!Init
  /\ family = "predator" => Predator!Download!Init
  /\ family = "suunto"   => Suunto!Download!Init
  /\ family = "pointer"  => Pointer!Download!Init
  /\ family = "petrel"   => Petrel!Download!Init
  /\ family = "logbook"  => Logbook!Download!Init
  /\ family = "ostc3"    => Ostc3!Download!Init
  /\ family = "dump"     => Dump!Download!Init
  /\ family = "stream"   => Stream!Download!Init
  /\ [][/\ family = "oceanic"  => [Oceanic!Download!Next]_(Oceanic!Download!dlvars)
        /\ family = "predator" => [Predator!Download!Next]_(Predator!Download!dlvars)
        /\ family = "suunto"   => [Suunto!Download!Next]_(Suunto!Download!dlvars)
        /\ family = "pointer"  => [Pointer!Download!Next]_(Pointer!Download!dlvars)
        /\ family = "petrel" /\ pc' # "closed" => [Petrel!Download!Next]_(Petrel!Download!dlvars)
        /\ family = "logbook"  => [Logbook!Download!Next]_(Logbook!Download!dlvars)
        /\ family = "ostc3"    => [Ostc3!Download!Next]_(Ostc3!Download!dlvars)
        /\ family = "dump"     => [Dump!Download!Next]_(Dump!Download!dlvars)
        /\ family = "stream"   => [Stream!Download!Next]_(Stream!Download!dlvars)]_vars

\* A dive is handed out with its own bytes, not with those of another dive or
\* those a longer one has left in the buffer, although the drivers only know
\* how far a stream has gone backward, or read into a buffer they share.
OwnBytes ==
  /\ family = "oceanic"  => Oceanic!OwnProfile
  /\ family = "predator" => Predator!OwnBlocks
  /\ family = "suunto"   => Suunto!InStep
  /\ family = "pointer"  => Pointer!InStep
  /\ family = "ostc3"    => Ostc3!NoForeignDive /\ Ostc3!NothingLeftOver

\* The pass over the logbook that announces the amount of data and the pass
\* that reads the dives agree, and so do the steps of a dump and the size it
\* announces: a download that is neither stopped nor fails
\* has used up what was announced, and none exceeds it.
ProgressComplete ==
  /\ family = "oceanic"  => Oceanic!PassesAgree
  /\ family = "pointer"  => Pointer!PassesAgree
  /\ family = "logbook"  => Logbook!ProgressCompletes
  /\ family = "ostc3"    => Ostc3!ProgressComplete
  /\ family = "dump"     => Dump!ProgressComplete

\* dc_device_close puts a Petrel to sleep even after a cancelled download.
ShutdownSent == family = "petrel" => Petrel!ShutdownSent

\* Every download returns: no walk over a ring or along pointers goes round
\* for ever.
Returns == <>(pc = "done")

\* shearwater_petrel.c:275: "this is a deleted dive; keep looking".
DeletedSkipped == family = "petrel" => Petrel!DeletedSkipped
=============================================================================
