------------------------- MODULE Ostc3SessionProofs -------------------------
(***************************************************************************)
(* Proofs about a session with an OSTC 3, for every number of blocks, of   *)
(* operations and of faults.  What the driver alone decides (DriverInv)    *)
(* and what the device alone does (DeviceInv, EchoInv) holds whatever      *)
(* happens on the line; that the two are in step (StepInv), know of each   *)
(* other (KnownInv) and that the firmware is written, read back and only   *)
(* then installed (FirmwareInv) holds as long as no answer is late or      *)
(* lost.                                                                   *)
(*                                                                         *)
(* The last part is about the download of the dives, for every size of     *)
(* the table of headers (TableInv).                                        *)
(***************************************************************************)
EXTENDS Ostc3Session, SequenceTheorems, TLAPS

USE SessionAssumption

Commands == Optional \cup Download \cup Service \cup {"INIT", "S_INIT"}

Modes    == {"idle", "download", "service", "rebooting"}
States   == {"OPEN", "DOWNLOAD", "SERVICE", "REBOOTING"}
Contents == {Old, Erased, New, Garbage, Absent}
Blocked  == {"S_BLOCK_READ", "S_BLOCK_WRITE", "S_FWINFO", "S_UPLOAD"}
Results  == {"SUCCESS", "INVALIDARGS", "UNSUPPORTED", "PROTOCOL", "TIMEOUT", "CANCELLED"}
Phases   == {"idle", "next", "echo", "input", "input2", "output", "ready", "done", "closed"}

\* An item of a script: only a display text is optional, only the three
\* commands that a device may lack have an alternative, and a command for a
\* block names one.
Items ==
  {it \in [cmd : Commands, arg : Nat, fallback : BOOLEAN, ignored : BOOLEAN] :
     /\ it.ignored => it.cmd = "DISPLAY"
     /\ it.fallback <=> it.cmd \in Optional
     /\ it.cmd \in Blocked => it.arg \in 1 .. Blocks}

Words  == Commands \cup Contents \cup Modes
Tokens == [kind : {"echo", "data", "ready"}, cmd : Words, arg : Nat]

Has(s, c)      == \E i \in 1 .. Len(s) : s[i].cmd = c
HasAt(s, c, b) == \E i \in 1 .. Len(s) : s[i].cmd = c /\ s[i].arg = b
Only(s, C)     == \A i \in 1 .. Len(s) : s[i].cmd \in C

\* What stays true of a script when its first transfers are done: a mode is
\* only changed by the first transfer, an alternative and an upload follow
\* what they belong to, nothing is written once reading back has begun, and
\* the installation comes last.
Script(s) ==
  /\ s \in Seq(Items)
  /\ \A i \in 1 .. Len(s) : i > 1 => s[i].cmd \notin {"INIT", "S_INIT"}
  /\ \A i \in 1 .. Len(s) : s[i].cmd \in {"HARDWARE2", "COMPACT", "S_FWINFO"} => i < Len(s)
  /\ \A i \in 1 .. Len(s) : s[i].cmd = "HARDWARE2" => s[i + 1].cmd = "HARDWARE"
  /\ \A i \in 1 .. Len(s) : s[i].cmd = "COMPACT" => s[i + 1].cmd = "HEADER"
  /\ \A i \in 1 .. Len(s) : s[i].cmd = "S_FWINFO" =>
       s[i + 1].cmd = "S_UPLOAD" /\ s[i + 1].arg = s[i].arg
  /\ \A i \in 1 .. Len(s) : s[i].cmd \in {"IDENTITY", "S_UPGRADE"} => i = Len(s)
  /\ \A i, j \in 1 .. Len(s) :
       i < j /\ s[i].cmd = "S_BLOCK_READ" => s[j].cmd \notin {"S_ERASE", "S_BLOCK_WRITE"}

Busy    == phase \notin {"idle", "closed"}
Cmd     == todo[1].cmd
Arg     == todo[1].arg

DriverTypes ==
  /\ state \in States /\ hardware \in {"INVALID", "hwos3", "hwos4"}
  /\ phase \in Phases /\ status \in Results
  /\ op \in Operations \cup {None, "close"}
  /\ inBody \in BOOLEAN /\ cancelled \in BOOLEAN /\ calls \in Nat /\ seen \in Nat
  /\ answer \in Tokens \cup {NoAnswer}
  /\ Script(todo)

\* A transfer is under way only for an item of the script, and in a phase its
\* command has.
PhaseInv ==
  /\ ~Busy => todo = <<>>
  /\ phase \notin {"idle", "next", "closed"} => todo # <<>>
  /\ phase = "input" => InputLen(Cmd) > 0
  /\ phase = "input2" => InputLen(Cmd) = 2
  /\ phase = "output" => HasOutput(Cmd)
  /\ phase = "ready" => Cmd # "EXIT"

\* hw_ostc3_device_init: the mode the operation wants and the descriptor.
OpeningInv ==
  Busy /\ op # "close" /\ ~inBody =>
    /\ Only(todo, {"INIT", "S_INIT", "HARDWARE2", "HARDWARE", "IDENTITY"})
    /\ state # "REBOOTING"
    /\ Target(op) = "SERVICE" => state # "DOWNLOAD"
    /\ state = "OPEN" => todo # <<>> /\ Cmd = IF Target(op) = "SERVICE" THEN "S_INIT" ELSE "INIT"
    /\ state # "OPEN" => ~Has(todo, "INIT") /\ ~Has(todo, "S_INIT")
    /\ hardware = "INVALID" => Has(todo, "IDENTITY")
    /\ hardware # "INVALID" => ~Has(todo, "IDENTITY")
    /\ status = "SUCCESS"

\* The body of an operation.
BodyInv ==
  Busy /\ op # "close" /\ inBody =>
    /\ hardware # "INVALID" /\ state # "OPEN"
    /\ Target(op) = "SERVICE" => Only(todo, Service \cup {"DISPLAY"}) /\ state # "DOWNLOAD"
    /\ Target(op) # "SERVICE" =>
         Only(todo, (Download \ {"EXIT", "IDENTITY"}) \cup {"COMPACT"}) /\ state # "REBOOTING"
    /\ state = "REBOOTING" => todo = <<>>
    /\ op # "fwupdate" => ~Has(todo, "S_UPGRADE") /\ status = "SUCCESS"
    /\ status # "SUCCESS" => ~Has(todo, "S_UPGRADE")

\* dc_device_close.
ClosingInv ==
  /\ op = "close" =>
       /\ phase # "idle" /\ ~cancelled
       /\ todo # <<>> => Len(todo) = 1 /\ Cmd = "EXIT" /\ state \in {"DOWNLOAD", "SERVICE"}
       /\ inBody
  /\ Busy => op # None
  /\ phase = "closed" => op = "close"

DriverInv == DriverTypes /\ PhaseInv /\ OpeningInv /\ BodyInv /\ ClosingInv

\* The device: it waits for the input of a command it knows in its mode.
DeviceInv ==
  /\ mode \in Modes /\ hwos4 \in BOOLEAN
  /\ flash \in [1 .. Blocks -> Contents]
  /\ Download \subseteq commands /\ commands \subseteq Download \cup Optional
  /\ hwos4 => "HARDWARE" \in commands
  /\ "HARDWARE2" \in commands => "HARDWARE" \in commands
  /\ wire \in Seq(Tokens) /\ faults \in Nat
  /\ waits \in Commands \cup {None} /\ buf \in Seq([kind : {"cmd", "input"}, cmd : Commands, arg : Nat])
  /\ waits = None => buf = <<>>
  /\ waits # None => Len(buf) < InputLen(waits) /\ mode \in {"download", "service"}
  /\ waits \in Service => mode = "service"

\* Tokens that tell of no change of mode but those that lead to m.
Tells(x, m) ==
  /\ x \in Seq(Tokens)
  /\ \A i \in 1 .. Len(x) : x[i].kind = "echo" =>
       /\ x[i].cmd = "INIT" => m = "download"
       /\ x[i].cmd = "S_INIT" => m \in {"service", "rebooting"}

\* An echo of a change of mode, on its way or read, comes from a device that
\* has made the change, and nothing but closing it undoes it.
EchoInv ==
  op # "close" =>
    /\ Tells(wire, mode)
    /\ phase \in {"ready", "done"} =>
         /\ Cmd = "INIT" => mode = "download"
         /\ Cmd = "S_INIT" => mode \in {"service", "rebooting"}
    /\ state = "DOWNLOAD" => mode = "download"
    /\ state = "SERVICE" => mode \in {"service", "rebooting"}

\* The modes of the two sides, before and after a transfer.
Agree ==
  /\ state = "OPEN" => mode = "idle"
  /\ state = "DOWNLOAD" => mode = "download"
  /\ state = "SERVICE" => mode = "service"
  /\ state = "REBOOTING" => mode = "rebooting"

Carried ==
  CASE Cmd = "INIT" -> mode = "download"
    [] Cmd = "S_INIT" -> mode = "service"
    [] Cmd = "S_UPGRADE" -> mode = "rebooting"
    [] Cmd = "EXIT" -> mode = "idle"
    [] OTHER -> Agree

\* The data the device answers with.
Data ==
  IF Cmd \in {"HARDWARE2", "HARDWARE"} THEN Token("data", Cmd, IF hwos4 THEN 4 ELSE 3)
  ELSE IF Cmd \in {"S_BLOCK_READ", "S_FWINFO"} THEN Token("data", flash[Arg], Arg)
  ELSE Token("data", Cmd, 0)

ExpectedMode == IF state = "SERVICE" \/ Cmd = "S_INIT" THEN "service" ELSE "download"

Lacking ==
  /\ Cmd \in Optional /\ Cmd \notin commands
  /\ wire = <<ReadyToken(ExpectedMode)>> /\ waits = None /\ Agree

Between ==
  /\ wire = <<>> /\ waits = None
  /\ IF op = "close" /\ todo = <<>>
       THEN mode = IF state = "REBOOTING" THEN "rebooting" ELSE "idle"
       ELSE Agree

AtEcho ==
  \/ Lacking
  \/ /\ InputLen(Cmd) > 0 /\ waits = Cmd /\ buf = <<>> /\ Agree
     /\ wire = <<Token("echo", Cmd, 0)>>
  \/ /\ InputLen(Cmd) = 0 /\ waits = None /\ Carried
     /\ Cmd \in Optional => Cmd \in commands
     /\ wire = IF HasOutput(Cmd) THEN <<Token("echo", Cmd, 0), Data, ReadyToken(ExpectedMode)>>
               ELSE IF Cmd = "EXIT" THEN <<Token("echo", Cmd, 0)>>
               ELSE <<Token("echo", Cmd, 0), ReadyToken(ExpectedMode)>>

\* Where the device is when the driver is in one of its phases.
StepInv ==
  /\ phase \in {"idle", "next", "closed"} => Between
  /\ phase = "echo" => AtEcho
  /\ phase = "input" => wire = <<>> /\ waits = Cmd /\ buf = <<>> /\ Agree
  /\ phase = "input2" => wire = <<>> /\ waits = Cmd /\ Agree /\ buf = <<Token("input", Cmd, Arg)>>
  /\ phase = "output" => wire = <<Data, ReadyToken(ExpectedMode)>>
  /\ phase = "ready" => wire = <<ReadyToken(ExpectedMode)>>
  /\ phase = "done" => wire = <<>>
  /\ phase \in {"output", "ready", "done"} =>
       waits = None /\ Carried /\ (Cmd \in Optional => Cmd \in commands)
  /\ phase \in {"ready", "done"} /\ HasOutput(Cmd) => answer = Data

\* The descriptor of the device, once it is known, is the right one.
KnownInv ==
  /\ hardware = "hwos3" => ~hwos4
  /\ hardware = "hwos4" => hwos4
  /\ Busy /\ op # "close" /\ ~inBody /\ hardware = "INVALID" =>
       /\ seen = 4 => hwos4
       /\ hwos4 /\ ~Has(todo, "HARDWARE") => seen = 4

\* The update of the firmware: a block is still to be read back, or it is in
\* the flash for good; on hwOS 4 a blob is still to be uploaded, or there.
FirmwareInv ==
  /\ mode = "rebooting" => waits = None /\ \A b \in 1 .. Blocks : flash[b] = New
  /\ Busy /\ op = "fwupdate" /\ inBody /\ hardware = "hwos3" /\ status = "SUCCESS" =>
       /\ Has(todo, "S_UPGRADE") \/ state = "REBOOTING"
       /\ \A b \in 1 .. Blocks :
            \/ HasAt(todo, "S_BLOCK_READ", b)
            \/ flash[b] = New /\ ~Has(todo, "S_ERASE") /\ ~Has(todo, "S_BLOCK_WRITE")
  /\ Busy /\ op = "fwupdate" /\ inBody /\ hardware = "hwos3" => ~Has(todo, "S_UPLOAD")
  /\ Busy /\ op = "fwupdate" /\ inBody /\ hardware = "hwos4" =>
       /\ Only(todo, {"S_FWINFO", "S_UPLOAD"}) /\ status = "SUCCESS"
       /\ \A b \in 1 .. Blocks :
            HasAt(todo, "S_UPLOAD", b) \/ flash[b] \in {New, Absent}
  /\ phase \in {"ready", "done"} /\ Cmd = "S_UPLOAD" => flash[Arg] = New
  /\ phase = "idle" /\ op = "fwupdate" /\ status = "SUCCESS" =>
       IF hwos4 THEN \A b \in 1 .. Blocks : flash[b] \in {New, Absent}
                ELSE state = "REBOOTING"

CleanInv == faults = 0 => StepInv /\ KnownInv /\ FirmwareInv

IInv == DriverInv /\ DeviceInv /\ EchoInv /\ CleanInv

-----------------------------------------------------------------------------
(* Commands and scripts *)

\* Which commands have an input and which an output.
LEMMA CommandFacts ==
  /\ \A x : InputLen(x) \in 0 .. 2
  /\ \A x \in Commands : InputLen(x) = 0 <=>
       x \in Optional \cup {"INIT", "S_INIT", "HEADER", "RESET", "IDENTITY", "EXIT"}
  /\ \A x : InputLen(x) = 2 => ~HasOutput(x)
  /\ InputLen(None) = 0 /\ InputLen("S_UPGRADE") = 1 /\ InputLen("S_UPLOAD") = 1
  /\ None \notin Commands
  BY DEF InputLen, HasOutput, Commands, Optional, Download, Service, None

\* The rest of a script after its first transfer.
LEMMA TailFacts ==
  ASSUME NEW s, Script(s), s # <<>>
  PROVE  /\ Len(s) \in Nat \ {0} /\ Head(s) = s[1] /\ s[1] \in Items
         /\ Tail(s) \in Seq(Items)
         /\ Len(Tail(s)) = Len(s) - 1 /\ \A i \in 1 .. Len(s) - 1 : Tail(s)[i] = s[i + 1]
<1>1. s \in Seq(Items)
  BY DEF Script
<1>2. Len(s) \in Nat /\ Len(s) # 0 /\ \A i \in 1 .. Len(s) : s[i] \in Items
  BY <1>1, LenProperties, ElementOfSeq, EmptySeq
<1>3. Tail(s) \in Seq(Items) /\ Len(Tail(s)) = Len(s) - 1
      /\ \A i \in 1 .. Len(Tail(s)) : Tail(s)[i] = s[i + 1]
  BY <1>1, HeadTailProperties
<1> QED BY <1>1, <1>2, <1>3

LEMMA ScriptTail ==
  ASSUME NEW s, Script(s), s # <<>>
  PROVE  Script(Tail(s))
<1> DEFINE T == Tail(s)
<1>1. Len(s) \in Nat \ {0} /\ T \in Seq(Items)
      /\ Len(T) = Len(s) - 1 /\ \A i \in 1 .. Len(s) - 1 : T[i] = s[i + 1]
  BY TailFacts
<1> HIDE DEF T
<1>2. \A i \in 1 .. Len(T) : i + 1 \in 1 .. Len(s) /\ i + 1 > 1 /\ T[i] = s[i + 1]
  BY <1>1
<1>3. \A i \in 1 .. Len(T) : i > 1 => T[i].cmd \notin {"INIT", "S_INIT"}
  BY <1>2 DEF Script
<1>4. \A i \in 1 .. Len(T) : T[i].cmd \in {"HARDWARE2", "COMPACT", "S_FWINFO"} =>
         i < Len(T) /\ T[i + 1] = s[(i + 1) + 1]
  <2> SUFFICES ASSUME NEW i \in 1 .. Len(T), T[i].cmd \in {"HARDWARE2", "COMPACT", "S_FWINFO"}
               PROVE  i < Len(T) /\ T[i + 1] = s[(i + 1) + 1]
    OBVIOUS
  <2>1. i + 1 < Len(s)
    BY <1>2 DEF Script
  <2>2. i < Len(T) /\ i + 1 \in 1 .. Len(T)
    BY <2>1, <1>1
  <2> QED BY <2>2, <1>2
<1>5. \A i \in 1 .. Len(T) : T[i].cmd = "HARDWARE2" => T[i + 1].cmd = "HARDWARE"
  BY <1>2, <1>4 DEF Script
<1>6. \A i \in 1 .. Len(T) : T[i].cmd = "COMPACT" => T[i + 1].cmd = "HEADER"
  BY <1>2, <1>4 DEF Script
<1>7. \A i \in 1 .. Len(T) : T[i].cmd = "S_FWINFO" =>
         T[i + 1].cmd = "S_UPLOAD" /\ T[i + 1].arg = T[i].arg
  BY <1>2, <1>4 DEF Script
<1>8. \A i \in 1 .. Len(T) : T[i].cmd \in {"IDENTITY", "S_UPGRADE"} => i = Len(T)
  <2> SUFFICES ASSUME NEW i \in 1 .. Len(T), T[i].cmd \in {"IDENTITY", "S_UPGRADE"}
               PROVE  i = Len(T)
    OBVIOUS
  <2>1. i + 1 = Len(s)
    BY <1>2 DEF Script
  <2> QED BY <2>1, <1>1
<1>9. \A i, j \in 1 .. Len(T) :
         i < j /\ T[i].cmd = "S_BLOCK_READ" => T[j].cmd \notin {"S_ERASE", "S_BLOCK_WRITE"}
  <2> SUFFICES ASSUME NEW i \in 1 .. Len(T), NEW j \in 1 .. Len(T), i < j,
                      T[i].cmd = "S_BLOCK_READ"
               PROVE  T[j].cmd \notin {"S_ERASE", "S_BLOCK_WRITE"}
    OBVIOUS
  <2>1. i + 1 < j + 1
    BY <1>1
  <2>2. /\ i + 1 \in 1 .. Len(s) /\ s[i + 1].cmd = "S_BLOCK_READ"
        /\ j + 1 \in 1 .. Len(s) /\ T[j] = s[j + 1]
    BY <1>2
  <2>3. s[j + 1].cmd \notin {"S_ERASE", "S_BLOCK_WRITE"}
    BY <2>1, <2>2 DEF Script
  <2> QED BY <2>2, <2>3
<1> QED BY <1>1, <1>3, <1>4, <1>5, <1>6, <1>7, <1>8, <1>9 DEF Script, T

\* What a script has, its rest has, but for the first transfer.
LEMMA HasTail ==
  ASSUME NEW s, Script(s), s # <<>>
  PROVE  /\ \A x : Has(Tail(s), x) => Has(s, x)
         /\ \A x : Has(s, x) /\ s[1].cmd # x => Has(Tail(s), x)
         /\ \A x, b : HasAt(Tail(s), x, b) => HasAt(s, x, b)
         /\ \A x, b : HasAt(s, x, b) /\ (s[1].cmd # x \/ s[1].arg # b) => HasAt(Tail(s), x, b)
         /\ \A C : Only(s, C) => s[1].cmd \in C /\ Only(Tail(s), C)
         /\ Tail(s) # <<>> => Tail(s)[1] = s[2] /\ Len(s) >= 2
<1> DEFINE T == Tail(s)
<1>1. Len(s) \in Nat \ {0} /\ T \in Seq(Items)
      /\ Len(T) = Len(s) - 1 /\ \A i \in 1 .. Len(s) - 1 : T[i] = s[i + 1]
  BY TailFacts
<1>6. T # <<>> => Len(T) # 0
  BY <1>1, EmptySeq
<1> HIDE DEF T
<1>2. \A i \in 1 .. Len(T) : i + 1 \in 1 .. Len(s) /\ T[i] = s[i + 1]
  BY <1>1
<1>3. \A i \in 1 .. Len(s) : i = 1 \/ (i - 1 \in 1 .. Len(T) /\ T[i - 1] = s[i])
  <2> SUFFICES ASSUME NEW i \in 1 .. Len(s), i # 1
               PROVE  i - 1 \in 1 .. Len(T) /\ T[i - 1] = s[i]
    OBVIOUS
  <2>1. i - 1 \in 1 .. Len(s) - 1 /\ (i - 1) + 1 = i
    BY <1>1
  <2> QED BY <1>1, <2>1
<1>4. 1 \in 1 .. Len(s)
  BY <1>1
<1>5. T # <<>> => T[1] = s[2] /\ Len(s) >= 2
  <2> SUFFICES ASSUME T # <<>> PROVE T[1] = s[2] /\ Len(s) >= 2
    OBVIOUS
  <2>1. 1 \in 1 .. Len(s) - 1 /\ 1 + 1 = 2 /\ Len(s) >= 2
    BY <1>1, <1>6
  <2> QED BY <1>1, <2>1
<1>7. \A x : Has(T, x) => Has(s, x)
  BY <1>2, Zenon DEF Has
<1>8. \A x : Has(s, x) /\ s[1].cmd # x => Has(T, x)
  BY <1>3, Zenon DEF Has
<1>9. \A x, b : HasAt(T, x, b) => HasAt(s, x, b)
  BY <1>2, Zenon DEF HasAt
<1>10. \A x, b : HasAt(s, x, b) /\ (s[1].cmd # x \/ s[1].arg # b) => HasAt(T, x, b)
  BY <1>3, Zenon DEF HasAt
<1>11. \A C : Only(s, C) => s[1].cmd \in C /\ Only(T, C)
  BY <1>2, <1>4, Zenon DEF Only
<1> QED BY <1>5, <1>7, <1>8, <1>9, <1>10, <1>11 DEF T

\* Two scripts one after the other.
LEMMA Joined ==
  ASSUME NEW S, NEW u \in Seq(S), NEW v \in Seq(S)
  PROVE  /\ u \o v \in Seq(S) /\ Len(u \o v) = Len(u) + Len(v)
         /\ \A i \in 1 .. Len(u) : (u \o v)[i] = u[i]
         /\ \A i \in 1 .. Len(v) : (u \o v)[Len(u) + i] = v[i]
<1> DEFINE w == u \o v
<1>1. /\ w \in Seq(S) /\ Len(w) = Len(u) + Len(v)
      /\ \A i \in 1 .. Len(u) + Len(v) : w[i] = IF i <= Len(u) THEN u[i] ELSE v[i - Len(u)]
  BY ConcatProperties
<1>2. Len(u) \in Nat /\ Len(v) \in Nat
  BY LenProperties
<1> HIDE DEF w
<1>3. ASSUME NEW i \in 1 .. Len(u) PROVE w[i] = u[i]
  BY <1>1, <1>2
<1>4. ASSUME NEW i \in 1 .. Len(v) PROVE w[Len(u) + i] = v[i]
  <2>1. Len(u) + i \in 1 .. Len(u) + Len(v) /\ ~(Len(u) + i <= Len(u)) /\ (Len(u) + i) - Len(u) = i
    BY <1>2
  <2> QED BY <1>1, <2>1
<1> QED BY <1>1, <1>3, <1>4 DEF w

\* The items scripts are made of.
LEMMA ItemFacts ==
  /\ \A x \in Commands \ (Optional \cup Blocked) : Must(x, 0) \in Items
  /\ \A x \in Blocked, b \in 1 .. Blocks : Must(x, b) \in Items
  /\ \A x \in Optional : Else(x) \in Items
  /\ Try("DISPLAY") \in Items
  /\ \A x, b : Must(x, b).cmd = x /\ Must(x, b).arg = b
  /\ \A x : Else(x).cmd = x /\ Try(x).cmd = x
<1>1. Optional \subseteq Commands /\ Blocked \subseteq Commands \ Optional /\ "DISPLAY" \in Commands
      /\ "DISPLAY" \notin Optional /\ "DISPLAY" \notin Blocked /\ Optional \cap Blocked = {}
  BY DEF Commands, Optional, Download, Service, Blocked
<1>2. \A x \in Commands \ (Optional \cup Blocked) : Must(x, 0) \in Items
  BY DEF Must, Item, Items
<1>3. \A x \in Blocked, b \in 1 .. Blocks : Must(x, b) \in Items
  BY <1>1 DEF Must, Item, Items
<1>4. \A x \in Optional : Else(x) \in Items
  BY <1>1 DEF Else, Item, Items
<1>5. Try("DISPLAY") \in Items
  BY <1>1 DEF Try, Item, Items
<1> QED BY <1>2, <1>3, <1>4, <1>5 DEF Must, Else, Try, Item

\* The script of hw_ostc3_device_init.
LEMMA OpeningScript ==
  ASSUME NEW target \in {"DOWNLOAD", "SERVICE"}
  PROVE  LET s == InitScript(target) IN
         /\ Script(s)
         /\ Only(s, {"INIT", "S_INIT", "HARDWARE2", "HARDWARE", "IDENTITY"})
         /\ state = "OPEN" => s # <<>> /\ s[1].cmd = IF target = "SERVICE" THEN "S_INIT" ELSE "INIT"
         /\ state # "OPEN" => ~Has(s, "INIT") /\ ~Has(s, "S_INIT")
         /\ hardware = "INVALID" => Has(s, "IDENTITY") /\ Has(s, "HARDWARE")
         /\ hardware # "INVALID" => ~Has(s, "IDENTITY")
<1> DEFINE s == InitScript(target)
           first == IF target = "DOWNLOAD" THEN "INIT" ELSE "S_INIT"
           M == Must(first, 0)
           H2 == Else("HARDWARE2")
           H1 == Else("HARDWARE")
           ID == Must("IDENTITY", 0)
<1>0. 1 .. 4 = {1, 2, 3, 4} /\ 1 .. 3 = {1, 2, 3} /\ 1 .. 1 = {1} /\ 1 .. 0 = {}
  OBVIOUS
<1>1. first \in {"INIT", "S_INIT"}
      /\ M \in Items /\ H2 \in Items /\ H1 \in Items /\ ID \in Items
      /\ M.cmd = first /\ H2.cmd = "HARDWARE2" /\ H1.cmd = "HARDWARE" /\ ID.cmd = "IDENTITY"
  <2>1. first \in Commands \ (Optional \cup Blocked) /\ "IDENTITY" \in Commands \ (Optional \cup Blocked)
        /\ "HARDWARE" \in Optional /\ "HARDWARE2" \in Optional
    BY DEF Commands, Optional, Download, Service, Blocked
  <2> QED BY <2>1, ItemFacts
<1>2. s = (IF state # "OPEN" THEN <<>> ELSE <<M>>)
          \o (IF hardware # "INVALID" THEN <<>> ELSE <<H2, H1, ID>>)
  BY DEF InitScript
<1> HIDE DEF s, M, H2, H1, ID
<1>3. CASE state = "OPEN" /\ hardware = "INVALID"
  <2>1. s = <<M>> \o <<H2, H1, ID>>
    BY <1>2, <1>3
  <2>2. \A w, x, y, z \in Items : LET u == <<w>> \o <<x, y, z>> IN
          u \in Seq(Items) /\ Len(u) = 4 /\ u[1] = w /\ u[2] = x /\ u[3] = y /\ u[4] = z /\ u # <<>>
    OBVIOUS
  <2>4. s \in Seq(Items) /\ Len(s) = 4
        /\ s[1] = M /\ s[2] = H2 /\ s[3] = H1 /\ s[4] = ID /\ s # <<>>
    BY <2>1, <2>2, <1>1
  <2> QED BY <1>0, <1>1, <1>3, <2>4 DEF Script, Only, Has, s
<1>4. CASE state = "OPEN" /\ hardware # "INVALID"
  <2>1. s = <<M>>
    BY <1>2, <1>4
  <2>2. s \in Seq(Items) /\ Len(s) = 1 /\ s[1] = M /\ s # <<>>
    BY <2>1, <1>1
  <2> QED BY <1>0, <1>1, <1>4, <2>2 DEF Script, Only, Has, s
<1>5. CASE state # "OPEN" /\ hardware = "INVALID"
  <2>1. s = <<H2, H1, ID>>
    BY <1>2, <1>5
  <2>2. s \in Seq(Items) /\ Len(s) = 3 /\ s[1] = H2 /\ s[2] = H1 /\ s[3] = ID /\ s # <<>>
    BY <2>1, <1>1
  <2> QED BY <1>0, <1>1, <1>5, <2>2 DEF Script, Only, Has, s
<1>6. CASE state # "OPEN" /\ hardware # "INVALID"
  <2>1. s = <<>>
    BY <1>2, <1>6
  <2>2. s \in Seq(Items) /\ Len(s) = 0
    BY <2>1
  <2> QED BY <1>0, <1>6, <2>2 DEF Script, Only, Has, s
<1> QED BY <1>3, <1>4, <1>5, <1>6

\* One transfer for each block, without and with display texts.
LEMMA EachBlockFacts ==
  ASSUME NEW x \in Blocked
  PROVE  /\ EachBlock(x) \in Seq(Items) /\ Len(EachBlock(x)) = Blocks
         /\ \A b \in 1 .. Blocks : EachBlock(x)[b].cmd = x /\ EachBlock(x)[b].arg = b
         /\ Displayed(x) \in Seq(Items) /\ Len(Displayed(x)) = 2 * Blocks
         /\ \A i \in 1 .. 2 * Blocks : Displayed(x)[i].cmd = IF i % 2 = 1 THEN "DISPLAY" ELSE x
         /\ \A b \in 1 .. Blocks :
              2 * b \in 1 .. 2 * Blocks /\ Displayed(x)[2 * b].cmd = x /\ Displayed(x)[2 * b].arg = b
<1>1. 2 * Blocks \in Nat /\ Blocks \in Nat
  OBVIOUS
<1>2. \A b \in 1 .. Blocks : Must(x, b) \in Items
  BY ItemFacts
<1>3. EachBlock(x) \in [1 .. Blocks -> Items]
  BY <1>2 DEF EachBlock
<1>4. \A i \in 1 .. 2 * Blocks : i % 2 # 1 => i \div 2 \in 1 .. Blocks
  OBVIOUS
<1>5. Displayed(x) \in [1 .. 2 * Blocks -> Items]
  BY <1>2, <1>4, ItemFacts DEF Displayed
<1>6. EachBlock(x) \in Seq(Items) /\ Len(EachBlock(x)) = Blocks
  BY <1>1, <1>3, IsASeq, LenProperties
<1>7. Displayed(x) \in Seq(Items) /\ Len(Displayed(x)) = 2 * Blocks
  BY <1>1, <1>5
<1>8. \A b \in 1 .. Blocks : EachBlock(x)[b].cmd = x /\ EachBlock(x)[b].arg = b
  BY ItemFacts DEF EachBlock
<1>9. \A i \in 1 .. 2 * Blocks : Displayed(x)[i].cmd = IF i % 2 = 1 THEN "DISPLAY" ELSE x
  BY ItemFacts DEF Displayed
<1>10. ASSUME NEW b \in 1 .. Blocks
       PROVE  2 * b \in 1 .. 2 * Blocks /\ Displayed(x)[2 * b].cmd = x /\ Displayed(x)[2 * b].arg = b
  <2>1. 2 * b \in 1 .. 2 * Blocks /\ (2 * b) % 2 # 1 /\ (2 * b) \div 2 = b
    OBVIOUS
  <2>2. Displayed(x)[2 * b] = Must(x, b)
    BY <2>1 DEF Displayed
  <2> QED BY <2>1, <2>2, ItemFacts
<1> QED BY <1>6, <1>7, <1>8, <1>9, <1>10

\* The upload of the blobs of hwOS 4.
LEMMA Fwupdate4Facts ==
  /\ Script(fwupdate4) /\ Only(fwupdate4, {"S_FWINFO", "S_UPLOAD"})
  /\ \A b \in 1 .. Blocks : HasAt(fwupdate4, "S_UPLOAD", b)
<1> DEFINE s == fwupdate4
           N == 2 * Blocks
<1>0. N \in Nat
  OBVIOUS
<1>1. \A i \in 1 .. N : (i + 1) \div 2 \in 1 .. Blocks
  OBVIOUS
<1>2. \A i \in 1 .. N : s[i] = Must(IF i % 2 = 1 THEN "S_FWINFO" ELSE "S_UPLOAD", (i + 1) \div 2)
  BY DEF fwupdate4
<1>3. \A i \in 1 .. N : s[i] \in Items
  <2>1. \A i \in 1 .. N : Must("S_FWINFO", (i + 1) \div 2) \in Items
                        /\ Must("S_UPLOAD", (i + 1) \div 2) \in Items
    BY <1>1, ItemFacts DEF Blocked
  <2> QED BY <1>2, <2>1
<1>4. s \in [1 .. N -> Items]
  BY <1>3 DEF fwupdate4
<1>5. s \in Seq(Items) /\ Len(s) = N
  BY <1>0, <1>4
<1>6. \A i \in 1 .. N : /\ s[i].cmd = IF i % 2 = 1 THEN "S_FWINFO" ELSE "S_UPLOAD"
                       /\ s[i].arg = (i + 1) \div 2
  BY <1>2, ItemFacts
<1> HIDE DEF s
<1>7. \A i \in 1 .. N : i % 2 = 1 => i < N /\ i + 1 \in 1 .. N /\ (i + 1) % 2 # 1
                                  /\ (i + 1 + 1) \div 2 = (i + 1) \div 2
  OBVIOUS
<1>8. \A b \in 1 .. Blocks : 2 * b \in 1 .. N /\ (2 * b) % 2 # 1 /\ (2 * b + 1) \div 2 = b
  OBVIOUS
<1> HIDE DEF N
<1>9. \A i \in 1 .. N : s[i].cmd \in {"S_FWINFO", "S_UPLOAD"}
                       /\ (s[i].cmd = "S_FWINFO" => i % 2 = 1)
  BY <1>6
<1>10. \A i \in 1 .. N : s[i].cmd = "S_FWINFO" =>
          i < N /\ s[i + 1].cmd = "S_UPLOAD" /\ s[i + 1].arg = s[i].arg
  BY <1>6, <1>7, <1>9
<1>11. Script(s)
  BY <1>5, <1>9, <1>10 DEF Script
<1>12. \A b \in 1 .. Blocks : HasAt(s, "S_UPLOAD", b)
  BY <1>5, <1>6, <1>8 DEF HasAt
<1> QED BY <1>5, <1>9, <1>11, <1>12 DEF Only, s

\* A script of two parts, of which each has only some commands.
LEMMA OnlyJoined ==
  ASSUME NEW u \in Seq(Items), NEW v \in Seq(Items), NEW C, Only(u, C), Only(v, C)
  PROVE  u \o v \in Seq(Items) /\ Only(u \o v, C)
<1> DEFINE w == u \o v
<1>1. /\ w \in Seq(Items) /\ Len(w) = Len(u) + Len(v)
      /\ \A i \in 1 .. Len(u) : w[i] = u[i]
      /\ \A i \in 1 .. Len(v) : w[Len(u) + i] = v[i]
  BY Joined
<1>2. Len(u) \in Nat /\ Len(v) \in Nat
  BY LenProperties
<1> HIDE DEF w
<1>3. ASSUME NEW i \in 1 .. Len(w) PROVE w[i].cmd \in C
  <2>1. CASE i \in 1 .. Len(u)
    BY <1>1, <2>1 DEF Only
  <2>2. CASE i \notin 1 .. Len(u)
    <3>1. i - Len(u) \in 1 .. Len(v) /\ Len(u) + (i - Len(u)) = i
      BY <1>1, <1>2, <2>2
    <3>2. w[i] = v[i - Len(u)]
      BY <1>1, <3>1
    <3> QED BY <3>1, <3>2 DEF Only
  <2> QED BY <2>1, <2>2
<1> QED BY <1>1, <1>3 DEF Only, w

\* The update of an OSTC 3: everything is written before anything is read
\* back, every block is read back, and the installation comes last.
LEMMA Fwupdate3Facts ==
  /\ Script(fwupdate3) /\ Only(fwupdate3, Service \cup {"DISPLAY"})
  /\ Has(fwupdate3, "S_UPGRADE") /\ ~Has(fwupdate3, "S_UPLOAD")
  /\ \A b \in 1 .. Blocks : HasAt(fwupdate3, "S_BLOCK_READ", b)
<1> DEFINE D  == Try("DISPLAY")
           P1 == <<D, Must("S_ERASE", 0), D>>
           P2 == <<D>>
           P3 == <<D, Must("S_UPGRADE", 0)>>
           W  == Displayed("S_BLOCK_WRITE")
           R  == Displayed("S_BLOCK_READ")
           writes == P1 \o W \o P2
           u == writes \o R
           s == u \o P3
           E == {"DISPLAY", "S_ERASE", "S_BLOCK_WRITE"}
           N == 2 * Blocks
<1>0. N \in Nat
  OBVIOUS
<1>1. D \in Items /\ Must("S_ERASE", 0) \in Items /\ Must("S_UPGRADE", 0) \in Items
      /\ D.cmd = "DISPLAY" /\ Must("S_ERASE", 0).cmd = "S_ERASE" /\ Must("S_UPGRADE", 0).cmd = "S_UPGRADE"
  <2>1. {"S_ERASE", "S_UPGRADE"} \subseteq Commands \ (Optional \cup Blocked)
    BY DEF Commands, Optional, Download, Service, Blocked
  <2> QED BY <2>1, ItemFacts
<1>2. W \in Seq(Items) /\ Len(W) = N /\ \A i \in 1 .. N : W[i].cmd \in E
  BY EachBlockFacts DEF Blocked
<1>3. R \in Seq(Items) /\ Len(R) = N
      /\ (\A i \in 1 .. N : R[i].cmd \in {"DISPLAY", "S_BLOCK_READ"})
      /\ \A b \in 1 .. Blocks : 2 * b \in 1 .. N /\ R[2 * b].cmd = "S_BLOCK_READ" /\ R[2 * b].arg = b
  BY EachBlockFacts DEF Blocked
<1> HIDE DEF D, W, R
<1>4. P1 \in Seq(Items) /\ Only(P1, E) /\ P2 \in Seq(Items) /\ Only(P2, E) /\ Only(W, E)
  <2>1. 1 .. 3 = {1, 2, 3} /\ 1 .. 1 = {1}
    OBVIOUS
  <2>2. Len(P1) = 3 /\ Len(P2) = 1 /\ P1[1] = D /\ P1[2] = Must("S_ERASE", 0) /\ P1[3] = D /\ P2[1] = D
    OBVIOUS
  <2> QED BY <1>1, <1>2, <2>1, <2>2 DEF Only
<1>5. P3 \in Seq(Items) /\ Len(P3) = 2 /\ P3[1] = D /\ P3[2] = Must("S_UPGRADE", 0)
  BY <1>1
<1> HIDE DEF P1, P2, P3, E
<1>6. P1 \o W \in Seq(Items) /\ Only(P1 \o W, E)
  BY <1>2, <1>4, OnlyJoined
<1>7. writes \in Seq(Items) /\ Only(writes, E)
  BY <1>4, <1>6, OnlyJoined
<1> HIDE DEF writes
<1> DEFINE K == Len(writes)
<1>8. K \in Nat /\ \A i \in 1 .. K : writes[i].cmd \in E
  BY <1>7, LenProperties DEF Only
<1>9. /\ u \in Seq(Items) /\ Len(u) = K + N
      /\ \A i \in 1 .. K : u[i] = writes[i]
      /\ \A i \in 1 .. N : u[K + i] = R[i]
  <2>0. writes \in Seq(Items) /\ R \in Seq(Items)
    BY <1>3, <1>7
  <2>1. /\ u \in Seq(Items) /\ Len(u) = Len(writes) + Len(R)
        /\ \A i \in 1 .. Len(writes) : u[i] = writes[i]
        /\ \A i \in 1 .. Len(R) : u[Len(writes) + i] = R[i]
    BY <2>0, Joined
  <2> HIDE DEF u
  <2> QED BY <2>1, <1>3
<1> HIDE DEF u
<1>10. /\ s \in Seq(Items) /\ Len(s) = K + N + 2
       /\ \A i \in 1 .. K + N : s[i] = u[i]
       /\ s[K + N + 1] = D /\ s[K + N + 2] = Must("S_UPGRADE", 0)
  <2>0. u \in Seq(Items) /\ P3 \in Seq(Items)
    BY <1>5, <1>9
  <2>1. /\ s \in Seq(Items) /\ Len(s) = Len(u) + Len(P3)
        /\ \A i \in 1 .. Len(u) : s[i] = u[i]
        /\ \A i \in 1 .. Len(P3) : s[Len(u) + i] = P3[i]
    BY <2>0, Joined
  <2> HIDE DEF s
  <2> QED BY <2>1, <1>5, <1>9, <1>8, <1>0
<1>11. fwupdate3 = s
  BY DEF fwupdate3, s, u, writes, P1, P2, P3, W, R, D
<1> HIDE DEF s, K, N
<1>12. \A i \in 1 .. K : s[i].cmd \in E
  BY <1>0, <1>8, <1>9, <1>10
<1>13. \A i \in K + 1 .. K + N : s[i].cmd \in {"DISPLAY", "S_BLOCK_READ"}
  <2> SUFFICES ASSUME NEW i \in K + 1 .. K + N PROVE s[i].cmd \in {"DISPLAY", "S_BLOCK_READ"}
    OBVIOUS
  <2>1. i - K \in 1 .. N /\ K + (i - K) = i /\ i \in 1 .. K + N
    BY <1>0, <1>8
  <2>2. s[i] = R[i - K]
    BY <2>1, <1>9, <1>10
  <2> QED BY <2>1, <2>2, <1>3
<1>14. s[K + N + 1].cmd = "DISPLAY" /\ s[K + N + 2].cmd = "S_UPGRADE"
  BY <1>1, <1>10
<1>15. \A i \in 1 .. Len(s) : i \in 1 .. K \/ i \in K + 1 .. K + N \/ i = K + N + 1 \/ i = K + N + 2
  BY <1>0, <1>8, <1>10
<1>16. \A i \in 1 .. Len(s) : s[i].cmd \in E \cup {"S_BLOCK_READ", "S_UPGRADE"}
  BY <1>12, <1>13, <1>14, <1>15 DEF E
<1>17. \A i \in 1 .. Len(s) : s[i].cmd = "S_UPGRADE" => i = Len(s)
  BY <1>10, <1>12, <1>13, <1>14, <1>15 DEF E
<1>18. \A i, j \in 1 .. Len(s) :
         i < j /\ s[i].cmd = "S_BLOCK_READ" => s[j].cmd \notin {"S_ERASE", "S_BLOCK_WRITE"}
  <2> SUFFICES ASSUME NEW i \in 1 .. Len(s), NEW j \in 1 .. Len(s), i < j, s[i].cmd = "S_BLOCK_READ"
               PROVE  s[j].cmd \notin {"S_ERASE", "S_BLOCK_WRITE"}
    OBVIOUS
  <2>1. i \notin 1 .. K
    BY <1>12 DEF E
  <2>2. j \notin 1 .. K
    BY <2>1, <1>8, <1>10
  <2> QED BY <2>2, <1>13, <1>14, <1>15
<1>19. Script(s)
  BY <1>10, <1>16, <1>17, <1>18 DEF Script, E
<1>20. \A b \in 1 .. Blocks : HasAt(s, "S_BLOCK_READ", b)
  <2> SUFFICES ASSUME NEW b \in 1 .. Blocks PROVE HasAt(s, "S_BLOCK_READ", b)
    OBVIOUS
  <2>1. 2 * b \in 1 .. N /\ R[2 * b].cmd = "S_BLOCK_READ" /\ R[2 * b].arg = b
    BY <1>3
  <2>2. K + 2 * b \in 1 .. K + N /\ K + 2 * b \in 1 .. Len(s)
    BY <2>1, <1>0, <1>8, <1>10
  <2>3. s[K + 2 * b] = R[2 * b]
    BY <2>1, <2>2, <1>9, <1>10
  <2> QED BY <2>1, <2>2, <2>3 DEF HasAt
<1>21. Has(s, "S_UPGRADE") /\ ~Has(s, "S_UPLOAD")
  <2>1. K + N + 2 \in 1 .. Len(s)
    BY <1>0, <1>8, <1>10
  <2> QED BY <2>1, <1>14, <1>16 DEF Has, E
<1>22. Only(s, Service \cup {"DISPLAY"})
  BY <1>16 DEF Only, Service, E
<1> QED BY <1>11, <1>19, <1>20, <1>21, <1>22

\* A script of one transfer.
LEMMA SingleScript ==
  ASSUME NEW it \in Items, it.cmd \notin {"HARDWARE2", "COMPACT", "S_FWINFO"}
  PROVE  /\ Script(<<it>>) /\ Len(<<it>>) = 1 /\ <<it>>[1] = it /\ <<it>> # <<>>
         /\ \A C : it.cmd \in C => Only(<<it>>, C)
         /\ \A x : it.cmd # x => ~Has(<<it>>, x)
<1> DEFINE s == <<it>>
<1>1. s \in Seq(Items) /\ Len(s) = 1 /\ s[1] = it /\ s # <<>> /\ 1 .. 1 = {1}
  OBVIOUS
<1> HIDE DEF s
<1> QED BY <1>1 DEF Script, Only, Has, s

\* The script of the body of an operation.
LEMMA BodyScript ==
  ASSUME NEW o \in Operations
  PROVE  /\ Script(Body(o))
         /\ Target(o) = "SERVICE" => Only(Body(o), Service \cup {"DISPLAY"})
         /\ Target(o) # "SERVICE" => Only(Body(o), (Download \ {"EXIT", "IDENTITY"}) \cup {"COMPACT"})
         /\ o # "fwupdate" => ~Has(Body(o), "S_UPGRADE")
         /\ o = "fwupdate" /\ hardware = "hwos4" => Body(o) = fwupdate4
         /\ o = "fwupdate" /\ hardware # "hwos4" => Body(o) = fwupdate3
<1>1. CASE o \in {"timesync", "display", "customtext", "config_read", "config_write", "config_reset"}
  <2>1. PICK x \in {"CLOCK", "DISPLAY", "CUSTOMTEXT", "READ", "WRITE", "RESET"} : Body(o) = <<Must(x, 0)>>
    BY <1>1 DEF Body
  <2>2. Must(x, 0) \in Items /\ Must(x, 0).cmd = x
    BY ItemFacts DEF Commands, Optional, Download, Service, Blocked
  <2>3. x \in (Download \ {"EXIT", "IDENTITY"}) \cup {"COMPACT"} /\ x # "S_UPGRADE"
    BY DEF Download
  <2> QED BY <1>1, <2>1, <2>2, <2>3, SingleScript DEF Target
<1>2. CASE o = "foreach"
  <2> DEFINE s == Body(o)
  <2>1. s = <<Else("COMPACT"), Must("HEADER", 0), Must("DIVE", 0)>>
    BY <1>2 DEF Body
  <2>2. Else("COMPACT") \in Items /\ Must("HEADER", 0) \in Items /\ Must("DIVE", 0) \in Items
    BY ItemFacts DEF Commands, Optional, Download, Service, Blocked
  <2>3. s \in Seq(Items) /\ Len(s) = 3 /\ 1 .. 3 = {1, 2, 3}
    BY <2>1, <2>2
  <2>4. s[1].cmd = "COMPACT" /\ s[2].cmd = "HEADER" /\ s[3].cmd = "DIVE"
    BY <2>1, ItemFacts
  <2> HIDE DEF s
  <2>5. Script(s)
    BY <2>3, <2>4 DEF Script
  <2>6. Only(s, (Download \ {"EXIT", "IDENTITY"}) \cup {"COMPACT"}) /\ ~Has(s, "S_UPGRADE")
    BY <2>3, <2>4 DEF Only, Has, Download
  <2> QED BY <1>2, <2>5, <2>6 DEF Target, s
<1>3. CASE o = "read"
  <2> DEFINE s == EachBlock("S_BLOCK_READ")
  <2>1. Body(o) = s
    BY <1>3 DEF Body
  <2>2. s \in Seq(Items) /\ Len(s) = Blocks /\ \A i \in 1 .. Blocks : s[i].cmd = "S_BLOCK_READ"
    BY EachBlockFacts DEF Blocked
  <2> HIDE DEF s
  <2>3. Script(s)
    BY <2>2 DEF Script
  <2>4. Only(s, Service \cup {"DISPLAY"}) /\ ~Has(s, "S_UPGRADE")
    BY <2>2 DEF Only, Has, Service
  <2> QED BY <1>3, <2>1, <2>3, <2>4 DEF Target
<1>4. CASE o = "write"
  <2> DEFINE u == <<Must("S_ERASE", 0)>>
             v == EachBlock("S_BLOCK_WRITE")
             C == {"S_ERASE", "S_BLOCK_WRITE"}
             s == u \o v
  <2>1. Body(o) = s
    BY <1>4 DEF Body
  <2>2. v \in Seq(Items) /\ Len(v) = Blocks /\ \A i \in 1 .. Blocks : v[i].cmd = "S_BLOCK_WRITE"
    BY EachBlockFacts DEF Blocked
  <2>3. Must("S_ERASE", 0) \in Items /\ Must("S_ERASE", 0).cmd = "S_ERASE"
    BY ItemFacts DEF Commands, Optional, Download, Service, Blocked
  <2>4. Script(u) /\ Only(u, C)
    BY <2>3, SingleScript
  <2>5. u \in Seq(Items) /\ Only(u, C) /\ v \in Seq(Items) /\ Only(v, C)
    BY <2>2, <2>4 DEF Script, Only
  <2> HIDE DEF u, v, C
  <2>6. s \in Seq(Items) /\ Only(s, C)
    BY <2>5, OnlyJoined
  <2> HIDE DEF s
  <2>7. Script(s)
    BY <2>6 DEF Script, Only, C
  <2>8. Only(s, Service \cup {"DISPLAY"}) /\ ~Has(s, "S_UPGRADE")
    BY <2>6 DEF Only, Has, C, Service
  <2> QED BY <1>4, <2>1, <2>7, <2>8 DEF Target
<1>5. CASE o = "fwupdate"
  <2>1. Body(o) = IF hardware = "hwos4" THEN fwupdate4 ELSE fwupdate3
    BY <1>5 DEF Body
  <2>2. Only(fwupdate4, Service \cup {"DISPLAY"})
    BY Fwupdate4Facts DEF Only, Service
  <2> QED BY <1>5, <2>1, <2>2, Fwupdate4Facts, Fwupdate3Facts DEF Target
<1> QED BY <1>1, <1>2, <1>3, <1>4, <1>5 DEF Operations

-----------------------------------------------------------------------------
(* The driver alone *)

LEMMA EmptyScript ==
  /\ Script(<<>>) /\ Len(<<>>) = 0
  /\ \A x : ~Has(<<>>, x)
  /\ \A C : Only(<<>>, C)
<1> DEFINE s == <<>>
<1>1. s \in Seq(Items) /\ Len(s) = 0 /\ 1 .. 0 = {}
  OBVIOUS
<1> HIDE DEF s
<1>2. Script(s) /\ (\A x : ~Has(s, x)) /\ \A C : Only(s, C)
  BY <1>1 DEF Script, Has, Only
<1> QED BY <1>1, <1>2 DEF s

\* An operation ends: whatever it was doing, its script is dropped.
LEMMA FinishDriver ==
  ASSUME DriverInv, Busy, NEW s \in Results, Finish(s),
         UNCHANGED <<state, hardware, op, seen, calls, cancelled>>, inBody' \in BOOLEAN,
         op = "close" => inBody'
  PROVE  DriverInv'
<1>1. phase' \in {"idle", "closed"} /\ ~Busy' /\ (phase' = "closed" <=> op = "close")
  BY DEF Finish, Busy
<1>2. DriverTypes'
  BY EmptyScript DEF Finish, DriverInv, DriverTypes, Phases
<1>3. PhaseInv'
  BY <1>1 DEF Finish, PhaseInv
<1>4. OpeningInv' /\ BodyInv'
  BY <1>1 DEF OpeningInv, BodyInv
<1>5. ClosingInv'
  BY <1>1 DEF ClosingInv, DriverInv, Finish
<1> QED BY <1>2, <1>3, <1>4, <1>5 DEF DriverInv

\* A script goes on after its first transfer, which changed nothing.
LEMMA PassDriver ==
  ASSUME DriverInv, Busy, todo # <<>>, todo[1].ignored \/ todo[1].fallback,
         phase' = "next", todo' = Tail(todo), answer' \in Tokens \cup {NoAnswer},
         UNCHANGED <<state, hardware, op, inBody, seen, status, calls, cancelled>>
  PROVE  DriverInv'
<1>0. Script(todo) /\ todo[1] \in Items /\ Script(Tail(todo))
  BY TailFacts, ScriptTail DEF DriverInv, DriverTypes
<1>1. Cmd \in {"DISPLAY", "HARDWARE2", "HARDWARE", "COMPACT"}
  BY <1>0 DEF Items, Optional, Cmd
<1>2. Busy'
  BY DEF Busy
<1>3. DriverTypes'
  BY <1>0 DEF DriverInv, DriverTypes, Phases
<1>4. PhaseInv'
  BY <1>2 DEF PhaseInv
<1>5. OpeningInv'
  BY <1>0, <1>1, <1>2, HasTail DEF OpeningInv, DriverInv, Busy, Cmd, Target
<1>6. BodyInv'
  BY <1>0, <1>1, <1>2, HasTail DEF BodyInv, DriverInv, Busy, Target
<1>7. ClosingInv'
  BY <1>0, <1>1, <1>2, HasTail DEF ClosingInv, DriverInv, Busy, Cmd
<1> QED BY <1>3, <1>4, <1>5, <1>6, <1>7 DEF DriverInv

LEMMA FailsDriver ==
  ASSUME DriverInv, Busy, todo # <<>>, NEW s \in Results, Fails(s),
         UNCHANGED <<state, hardware, op, inBody, seen, calls, cancelled>>
  PROVE  DriverInv'
<1>0. Script(todo) /\ Head(todo) = todo[1]
  BY TailFacts DEF DriverInv, DriverTypes
<1>1. CASE todo[1].ignored \/ (todo[1].fallback /\ s = "UNSUPPORTED")
  BY <1>0, <1>1, PassDriver DEF Fails
<1>2. CASE ~(todo[1].ignored \/ (todo[1].fallback /\ s = "UNSUPPORTED"))
  <2>1. Finish(s) /\ inBody' \in BOOLEAN /\ (op = "close" => inBody')
    BY <1>0, <1>2 DEF Fails, DriverInv, DriverTypes, ClosingInv
  <2> QED BY <2>1, FinishDriver
<1> QED BY <1>1, <1>2

\* The phase of a transfer changes, and nothing else of the driver but the
\* output it has read.
LEMMA PhaseDriver ==
  ASSUME DriverInv, Busy, todo # <<>>, answer' \in Tokens \cup {NoAnswer},
         phase' \in {"echo", "input", "input2", "output", "ready", "done"},
         phase' = "input" => InputLen(Cmd) > 0, phase' = "input2" => InputLen(Cmd) = 2,
         phase' = "output" => HasOutput(Cmd), phase' = "ready" => Cmd # "EXIT",
         UNCHANGED <<state, hardware, todo, op, inBody, seen, status, calls, cancelled>>
  PROVE  DriverInv'
<1>1. Busy'
  BY DEF Busy
<1>2. DriverTypes'
  BY DEF DriverInv, DriverTypes, Phases
<1>3. PhaseInv'
  BY <1>1 DEF PhaseInv, Cmd
<1>4. OpeningInv' /\ BodyInv'
  BY <1>1 DEF DriverInv, OpeningInv, BodyInv, Cmd, Target
<1>5. ClosingInv'
  BY <1>1 DEF DriverInv, ClosingInv, Cmd, Busy
<1> QED BY <1>2, <1>3, <1>4, <1>5 DEF DriverInv

\* What a successful transfer leaves of the script: its first one or two
\* transfers are done, and the second is one that the first made needless.
LEMMA CompleteRest ==
  ASSUME DriverInv, phase = "done", Complete, ~VerifyFailed
  PROVE  /\ todo # <<>> /\ todo[1] \in Items /\ Head(todo) = todo[1] /\ Script(todo) /\ Script(Tail(todo))
         /\ \/ todo' = Tail(todo) /\ ~(Cmd \in {"HARDWARE2", "COMPACT"} \/ UploadNotNeeded)
            \/ /\ todo' = Tail(Tail(todo)) /\ Tail(todo) # <<>> /\ Tail(todo)[1] = todo[2]
               /\ Cmd \in {"HARDWARE2", "COMPACT"} \/ UploadNotNeeded
               /\ \/ Cmd = "HARDWARE2" /\ todo[2].cmd = "HARDWARE"
                  \/ Cmd = "COMPACT" /\ todo[2].cmd = "HEADER"
                  \/ Cmd = "S_FWINFO" /\ todo[2].cmd = "S_UPLOAD" /\ todo[2].arg = Arg
         /\ status' = status
<1>1. todo # <<>> /\ Script(todo)
  BY DEF DriverInv, DriverTypes, PhaseInv
<1>2. todo[1] \in Items /\ Head(todo) = todo[1] /\ Script(Tail(todo)) /\ Len(todo) \in Nat \ {0}
      /\ Tail(todo) \in Seq(Items) /\ Len(Tail(todo)) = Len(todo) - 1
  BY <1>1, TailFacts, ScriptTail
<1>3. 1 \in 1 .. Len(todo)
  BY <1>2
<1>4. (Cmd # "HARDWARE" /\ todo[1].fallback) <=> Cmd \in {"HARDWARE2", "COMPACT"}
  BY <1>2 DEF Items, Optional, Cmd
<1>5. todo' = (IF Cmd \in {"HARDWARE2", "COMPACT"} \/ UploadNotNeeded THEN Tail(Tail(todo)) ELSE Tail(todo))
      /\ status' = status
  BY <1>2, <1>4 DEF Complete, Cmd
<1>6. UploadNotNeeded => Cmd = "S_FWINFO"
  BY <1>2 DEF UploadNotNeeded, Cmd
<1>7. Cmd \in {"HARDWARE2", "COMPACT", "S_FWINFO"} =>
        /\ 1 < Len(todo)
        /\ Cmd = "HARDWARE2" => todo[2].cmd = "HARDWARE"
        /\ Cmd = "COMPACT" => todo[2].cmd = "HEADER"
        /\ Cmd = "S_FWINFO" => todo[2].cmd = "S_UPLOAD" /\ todo[2].arg = Arg
  <2>1. 1 + 1 = 2
    OBVIOUS
  <2> QED BY <1>1, <1>3, <2>1 DEF Script, Cmd, Arg
<1>8. 1 < Len(todo) => Tail(todo) # <<>>
  BY <1>2, EmptySeq
<1>9. Tail(todo) # <<>> => Tail(todo)[1] = todo[2]
  BY <1>1, HasTail
<1> QED BY <1>1, <1>2, <1>5, <1>6, <1>7, <1>8, <1>9

LEMMA CompleteDriver ==
  ASSUME DriverInv, Complete
  PROVE  DriverInv'
<1>0. todo # <<>> /\ Script(todo) /\ phase = "done" /\ Busy /\ Busy' /\ phase' = "next"
      /\ answer' = NoAnswer /\ UNCHANGED <<op, inBody, calls, cancelled>>
  BY DEF DriverInv, DriverTypes, PhaseInv, Complete, Busy
<1>1. Head(todo) = todo[1] /\ todo[1] \in Items /\ Cmd \in Commands
  BY <1>0, TailFacts DEF Items, Cmd
<1>2. /\ state' = NewState(Cmd)
      /\ seen' = IF Cmd \in {"HARDWARE2", "HARDWARE"} THEN answer.arg ELSE seen
      /\ hardware' = IF Cmd # "IDENTITY" THEN hardware ELSE IF seen = 4 THEN "hwos4" ELSE "hwos3"
  BY <1>0, <1>1 DEF Complete, Cmd
<1>3. answer.arg \in Nat
  BY DEF DriverInv, DriverTypes, Tokens, NoAnswer
<1>4. /\ state' \in States /\ hardware' \in {"INVALID", "hwos3", "hwos4"} /\ seen' \in Nat
      /\ Cmd \notin {"INIT", "S_INIT", "S_UPGRADE"} => state' = state
      /\ Cmd = "INIT" => state' = "DOWNLOAD"
      /\ Cmd = "S_INIT" => state' = "SERVICE"
      /\ Cmd = "S_UPGRADE" => state' = "REBOOTING"
      /\ Cmd # "IDENTITY" => hardware' = hardware
      /\ Cmd = "IDENTITY" => hardware' # "INVALID"
  BY <1>2, <1>3 DEF NewState, DriverInv, DriverTypes, States
<1>5. CASE VerifyFailed
  <2>1. Cmd = "S_BLOCK_READ" /\ op = "fwupdate"
    BY <1>1, <1>5 DEF VerifyFailed, Cmd
  <2>2. todo' = <<Try("DISPLAY")>> /\ status' = "PROTOCOL"
    BY <1>5 DEF Complete
  <2>3. Try("DISPLAY") \in Items /\ Try("DISPLAY").cmd = "DISPLAY"
    BY ItemFacts
  <2>4. Script(todo') /\ Only(todo', Service \cup {"DISPLAY"}) /\ ~Has(todo', "S_UPGRADE")
    BY <2>2, <2>3, SingleScript
  <2>5. inBody
    BY <1>0, <1>1, <2>1 DEF DriverInv, OpeningInv, Only, Cmd
  <2>6. DriverTypes'
    BY <1>0, <1>4, <2>2, <2>4 DEF DriverInv, DriverTypes, Phases, Results
  <2>7. PhaseInv' /\ OpeningInv' /\ ClosingInv'
    BY <1>0, <2>1, <2>5 DEF DriverInv, PhaseInv, OpeningInv, ClosingInv
  <2>8. BodyInv'
    BY <1>0, <1>4, <2>1, <2>2, <2>4, <2>5 DEF DriverInv, BodyInv, Target
  <2> QED BY <2>6, <2>7, <2>8 DEF DriverInv
<1>6. CASE ~VerifyFailed
  <2> DEFINE T == Tail(todo)
  <2>1. /\ Script(T)
        /\ \/ todo' = T
           \/ /\ todo' = Tail(T) /\ T # <<>> /\ T[1] = todo[2]
              /\ todo[2].cmd \in {"HARDWARE", "HEADER", "S_UPLOAD"}
              /\ Cmd \in {"HARDWARE2", "COMPACT", "S_FWINFO"}
        /\ status' = status
    BY <1>0, <1>6, CompleteRest
  <2>2. Script(todo')
    BY <2>1, ScriptTail
  <2>3. DriverTypes'
    BY <1>0, <1>4, <2>1, <2>2 DEF DriverInv, DriverTypes, Phases
  <2>4. PhaseInv'
    BY <1>0 DEF PhaseInv
  <2>5. /\ \A x : Has(T, x) => Has(todo, x)
        /\ \A x : Has(todo, x) /\ Cmd # x => Has(T, x)
        /\ \A C : Only(todo, C) => Cmd \in C /\ Only(T, C)
    BY <1>0, HasTail DEF Cmd
  <2>6. T # <<>> => /\ \A x : Has(Tail(T), x) => Has(T, x)
                    /\ \A x : Has(T, x) /\ T[1].cmd # x => Has(Tail(T), x)
                    /\ \A C : Only(T, C) => Only(Tail(T), C)
    BY <2>1, HasTail
  <2>7. /\ \A x : Has(todo', x) => Has(todo, x) /\ Has(T, x)
        /\ \A C : Only(todo, C) => Only(todo', C)
        /\ Has(todo, "IDENTITY") /\ Cmd # "IDENTITY" => Has(todo', "IDENTITY")
    BY <2>1, <2>5, <2>6
  <2>8. ~Has(T, "INIT") /\ ~Has(T, "S_INIT")
    <3>1. Len(T) = Len(todo) - 1 /\ Len(todo) \in Nat /\ \A i \in 1 .. Len(todo) - 1 : T[i] = todo[i + 1]
      BY <1>0, TailFacts
    <3>2. \A i \in 1 .. Len(T) : i + 1 \in 1 .. Len(todo) /\ i + 1 > 1 /\ T[i] = todo[i + 1]
      BY <3>1
    <3> HIDE DEF T
    <3> QED BY <1>0, <3>2 DEF Script, Has
  <2>9. Cmd \in {"IDENTITY", "S_UPGRADE"} => T = <<>> /\ todo' = <<>>
    <3>1. T \in Seq(Items) /\ Len(T) = Len(todo) - 1 /\ 1 \in 1 .. Len(todo) /\ Len(todo) \in Nat
      BY <1>0, TailFacts
    <3>2. Cmd \in {"IDENTITY", "S_UPGRADE"} => Len(T) = 0
      <4>1. 1 \in 1 .. Len(todo) /\ Script(todo)
        BY <1>0, <3>1
      <4>2. Cmd \in {"IDENTITY", "S_UPGRADE"} => 1 = Len(todo)
        BY <4>1 DEF Script, Cmd
      <4> HIDE DEF T
      <4> QED BY <3>1, <4>2
    <3>3. Len(T) = 0 => T = <<>>
      BY <3>1, EmptySeq
    <3> QED BY <2>1, <3>2, <3>3
  <2> HIDE DEF T
  <2>10. OpeningInv'
    <3> SUFFICES ASSUME Busy', op' # "close", ~inBody' PROVE OpeningInv'
      BY DEF OpeningInv
    <3>1. /\ Only(todo, {"INIT", "S_INIT", "HARDWARE2", "HARDWARE", "IDENTITY"})
          /\ state # "REBOOTING" /\ status = "SUCCESS"
          /\ Target(op) = "SERVICE" => state # "DOWNLOAD"
          /\ state = "OPEN" => Cmd = IF Target(op) = "SERVICE" THEN "S_INIT" ELSE "INIT"
          /\ state # "OPEN" => ~Has(todo, "INIT") /\ ~Has(todo, "S_INIT")
          /\ hardware = "INVALID" => Has(todo, "IDENTITY")
          /\ hardware # "INVALID" => ~Has(todo, "IDENTITY")
      BY <1>0 DEF DriverInv, OpeningInv
    <3>2. Cmd \in {"INIT", "S_INIT", "HARDWARE2", "HARDWARE", "IDENTITY"} /\ Has(todo, Cmd)
      <4>1. 1 \in 1 .. Len(todo)
        BY <1>0, TailFacts
      <4> QED BY <2>5, <3>1, <4>1 DEF Has, Cmd
    <3>3. state' # "OPEN" /\ state' # "REBOOTING"
      BY <1>4, <3>1, <3>2
    <3>4. Target(op') = "SERVICE" => state' # "DOWNLOAD"
      BY <1>0, <1>4, <3>1, <3>2
    <3>5. ~Has(todo', "INIT") /\ ~Has(todo', "S_INIT")
      BY <2>7, <2>8
    <3>6. hardware' = "INVALID" => Has(todo', "IDENTITY")
      BY <1>4, <2>7, <3>1
    <3>7. hardware' # "INVALID" => ~Has(todo', "IDENTITY")
      BY <1>4, <2>7, <2>9, <3>1, EmptyScript
    <3> QED BY <2>1, <2>7, <3>1, <3>3, <3>4, <3>5, <3>6, <3>7 DEF OpeningInv
  <2>11. BodyInv'
    <3> SUFFICES ASSUME Busy', op' # "close", inBody' PROVE BodyInv'
      BY DEF BodyInv
    <3>1. /\ hardware # "INVALID" /\ state # "OPEN"
          /\ Target(op) = "SERVICE" => Only(todo, Service \cup {"DISPLAY"}) /\ state # "DOWNLOAD"
          /\ Target(op) # "SERVICE" =>
               Only(todo, (Download \ {"EXIT", "IDENTITY"}) \cup {"COMPACT"}) /\ state # "REBOOTING"
          /\ state = "REBOOTING" => todo = <<>>
          /\ op # "fwupdate" => ~Has(todo, "S_UPGRADE") /\ status = "SUCCESS"
          /\ status # "SUCCESS" => ~Has(todo, "S_UPGRADE")
      BY <1>0 DEF DriverInv, BodyInv
    <3>2. Cmd \notin {"INIT", "S_INIT"} /\ (Target(op) # "SERVICE" => Cmd # "S_UPGRADE")
      BY <2>5, <3>1 DEF Service, Download
    <3>3. state' # "OPEN" /\ hardware' # "INVALID"
          /\ (Target(op) = "SERVICE" => state' # "DOWNLOAD")
          /\ (Target(op) # "SERVICE" => state' # "REBOOTING")
          /\ (state' = "REBOOTING" => todo' = <<>>)
      BY <1>0, <1>4, <2>9, <3>1, <3>2
    <3> QED BY <1>0, <2>1, <2>7, <3>1, <3>3 DEF BodyInv, Target
  <2>12. ClosingInv'
    <3>1. op = "close" => Cmd = "EXIT" /\ Len(todo) = 1
      BY <1>0 DEF DriverInv, ClosingInv
    <3>2. op = "close" => todo' = <<>>
      <4>1. T \in Seq(Items) /\ Len(T) = Len(todo) - 1
        BY <1>0, TailFacts DEF T
      <4>2. Len(T) = 0 => T = <<>>
        BY <4>1, EmptySeq
      <4> QED BY <2>1, <3>1, <4>1, <4>2
    <3> QED BY <1>0, <3>2 DEF DriverInv, ClosingInv
  <2> QED BY <2>3, <2>4, <2>10, <2>11, <2>12 DEF DriverInv
<1> QED BY <1>5, <1>6

\* Every step keeps the control of the driver as it should be.
LEMMA DriverStep ==
  ASSUME DriverInv, DeviceInv, [Next]_vars
  PROVE  DriverInv'
<1> USE DEF Results
<1>1. ASSUME NEW o \in Operations, Call(o) PROVE DriverInv'
  <2>0. ~Busy /\ op # "close" /\ phase = "idle" /\ todo = <<>>
    BY <1>1 DEF Call, Busy, DriverInv, PhaseInv, ClosingInv
  <2>1. CASE ModeAllowed(Target(o))
    <3> DEFINE s == InitScript(Target(o))
    <3>1. Target(o) \in {"DOWNLOAD", "SERVICE"}
      BY DEF Target
    <3>2. /\ Script(s)
          /\ Only(s, {"INIT", "S_INIT", "HARDWARE2", "HARDWARE", "IDENTITY"})
          /\ state = "OPEN" => s # <<>> /\ s[1].cmd = IF Target(o) = "SERVICE" THEN "S_INIT" ELSE "INIT"
          /\ state # "OPEN" => ~Has(s, "INIT") /\ ~Has(s, "S_INIT")
          /\ hardware = "INVALID" => Has(s, "IDENTITY")
          /\ hardware # "INVALID" => ~Has(s, "IDENTITY")
      BY <3>1, OpeningScript
    <3> HIDE DEF s
    <3>3. /\ todo' = s /\ phase' = "next" /\ status' = "SUCCESS" /\ op' = o /\ inBody' = FALSE
          /\ seen' = 0 /\ cancelled' = FALSE /\ calls' = calls + 1
          /\ UNCHANGED <<state, hardware, answer>>
      BY <1>1, <2>1 DEF Call, s
    <3>4. o # "close" /\ o # None /\ Busy'
      BY <3>3 DEF Operations, None, Busy
    <3>5. state # "REBOOTING" /\ (Target(o) = "SERVICE" => state # "DOWNLOAD")
      BY <2>1, <3>1 DEF ModeAllowed
    <3>6. DriverTypes'
      <4>1. inBody' \in BOOLEAN /\ cancelled' \in BOOLEAN /\ op' \in Operations \cup {None, "close"}
        BY <3>3, Zenon
      <4>2. calls' \in Nat /\ seen' \in Nat
        BY <3>3 DEF DriverInv, DriverTypes
      <4> QED BY <3>2, <3>3, <4>1, <4>2 DEF DriverInv, DriverTypes, Phases
    <3>7. PhaseInv' /\ BodyInv' /\ ClosingInv'
      BY <3>3, <3>4 DEF PhaseInv, BodyInv, ClosingInv, Busy
    <3>8. OpeningInv'
      BY <3>2, <3>3, <3>5 DEF OpeningInv, Cmd, Target
    <3> QED BY <3>6, <3>7, <3>8 DEF DriverInv
  <2>2. CASE ~ModeAllowed(Target(o))
    <3>3. /\ status' = "INVALIDARGS" /\ op' = o /\ inBody' = FALSE
          /\ seen' = 0 /\ cancelled' = FALSE /\ calls' = calls + 1
          /\ UNCHANGED <<state, hardware, answer, todo, phase>>
      BY <1>1, <2>2 DEF Call
    <3>4. o # "close" /\ o # None /\ ~Busy'
      BY <2>0, <3>3 DEF Operations, None, Busy
    <3>6. DriverTypes'
      <4>1. inBody' \in BOOLEAN /\ cancelled' \in BOOLEAN /\ op' \in Operations \cup {None, "close"}
        BY <3>3, Zenon
      <4>2. calls' \in Nat /\ seen' \in Nat
        BY <3>3 DEF DriverInv, DriverTypes
      <4> QED BY <3>3, <4>1, <4>2 DEF DriverInv, DriverTypes
    <3> QED BY <2>0, <3>3, <3>4, <3>6 DEF DriverInv, PhaseInv, OpeningInv, BodyInv, ClosingInv
  <2> QED BY <2>1, <2>2
<1>2. ASSUME Close PROVE DriverInv'
  <2>1. /\ todo' = (IF state \in {"DOWNLOAD", "SERVICE"} THEN <<Must("EXIT", 0)>> ELSE <<>>)
        /\ phase' = "next" /\ op' = "close" /\ inBody' = TRUE /\ status' = "SUCCESS" /\ cancelled' = FALSE
        /\ UNCHANGED <<state, hardware, answer, seen, calls>>
    BY <1>2 DEF Close
  <2>2. Must("EXIT", 0) \in Items /\ Must("EXIT", 0).cmd = "EXIT"
    BY ItemFacts DEF Commands, Optional, Download, Service, Blocked
  <2>3. Script(<<Must("EXIT", 0)>>) /\ Len(<<Must("EXIT", 0)>>) = 1 /\ <<Must("EXIT", 0)>>[1].cmd = "EXIT"
    BY <2>2, SingleScript
  <2>4. Script(todo')
    BY <2>1, <2>3, EmptyScript
  <2>5. DriverTypes'
    BY <2>1, <2>4 DEF DriverInv, DriverTypes, Phases
  <2>6. PhaseInv' /\ OpeningInv' /\ BodyInv'
    BY <2>1 DEF PhaseInv, OpeningInv, BodyInv, Busy
  <2>7. ClosingInv'
    BY <2>1, <2>3 DEF ClosingInv, Cmd, None
  <2> QED BY <2>5, <2>6, <2>7 DEF DriverInv
<1>3. ASSUME Cancel PROVE DriverInv'
  <2>1. cancelled' = TRUE /\ op # "close" /\ UNCHANGED <<state, hardware, todo, phase, answer, op, inBody, seen, status, calls>>
    BY <1>3 DEF Cancel
  <2>2. DriverTypes'
    BY <2>1 DEF DriverInv, DriverTypes
  <2> QED BY <2>1, <2>2 DEF DriverInv, PhaseInv, OpeningInv, BodyInv, ClosingInv, Cmd, Busy, Target
<1>4. ASSUME Advance PROVE DriverInv'
  <2>0. phase = "next" /\ todo = <<>> /\ Busy /\ inBody' = TRUE /\ UNCHANGED <<state, hardware, op, seen, calls, cancelled>>
    BY <1>4 DEF Advance, Busy
  <2>1. CASE inBody \/ (op \in {"read", "write"} /\ hardware = "hwos4")
    <3>1. PICK s \in Results : Finish(s)
      BY <1>4, <2>1 DEF Advance, DriverInv, DriverTypes
    <3> QED BY <2>0, <3>1, FinishDriver
  <2>2. CASE ~inBody /\ ~(op \in {"read", "write"} /\ hardware = "hwos4")
    <3>1. todo' = Body(op) /\ UNCHANGED <<phase, status, answer>>
      BY <1>4, <2>2 DEF Advance
    <3>2. op \in Operations /\ op # "close"
      BY <2>0, <2>2 DEF DriverInv, DriverTypes, ClosingInv
    <3>3. ~Has(todo, "IDENTITY")
      BY <2>0, EmptyScript
    <3>4. hardware # "INVALID" /\ state # "OPEN" /\ state # "REBOOTING" /\ status = "SUCCESS"
          /\ (Target(op) = "SERVICE" => state # "DOWNLOAD")
      BY <2>0, <2>2, <3>2, <3>3 DEF DriverInv, OpeningInv
    <3> DEFINE s == Body(op)
    <3>5. /\ Script(s)
          /\ Target(op) = "SERVICE" => Only(s, Service \cup {"DISPLAY"})
          /\ Target(op) # "SERVICE" => Only(s, (Download \ {"EXIT", "IDENTITY"}) \cup {"COMPACT"})
          /\ op # "fwupdate" => ~Has(s, "S_UPGRADE")
      BY <3>2, BodyScript
    <3> HIDE DEF s
    <3>6. DriverTypes'
      BY <2>0, <3>1, <3>5 DEF DriverInv, DriverTypes, s
    <3>7. PhaseInv' /\ OpeningInv' /\ ClosingInv'
      BY <2>0, <3>1, <3>2 DEF DriverInv, PhaseInv, OpeningInv, ClosingInv, Busy
    <3>8. BodyInv'
      BY <2>0, <3>1, <3>4, <3>5 DEF BodyInv, Target, s
    <3> QED BY <3>6, <3>7, <3>8 DEF DriverInv
  <2> QED BY <2>1, <2>2
<1>5. ASSUME Begin PROVE DriverInv'
  <2>0. Busy /\ todo # <<>> /\ UNCHANGED <<state, hardware, op, inBody, seen, calls, cancelled>>
    BY <1>5 DEF Begin, Busy
  <2>1. CASE cancelled
    BY <1>5, <2>0, <2>1, FailsDriver DEF Begin
  <2>2. CASE ~cancelled
    BY <1>5, <2>0, <2>2, PhaseDriver DEF Begin, DriverInv, DriverTypes
  <2> QED BY <2>1, <2>2
<1>6. ASSUME Timeout PROVE DriverInv'
  <2>0. Busy /\ todo # <<>> /\ UNCHANGED <<state, hardware, op, inBody, seen, calls, cancelled>> /\ Fails("TIMEOUT")
    BY <1>6 DEF Timeout, Busy, DriverInv, PhaseInv
  <2> QED BY <2>0, FailsDriver
<1>7. ASSUME ReadEcho PROVE DriverInv'
  <2>0. Busy /\ todo # <<>> /\ Head(todo) = todo[1]
        /\ UNCHANGED <<state, hardware, op, inBody, seen, calls, cancelled>>
    BY <1>7, TailFacts DEF ReadEcho, Busy, DriverInv, DriverTypes, PhaseInv
  <2>1. \/ phase' = AfterEcho(Cmd) /\ UNCHANGED <<todo, answer, status>>
        \/ \E s \in Results : Fails(s)
    BY <1>7, <2>0 DEF ReadEcho, Cmd
  <2>2. CASE \E s \in Results : Fails(s)
    BY <2>0, <2>2, FailsDriver
  <2>3. CASE phase' = AfterEcho(Cmd) /\ UNCHANGED <<todo, answer, status>>
    <3>1. /\ phase' \in {"input", "output", "done", "ready"}
          /\ phase' = "input" => InputLen(Cmd) > 0
          /\ phase' = "output" => HasOutput(Cmd)
      BY <2>3 DEF AfterEcho
    <3>2. phase' = "ready" => Cmd # "EXIT"
      BY <2>3 DEF AfterEcho
    <3>3. answer' \in Tokens \cup {NoAnswer}
      BY <2>3 DEF DriverInv, DriverTypes
    <3> QED BY <2>0, <2>3, <3>1, <3>2, <3>3, PhaseDriver
  <2> QED BY <2>1, <2>2, <2>3
<1>8. ASSUME SendInput PROVE DriverInv'
  <2>0. Busy /\ todo # <<>> /\ Head(todo) = todo[1] /\ InputLen(Cmd) > 0
        /\ UNCHANGED <<state, hardware, todo, answer, op, inBody, seen, status, calls, cancelled>>
    BY <1>8, TailFacts DEF SendInput, Busy, DriverInv, DriverTypes, PhaseInv
  <2>1. /\ phase' \in {"input2", "output", "ready"} /\ (phase' = "input2" => InputLen(Cmd) = 2)
        /\ (phase' = "output" => HasOutput(Cmd))
    BY <1>8, <2>0 DEF SendInput, Cmd
  <2>2. Cmd # "EXIT"
    BY <2>0 DEF InputLen
  <2>3. answer' \in Tokens \cup {NoAnswer}
    BY <2>0 DEF DriverInv, DriverTypes
  <2> QED BY <2>0, <2>1, <2>2, <2>3, PhaseDriver
<1>9. ASSUME SendRest PROVE DriverInv'
  <2>0. Busy /\ todo # <<>> /\ phase' = "ready" /\ InputLen(Cmd) = 2
        /\ UNCHANGED <<state, hardware, todo, answer, op, inBody, seen, status, calls, cancelled>>
    BY <1>9 DEF SendRest, Busy, DriverInv, PhaseInv
  <2>2. Cmd # "EXIT"
    BY <2>0 DEF InputLen
  <2>3. answer' \in Tokens \cup {NoAnswer}
    BY <2>0 DEF DriverInv, DriverTypes
  <2> QED BY <2>0, <2>2, <2>3, PhaseDriver
<1>10. ASSUME ReadOutput PROVE DriverInv'
  <2>0. Busy /\ todo # <<>> /\ phase' = "ready" /\ HasOutput(Cmd)
        /\ UNCHANGED <<state, hardware, todo, op, inBody, seen, status, calls, cancelled>>
    BY <1>10 DEF ReadOutput, Busy, DriverInv, PhaseInv
  <2>1. answer' \in Tokens
    BY <1>10, HeadTailProperties DEF ReadOutput, DeviceInv
  <2>2. Cmd # "EXIT"
    BY <2>0 DEF HasOutput
  <2> QED BY <2>0, <2>1, <2>2, PhaseDriver
<1>11. ASSUME ReadReady PROVE DriverInv'
  <2>0. Busy /\ todo # <<>> /\ UNCHANGED <<state, hardware, op, inBody, seen, calls, cancelled>>
    BY <1>11 DEF ReadReady, Busy, DriverInv, PhaseInv
  <2>1. CASE Head(wire) = ReadyToken(Expected)
    BY <1>11, <2>0, <2>1, PhaseDriver DEF ReadReady, DriverInv, DriverTypes
  <2>2. CASE Head(wire) # ReadyToken(Expected)
    BY <1>11, <2>0, <2>2, FailsDriver DEF ReadReady
  <2> QED BY <2>1, <2>2
<1>12. ASSUME UNCHANGED driver PROVE DriverInv'
  <2>2. DriverTypes'
    BY <1>12 DEF DriverInv, DriverTypes, driver
  <2> QED BY <1>12, <2>2 DEF DriverInv, PhaseInv, OpeningInv, BodyInv, ClosingInv, Cmd, Busy, Target, driver
<1>13. CASE Lose \/ Closed \/ UNCHANGED vars
  BY <1>12, <1>13 DEF Lose, Closed, vars
<1> QED BY <1>1, <1>2, <1>3, <1>4, <1>5, <1>6, <1>7, <1>8, <1>9, <1>10, <1>11, <1>13,
           CompleteDriver DEF Next

-----------------------------------------------------------------------------
(* The device alone *)

\* What a driver may send.
Sent == {t \in [kind : {"cmd", "input"}, cmd : Commands, arg : Nat] :
           t.kind = "input" /\ t.cmd \in Blocked => t.arg \in 1 .. Blocks}

LEMMA TellsOne ==
  ASSUME NEW y \in Tokens, NEW m,
         y.kind = "echo" => (y.cmd = "INIT" => m = "download") /\ (y.cmd = "S_INIT" => m \in {"service", "rebooting"})
  PROVE  Tells(<<y>>, m)
<1> DEFINE x == <<y>>
<1>1. x \in Seq(Tokens) /\ Len(x) = 1 /\ x[1] = y /\ 1 .. 1 = {1}
  OBVIOUS
<1> HIDE DEF x
<1> QED BY <1>1 DEF Tells, x

LEMMA TellsJoined ==
  ASSUME NEW m, NEW x, NEW y, Tells(x, m), Tells(y, m)
  PROVE  Tells(x \o y, m)
<1> DEFINE w == x \o y
<1>0. x \in Seq(Tokens) /\ y \in Seq(Tokens)
  BY DEF Tells
<1>1. /\ w \in Seq(Tokens) /\ Len(w) = Len(x) + Len(y)
      /\ \A i \in 1 .. Len(x) : w[i] = x[i]
      /\ \A i \in 1 .. Len(y) : w[Len(x) + i] = y[i]
  BY <1>0, Joined
<1>2. Len(x) \in Nat /\ Len(y) \in Nat
  BY <1>0, LenProperties
<1> HIDE DEF w
<1>3. ASSUME NEW i \in 1 .. Len(w), w[i].kind = "echo"
      PROVE  (w[i].cmd = "INIT" => m = "download") /\ (w[i].cmd = "S_INIT" => m \in {"service", "rebooting"})
  <2>1. CASE i \in 1 .. Len(x)
    BY <1>1, <1>3, <2>1 DEF Tells
  <2>2. CASE i \notin 1 .. Len(x)
    <3>1. i - Len(x) \in 1 .. Len(y) /\ Len(x) + (i - Len(x)) = i
      BY <1>1, <1>2, <2>2
    <3>2. w[i] = y[i - Len(x)]
      BY <1>1, <3>1
    <3> QED BY <1>3, <3>1, <3>2 DEF Tells
  <2> QED BY <2>1, <2>2
<1> QED BY <1>1, <1>3 DEF Tells, w

\* The tokens of an answer are tokens, and only an echo tells of a mode.
LEMMA AnswerTokens ==
  ASSUME DeviceInv
  PROVE  /\ \A m \in Modes : ReadyToken(m) \in Tokens /\ ReadyToken(m).kind = "ready"
         /\ \A x \in Commands : Token("echo", x, 0) \in Tokens
         /\ Token("data", Garbage, 0) \in Tokens
         /\ \A m : Tells(<<>>, m)
         /\ \A m : \A x \in Commands, b \in Nat :
              (x \in {"S_BLOCK_READ", "S_FWINFO"} => b \in 1 .. Blocks) => Tells(Output(x, b), m)
<1>1. \A m \in Modes : ReadyToken(m) \in Tokens /\ ReadyToken(m).kind = "ready"
  BY DEF ReadyToken, Token, Tokens, Words
<1>2. \A x \in Commands : x \in Words
  BY DEF Words
<1>3. \A x \in Commands : Token("echo", x, 0) \in Tokens
  BY <1>2 DEF Token, Tokens
<1>4. Token("data", Garbage, 0) \in Tokens
  BY DEF Token, Tokens, Words, Contents
<1>5. \A m : Tells(<<>>, m)
  <2> SUFFICES ASSUME NEW m PROVE Tells(<<>>, m)
    OBVIOUS
  <2> DEFINE x == <<>>
  <2>1. x \in Seq(Tokens) /\ Len(x) = 0 /\ 1 .. 0 = {}
    OBVIOUS
  <2> HIDE DEF x
  <2>2. Tells(x, m)
    BY <2>1 DEF Tells
  <2> QED BY <2>2 DEF x
<1>6. ASSUME NEW m, NEW x \in Commands, NEW b \in Nat,
             x \in {"S_BLOCK_READ", "S_FWINFO"} => b \in 1 .. Blocks
      PROVE  Tells(Output(x, b), m)
  <2>1. \A y, n : Token("data", y, n).kind = "data"
    BY DEF Token
  <2>2. CASE x \in {"HARDWARE2", "HARDWARE"}
    <3>1. Output(x, b) = <<Token("data", x, IF hwos4 THEN 4 ELSE 3)>>
      BY <2>2 DEF Output
    <3>2. Token("data", x, IF hwos4 THEN 4 ELSE 3) \in Tokens
      BY <1>2 DEF Token, Tokens
    <3> QED BY <2>1, <3>1, <3>2, TellsOne
  <2>3. CASE x \in {"S_BLOCK_READ", "S_FWINFO"}
    <3>1. Output(x, b) = <<Token("data", flash[b], b)>>
      BY <2>3 DEF Output
    <3>2. flash[b] \in Contents
      BY <1>6, <2>3 DEF DeviceInv
    <3>3. flash[b] \in Words
      BY <3>2 DEF Words
    <3>4. Token("data", flash[b], b) \in Tokens
      BY <3>3 DEF Token, Tokens
    <3> QED BY <2>1, <3>1, <3>4, TellsOne
  <2>4. CASE x \notin {"HARDWARE2", "HARDWARE", "S_BLOCK_READ", "S_FWINFO"}
    <3>1. Output(x, b) = IF HasOutput(x) THEN <<Token("data", x, 0)>> ELSE <<>>
      BY <2>4 DEF Output
    <3>2. Token("data", x, 0) \in Tokens
      BY <1>2 DEF Token, Tokens
    <3> QED BY <1>5, <2>1, <3>1, <3>2, TellsOne
  <2> QED BY <2>2, <2>3, <2>4
<1> QED BY <1>1, <1>3, <1>4, <1>5, <1>6

\* What a command with the right input may change.
LEMMA EffectDevice ==
  ASSUME DeviceInv, NEW x \in Commands, NEW b \in Nat,
         x \in Blocked => b \in 1 .. Blocks, Effect(x, b)
  PROVE  /\ flash' \in [1 .. Blocks -> Contents]
         /\ x \notin {"S_ERASE", "S_BLOCK_WRITE", "S_UPLOAD"} => flash' = flash
         /\ x = "S_UPLOAD" => flash' = [flash EXCEPT ![b] = New]
         /\ mode' = IF x = "S_UPGRADE" THEN "rebooting" ELSE IF x = "EXIT" THEN "idle" ELSE mode
<1>1. PICK written \in {New, Garbage} :
        flash' = CASE x = "S_ERASE" -> [a \in 1 .. Blocks |-> Erased]
                   [] x = "S_BLOCK_WRITE" -> [flash EXCEPT ![b] = written]
                   [] x = "S_UPLOAD" -> [flash EXCEPT ![b] = New]
                   [] OTHER -> flash
  BY DEF Effect
<1>2. flash \in [1 .. Blocks -> Contents] /\ New \in Contents /\ Garbage \in Contents /\ Erased \in Contents
  BY DEF DeviceInv, Contents
<1>3. x \in {"S_BLOCK_WRITE", "S_UPLOAD"} => b \in 1 .. Blocks
  BY DEF Blocked
<1>4. CASE x = "S_ERASE"
  BY <1>1, <1>2, <1>4 DEF Effect
<1>5. CASE x = "S_BLOCK_WRITE"
  BY <1>1, <1>2, <1>3, <1>5 DEF Effect
<1>6. CASE x = "S_UPLOAD"
  BY <1>1, <1>2, <1>3, <1>6 DEF Effect
<1>7. CASE x \notin {"S_ERASE", "S_BLOCK_WRITE", "S_UPLOAD"}
  BY <1>1, <1>2, <1>7 DEF Effect
<1> QED BY <1>4, <1>5, <1>6, <1>7

\* The tokens on the wire and an answer behind them.
LEMMA ReplyDevice ==
  ASSUME DeviceInv, NEW x, NEW m, Tells(x, m), Reply(x)
  PROVE  wire' \in Seq(Tokens) /\ (Tells(wire, m) => Tells(wire', m))
<1>1. wire \in Seq(Tokens) /\ x \in Seq(Tokens) /\ wire' = wire \o x
  BY DEF DeviceInv, Tells, Reply
<1>2. wire' \in Seq(Tokens)
  BY <1>1, Joined
<1>3. Tells(wire, m) => Tells(wire', m)
  BY <1>1, TellsJoined
<1> QED BY <1>2, <1>3

\* A token that the device takes for input.
LEMMA InputDevice ==
  ASSUME DeviceInv, NEW t \in Sent, TakeInput(t), UNCHANGED <<commands, hwos4, faults>>
  PROVE  /\ DeviceInv'
         /\ mode' = mode \/ (mode = "service" /\ mode' = "rebooting")
         /\ Tells(wire, mode') => Tells(wire', mode')
<1> DEFINE S == [kind : {"cmd", "input"}, cmd : Commands, arg : Nat]
           y == Append(buf, t)
           n == Len(buf) + 1
<1>0. buf \in Seq(S) /\ t \in S /\ waits \in Commands /\ waits # None /\ None \notin Commands
      /\ mode \in {"download", "service"}
  BY CommandFacts DEF DeviceInv, Sent, TakeInput
<1>1. y \in Seq(S) /\ Len(y) = n /\ y[n] = t /\ Len(buf) \in Nat
  BY <1>0, AppendProperties, LenProperties
<1>2. Len(buf) < InputLen(waits) /\ InputLen(waits) \in Nat
  BY <1>0, CommandFacts DEF DeviceInv
<1>3. CASE n < InputLen(waits)
  <2>1. buf' = y /\ UNCHANGED <<waits, flash, mode, wire>>
    BY <1>3 DEF TakeInput
  <2> HIDE DEF y
  <2> QED BY <1>0, <1>1, <1>3, <2>1 DEF DeviceInv
<1>4. CASE ~(n < InputLen(waits))
  <2>1. waits' = None /\ buf' = <<>>
    BY <1>4 DEF TakeInput
  <2>2. CASE Right(waits, y)
    <3>1. Effect(waits, t.arg) /\ Reply(Append(Output(waits, t.arg), ReadyToken(mode)))
      BY <1>4, <2>2 DEF TakeInput
    <3>2. t.kind = "input" /\ t.cmd = waits /\ t.arg \in Nat
      <4>1. n \in DOMAIN y
        BY <1>1
      <4> HIDE DEF y, n
      <4> QED BY <1>0, <1>1, <2>2, <4>1 DEF Right
    <3>3. waits \in Blocked => t.arg \in 1 .. Blocks
      BY <3>2 DEF Sent
    <3>4. waits # "EXIT" /\ (waits = "S_UPGRADE" => mode = "service")
      BY <1>1, <1>2 DEF InputLen, DeviceInv, Service
    <3>5. flash' \in [1 .. Blocks -> Contents] /\ mode' = IF waits = "S_UPGRADE" THEN "rebooting" ELSE mode
      BY <1>0, <3>1, <3>2, <3>3, <3>4, EffectDevice
    <3>6. Tells(Append(Output(waits, t.arg), ReadyToken(mode)), mode')
      <4>1. Tells(Output(waits, t.arg), mode')
        BY <1>0, <3>2, <3>3, AnswerTokens DEF Blocked
      <4>2. ReadyToken(mode) \in Tokens /\ ReadyToken(mode).kind = "ready"
        BY AnswerTokens DEF DeviceInv
      <4>3. Tells(<<ReadyToken(mode)>>, mode')
        BY <4>2, TellsOne
      <4>4. Append(Output(waits, t.arg), ReadyToken(mode)) = Output(waits, t.arg) \o <<ReadyToken(mode)>>
        BY <4>1, <4>2, AppendIsConcat DEF Tells
      <4> QED BY <4>1, <4>3, <4>4, TellsJoined
    <3>7. wire' \in Seq(Tokens) /\ (Tells(wire, mode') => Tells(wire', mode'))
      BY <3>1, <3>6, ReplyDevice
    <3>8. mode' \in Modes
      BY <1>0, <3>5 DEF Modes
    <3>9. DeviceInv'
      BY <2>1, <3>5, <3>7, <3>8 DEF DeviceInv, Service, None
    <3> QED BY <3>4, <3>5, <3>7, <3>9
  <2>3. CASE ~Right(waits, y)
    <3> DEFINE x == IF HasOutput(waits) THEN <<Token("data", Garbage, 0)>> ELSE <<>>
    <3>1. Misled(waits) /\ Reply(x \o <<ReadyToken(mode)>>)
      BY <1>4, <2>3 DEF TakeInput
    <3>2. mode' = mode /\ flash' \in [1 .. Blocks -> Contents]
      BY <3>1 DEF Misled, DeviceInv, Contents
    <3>3. Tells(x, mode')
      <4>1. Token("data", Garbage, 0).kind = "data"
        BY DEF Token
      <4>2. Tells(<<Token("data", Garbage, 0)>>, mode')
        BY <4>1, AnswerTokens, TellsOne
      <4> QED BY <4>2, AnswerTokens
    <3>4. Tells(<<ReadyToken(mode)>>, mode')
      <4>2. ReadyToken(mode) \in Tokens /\ ReadyToken(mode).kind = "ready"
        BY AnswerTokens DEF DeviceInv
      <4> QED BY <4>2, TellsOne
    <3> HIDE DEF x
    <3>5. Tells(x \o <<ReadyToken(mode)>>, mode')
      BY <3>3, <3>4, TellsJoined
    <3>7. wire' \in Seq(Tokens) /\ (Tells(wire, mode') => Tells(wire', mode'))
      BY <3>1, <3>5, ReplyDevice
    <3>9. DeviceInv'
      BY <2>1, <3>2, <3>7 DEF DeviceInv, Service, None
    <3> QED BY <3>2, <3>7, <3>9
  <2> QED BY <2>2, <2>3
<1> QED BY <1>3, <1>4

\* A token that the device takes for a command: it changes its mode, waits for
\* the input of a command it knows, answers, or has nothing to do with it.
LEMMA CommandDevice ==
  ASSUME DeviceInv, NEW t \in Sent, TakeCommand(t), UNCHANGED <<commands, hwos4, faults>>
  PROVE  /\ DeviceInv'
         /\ mode' = mode \/ mode = "idle" \/ t.cmd = "EXIT"
         /\ Tells(wire, mode') => Tells(wire', mode')
<1>0. /\ t.cmd \in Commands /\ t.kind \in {"cmd", "input"} /\ waits = None /\ buf = <<>> /\ buf' = buf
      /\ mode \in Modes /\ wire \in Seq(Tokens) /\ flash \in [1 .. Blocks -> Contents]
  BY DEF TakeCommand, DeviceInv, Sent
<1> DEFINE C == t.cmd
           init  == mode = "idle" /\ t.kind = "cmd" /\ C = "INIT"
           sinit == mode = "idle" /\ t.kind = "cmd" /\ C = "S_INIT"
           deaf  == mode \in {"idle", "rebooting"} /\ ~(t.kind = "cmd" /\ C \in {"INIT", "S_INIT"} /\ mode = "idle")
           lacks == mode \in {"download", "service"} /\ ~(t.kind = "cmd" /\ Known(C))
<1>1. CASE init \/ sinit
  <2> DEFINE m == IF init THEN "download" ELSE "service"
             x == <<Token("echo", C, 0), ReadyToken(m)>>
  <2>1. mode' = m /\ Reply(x) /\ UNCHANGED <<waits, flash>>
    BY <1>1 DEF TakeCommand
  <2>2. Tells(x, m)
    <3> DEFINE e == Token("echo", C, 0)
               r == ReadyToken(m)
    <3>1. e \in Tokens /\ r \in Tokens /\ r.kind = "ready" /\ e.cmd = C
      BY <1>0, AnswerTokens DEF Modes, Token
    <3> HIDE DEF e, r
    <3>2. <<e, r>> \in Seq(Tokens) /\ Len(<<e, r>>) = 2 /\ <<e, r>>[1] = e /\ <<e, r>>[2] = r /\ 1 .. 2 = {1, 2}
      BY <3>1
    <3>3. Tells(<<e, r>>, m)
      BY <1>1, <3>1, <3>2 DEF Tells
    <3> QED BY <3>3 DEF e, r
  <2> HIDE DEF x
  <2>3. wire' \in Seq(Tokens) /\ (Tells(wire, m) => Tells(wire', m))
    BY <2>1, <2>2, ReplyDevice
  <2>4. m \in Modes /\ mode = "idle"
    BY <1>1 DEF Modes
  <2> HIDE DEF m
  <2>5. DeviceInv'
    BY <1>0, <2>1, <2>3, <2>4 DEF DeviceInv, Service, None
  <2> QED BY <2>1, <2>3, <2>4, <2>5
<1>2. CASE deaf
  <2>1. UNCHANGED <<mode, wire, waits, flash>>
    BY <1>2 DEF TakeCommand
  <2> QED BY <1>0, <2>1 DEF DeviceInv
<1>3. CASE lacks
  <2>1. Reply(<<ReadyToken(mode)>>) /\ UNCHANGED <<mode, waits, flash>>
    BY <1>3 DEF TakeCommand
  <2>2. ReadyToken(mode) \in Tokens /\ ReadyToken(mode).kind = "ready"
    BY <1>0, AnswerTokens
  <2>3. Tells(<<ReadyToken(mode)>>, mode)
    BY <2>2, TellsOne
  <2>4. wire' \in Seq(Tokens) /\ (Tells(wire, mode) => Tells(wire', mode))
    BY <2>1, <2>3, ReplyDevice
  <2> QED BY <1>0, <2>1, <2>4 DEF DeviceInv
<1>4. CASE ~init /\ ~sinit /\ ~deaf /\ ~lacks
  <2>0. mode \in {"download", "service"} /\ t.kind = "cmd" /\ Known(C)
    BY <1>0, <1>4 DEF Modes
  <2>1. C \notin {"INIT", "S_INIT"} /\ (C \in Service => mode = "service")
    <3>1. C \in Download \cup Optional \/ (mode = "service" /\ C \in Service)
      BY <2>0 DEF Known, DeviceInv
    <3> QED BY <3>1 DEF Download, Optional, Service
  <2>2. Token("echo", C, 0) \in Tokens /\ Token("echo", C, 0).cmd = C
    BY <1>0, AnswerTokens DEF Token
  <2>3. \A m : Tells(<<Token("echo", C, 0)>>, m)
    BY <2>1, <2>2, TellsOne
  <2>4. CASE InputLen(C) > 0
    <3>1. Reply(<<Token("echo", C, 0)>>) /\ waits' = C /\ UNCHANGED <<flash, mode>>
      BY <1>4, <2>4 DEF TakeCommand
    <3>2. wire' \in Seq(Tokens) /\ (Tells(wire, mode) => Tells(wire', mode))
      BY <2>3, <3>1, ReplyDevice
    <3>3. Len(buf) = 0 /\ buf' \in Seq([kind : {"cmd", "input"}, cmd : Commands, arg : Nat])
      BY <1>0
    <3>4. C # None
      BY <1>0, CommandFacts
    <3>5. DeviceInv'
      BY <1>0, <2>0, <2>1, <2>4, <3>1, <3>2, <3>3, <3>4 DEF DeviceInv
    <3> QED BY <3>1, <3>2, <3>5
  <2>5. CASE ~(InputLen(C) > 0)
    <3> DEFINE e == <<Token("echo", C, 0)>>
               z == IF C = "EXIT" THEN <<>> ELSE <<ReadyToken(mode)>>
    <3>1. Effect(C, 0) /\ UNCHANGED waits /\ Reply(e \o Output(C, 0) \o z)
      BY <1>4, <2>5 DEF TakeCommand
    <3>2. C \notin Blocked \cup {"S_UPGRADE"}
      BY <2>5 DEF InputLen, Blocked
    <3>3. flash' \in [1 .. Blocks -> Contents] /\ mode' = IF C = "EXIT" THEN "idle" ELSE mode
      BY <1>0, <3>1, <3>2, EffectDevice
    <3>4. Tells(Output(C, 0), mode')
      BY <1>0, <3>2, AnswerTokens DEF Blocked
    <3>5. Tells(z, mode')
      <4>1. ReadyToken(mode) \in Tokens /\ ReadyToken(mode).kind = "ready"
        BY <1>0, AnswerTokens
      <4>2. Tells(<<ReadyToken(mode)>>, mode')
        BY <4>1, TellsOne
      <4> QED BY <4>2, AnswerTokens
    <3>6. Tells(e, mode')
      BY <2>3
    <3> HIDE DEF e, z
    <3>7. Tells(e \o Output(C, 0), mode')
      BY <3>4, <3>6, TellsJoined
    <3>8. Tells(e \o Output(C, 0) \o z, mode')
      BY <3>5, <3>7, TellsJoined
    <3>9. wire' \in Seq(Tokens) /\ (Tells(wire, mode') => Tells(wire', mode'))
      BY <3>1, <3>8, ReplyDevice
    <3>10. mode' \in Modes
      BY <1>0, <3>3 DEF Modes
    <3>11. DeviceInv'
      BY <1>0, <3>1, <3>3, <3>9, <3>10 DEF DeviceInv, Service, None
    <3> QED BY <3>3, <3>9, <3>11
  <2> QED BY <2>4, <2>5
<1> QED BY <1>1, <1>2, <1>3, <1>4

\* A token sent to the device: whatever it makes of it, only the command EXIT
\* takes it out of its mode, but for the reboot that ends the service mode.
LEMMA SendDevice ==
  ASSUME DeviceInv, NEW t \in Sent, Send(t), faults' = faults
  PROVE  /\ DeviceInv'
         /\ t.cmd # "EXIT" /\ mode = "download" => mode' = "download"
         /\ t.cmd # "EXIT" /\ mode \in {"service", "rebooting"} => mode' \in {"service", "rebooting"}
         /\ t.cmd # "EXIT" /\ Tells(wire, mode) => Tells(wire', mode')
<1>1. CASE TakeInput(t)
  <2>1. /\ DeviceInv' /\ (mode' = mode \/ (mode = "service" /\ mode' = "rebooting"))
        /\ Tells(wire, mode') => Tells(wire', mode')
    BY <1>1, InputDevice DEF Send
  <2>2. Tells(wire, mode) => Tells(wire, mode')
    BY <2>1 DEF Tells
  <2> QED BY <2>1, <2>2
<1>2. CASE TakeCommand(t)
  <2>1. /\ DeviceInv' /\ (mode' = mode \/ mode = "idle" \/ t.cmd = "EXIT")
        /\ Tells(wire, mode') => Tells(wire', mode')
    BY <1>2, CommandDevice DEF Send
  <2>2. t.cmd # "EXIT" /\ Tells(wire, mode) => Tells(wire, mode')
    BY <2>1 DEF Tells
  <2> QED BY <2>1, <2>2
<1> QED BY <1>1, <1>2 DEF Send

\* What the driver sends; EXIT only to close the device.
LEMMA DriverSends ==
  ASSUME DriverInv, Busy, todo # <<>>
  PROVE  /\ Script(todo) /\ Head(todo) = todo[1] /\ todo[1] \in Items /\ Cmd \in Commands
         /\ Token("cmd", Cmd, 0) \in Sent /\ Token("input", Cmd, Arg) \in Sent
         /\ Token("cmd", Cmd, 0).cmd = Cmd /\ Token("input", Cmd, Arg).cmd = Cmd
         /\ Cmd = "EXIT" => op = "close"
<1>1. Script(todo) /\ Head(todo) = todo[1] /\ todo[1] \in Items /\ Len(todo) \in Nat \ {0}
  BY TailFacts DEF DriverInv, DriverTypes
<1>2. Cmd \in Commands /\ Arg \in Nat /\ (Cmd \in Blocked => Arg \in 1 .. Blocks)
  BY <1>1 DEF Items, Cmd, Arg
<1>3. Token("cmd", Cmd, 0) \in Sent /\ Token("input", Cmd, Arg) \in Sent
  BY <1>2 DEF Sent, Token
<1>4. 1 \in 1 .. Len(todo)
  BY <1>1
<1>5. op # "close" /\ ~inBody => Cmd \in {"INIT", "S_INIT", "HARDWARE2", "HARDWARE", "IDENTITY"}
  BY <1>4 DEF DriverInv, OpeningInv, Only, Cmd
<1>6. op # "close" /\ inBody => Cmd \in Service \cup {"DISPLAY"} \cup (Download \ {"EXIT", "IDENTITY"}) \cup {"COMPACT"}
  BY <1>4 DEF DriverInv, BodyInv, Only, Cmd, Target
<1>7. Cmd = "EXIT" => op = "close"
  BY <1>5, <1>6 DEF Service
<1> QED BY <1>1, <1>2, <1>3, <1>7 DEF Token

\* A step leaves the line alone, takes a token from it, or sends one.
LEMMA LineStep ==
  ASSUME DriverInv, DeviceInv, [Next]_vars
  PROVE  /\ faults' \in Nat /\ faults <= faults'
         /\ \/ UNCHANGED <<device, wire>>
            \/ wire # <<>> /\ wire' = Tail(wire) /\ UNCHANGED device
            \/ \E t \in Sent : Send(t) /\ faults' = faults /\ (t.cmd = "EXIT" => op = "close")
<1>0. faults \in Nat
  BY DEF DeviceInv
<1>1. ASSUME NEW o \in Operations, Call(o) PROVE UNCHANGED <<device, link>>
  BY <1>1 DEF Call
<1>2. CASE Close \/ Cancel \/ Advance \/ Complete \/ Closed \/ UNCHANGED vars
  BY <1>0, <1>2 DEF Close, Cancel, Advance, Complete, Closed, vars, link
<1>3. CASE ReadEcho \/ ReadOutput \/ ReadReady
  BY <1>0, <1>3 DEF ReadEcho, ReadOutput, ReadReady
<1>4. CASE Lose
  BY <1>0, <1>4 DEF Lose
<1>5. CASE Timeout
  BY <1>0, <1>5 DEF Timeout
<1>6. CASE Begin
  <2>1. CASE cancelled
    BY <1>0, <1>6, <2>1 DEF Begin
  <2>2. CASE ~cancelled
    <3>1. Busy /\ todo # <<>> /\ Send(Token("cmd", Head(todo).cmd, 0)) /\ faults' = faults
      BY <1>6, <2>2 DEF Begin, Busy
    <3>2. Head(todo).cmd = Cmd /\ Token("cmd", Cmd, 0) \in Sent /\ Token("cmd", Cmd, 0).cmd = Cmd
          /\ (Cmd = "EXIT" => op = "close")
      BY <3>1, DriverSends DEF Cmd
    <3> QED BY <1>0, <3>1, <3>2
  <2> QED BY <2>1, <2>2
<1>7. CASE SendInput \/ SendRest
  <2>1. Busy /\ todo # <<>> /\ Send(Token("input", Head(todo).cmd, Head(todo).arg)) /\ faults' = faults
    BY <1>7 DEF SendInput, SendRest, Busy, DriverInv, PhaseInv
  <2>2. Head(todo).cmd = Cmd /\ Head(todo).arg = Arg /\ Token("input", Cmd, Arg) \in Sent
        /\ Token("input", Cmd, Arg).cmd = Cmd /\ (Cmd = "EXIT" => op = "close")
    BY <2>1, DriverSends DEF Cmd, Arg
  <2> QED BY <1>0, <2>1, <2>2
<1> QED BY <1>0, <1>1, <1>2, <1>3, <1>4, <1>5, <1>6, <1>7 DEF Next, link

\* Every step keeps the device as it should be, and in its mode.
LEMMA DeviceStep ==
  ASSUME DriverInv, DeviceInv, [Next]_vars
  PROVE  /\ DeviceInv' /\ faults <= faults'
         /\ op # "close" =>
              /\ mode = "download" => mode' = "download"
              /\ mode \in {"service", "rebooting"} => mode' \in {"service", "rebooting"}
              /\ Tells(wire, mode) => Tells(wire', mode')
<1>0. faults' \in Nat /\ faults <= faults'
  BY LineStep
<1>1. CASE UNCHANGED <<device, wire>>
  BY <1>0, <1>1 DEF DeviceInv, device
<1>2. CASE wire # <<>> /\ wire' = Tail(wire) /\ UNCHANGED device
  <2>1. wire \in Seq(Tokens)
    BY DEF DeviceInv
  <2>2. wire' \in Seq(Tokens) /\ Len(wire') = Len(wire) - 1 /\ Len(wire) \in Nat
        /\ \A i \in 1 .. Len(wire') : wire'[i] = wire[i + 1]
    BY <1>2, <2>1, HeadTailProperties, LenProperties
  <2>3. \A i \in 1 .. Len(wire') : i + 1 \in 1 .. Len(wire)
    BY <2>2
  <2>4. Tells(wire, mode) => Tells(wire', mode)
    BY <2>2, <2>3 DEF Tells
  <2> QED BY <1>0, <1>2, <2>2, <2>4 DEF DeviceInv, device
<1>3. CASE \E t \in Sent : Send(t) /\ faults' = faults /\ (t.cmd = "EXIT" => op = "close")
  <2>1. PICK t \in Sent : Send(t) /\ faults' = faults /\ (t.cmd = "EXIT" => op = "close")
    BY <1>3
  <2> QED BY <1>0, <2>1, SendDevice
<1> QED BY <1>1, <1>2, <1>3, LineStep

\* Every step keeps the modes of the two sides together.
LEMMA EchoStep ==
  ASSUME DriverInv, DeviceInv, EchoInv, [Next]_vars
  PROVE  EchoInv'
<1> SUFFICES ASSUME op' # "close" PROVE EchoInv'
  BY DEF EchoInv
<1>0. op # "close"
  <2>1. CASE \E o \in Operations : Call(o)
    BY <2>1 DEF Call, DriverInv, ClosingInv
  <2>2. CASE Close
    BY <2>2 DEF Close
  <2>3. CASE op' = op
    BY <2>3
  <2>4. op' = op \/ Close \/ \E o \in Operations : Call(o)
    BY DEF Next, vars, driver, Cancel, Advance, Begin, Timeout, ReadEcho, SendInput, SendRest,
           ReadOutput, ReadReady, Complete, Lose, Closed
  <2> QED BY <2>1, <2>2, <2>3, <2>4
<1>1. /\ mode = "download" => mode' = "download"
      /\ mode \in {"service", "rebooting"} => mode' \in {"service", "rebooting"}
      /\ Tells(wire', mode')
  BY <1>0, DeviceStep DEF EchoInv
<1>2. /\ phase \in {"ready", "done"} => /\ Cmd = "INIT" => mode' = "download"
                                        /\ Cmd = "S_INIT" => mode' \in {"service", "rebooting"}
      /\ state = "DOWNLOAD" => mode' = "download"
      /\ state = "SERVICE" => mode' \in {"service", "rebooting"}
  BY <1>0, <1>1 DEF EchoInv
<1>3. /\ state' = "DOWNLOAD" => mode' = "download"
      /\ state' = "SERVICE" => mode' \in {"service", "rebooting"}
  <2>1. CASE Complete
    <3>1. todo # <<>> /\ Busy /\ phase = "done"
      BY <2>1 DEF Complete, DriverInv, PhaseInv, Busy
    <3>2. state' = NewState(Cmd)
      BY <2>1, <3>1, DriverSends DEF Complete, Cmd
    <3> QED BY <1>2, <3>1, <3>2 DEF NewState
  <2>2. CASE state' = state
    BY <1>2, <2>2
  <2>3. state' = state \/ Complete
    BY DEF Next, vars, driver, Call, Close, Cancel, Advance, Begin, Timeout, ReadEcho, SendInput,
           SendRest, ReadOutput, ReadReady, Lose, Closed
  <2> QED BY <2>1, <2>2, <2>3
<1>4. ASSUME phase' \in {"ready", "done"}
      PROVE  /\ Cmd' = "INIT" => mode' = "download"
             /\ Cmd' = "S_INIT" => mode' \in {"service", "rebooting"}
  <2>1. ASSUME NEW o \in Operations, Call(o) PROVE FALSE
    BY <1>4, <2>1 DEF Call
  <2>2. ASSUME NEW s, Fails(s) PROVE FALSE
    BY <1>4, <2>2 DEF Fails, Finish
  <2>3. CASE Close \/ Advance \/ Complete \/ Timeout \/ Begin
    <3>1. ~(Close \/ Complete \/ Timeout \/ Begin)
      BY <1>4, <2>2 DEF Close, Complete, Timeout, Begin
    <3>2. ~Advance
      BY <1>4 DEF Advance, Finish
    <3> QED BY <2>3, <3>1, <3>2
  <2>4. CASE UNCHANGED <<phase, todo>>
    BY <1>2, <1>4, <2>4 DEF Cmd
  <2>5. CASE ReadEcho
    <3>1. Busy /\ todo # <<>> /\ wire # <<>>
      BY <2>5 DEF ReadEcho, Busy, DriverInv, PhaseInv
    <3>2. Head(todo).cmd = Cmd
      BY <3>1, DriverSends DEF Cmd
    <3>3. Head(wire).kind = "echo" /\ Head(wire).cmd = Cmd /\ todo' = todo /\ mode' = mode
      BY <2>2, <2>5, <3>2 DEF ReadEcho, device
    <3>4. wire \in Seq(Tokens) /\ Head(wire) = wire[1] /\ 1 \in 1 .. Len(wire)
      <4>1. wire \in Seq(Tokens)
        BY DEF DeviceInv
      <4>2. Len(wire) \in Nat /\ Len(wire) # 0 /\ Head(wire) = wire[1]
        BY <3>1, <4>1, HeadTailProperties, LenProperties, EmptySeq
      <4> QED BY <4>1, <4>2
    <3>5. /\ Cmd = "INIT" => mode = "download"
          /\ Cmd = "S_INIT" => mode \in {"service", "rebooting"}
      BY <1>0, <3>3, <3>4 DEF EchoInv, Tells
    <3> QED BY <3>3, <3>5 DEF Cmd
  <2>6. CASE SendInput \/ SendRest \/ ReadOutput
    <3>1. todo' = todo /\ (InputLen(Cmd) > 0 \/ HasOutput(Cmd))
      BY <2>6 DEF SendInput, SendRest, ReadOutput, DriverInv, PhaseInv
    <3>2. Cmd \notin {"INIT", "S_INIT"}
      BY <3>1 DEF InputLen, HasOutput
    <3> QED BY <3>1, <3>2 DEF Cmd
  <2>7. CASE ReadReady
    <3>1. phase = "ready" /\ todo' = todo
      BY <2>2, <2>7 DEF ReadReady
    <3> QED BY <1>2, <3>1 DEF Cmd
  <2>8. CASE Cancel \/ Lose \/ Closed \/ UNCHANGED vars
    BY <2>4, <2>8 DEF Cancel, Lose, Closed, vars, driver
  <2> QED BY <2>1, <2>3, <2>5, <2>6, <2>7, <2>8 DEF Next
<1> QED BY <1>1, <1>3, <1>4 DEF EchoInv

-----------------------------------------------------------------------------
(* A line without faults *)

\* An element behind none, one and two others.
LEMMA Appended ==
  ASSUME NEW S, NEW x \in S, NEW y \in S, NEW z \in S
  PROVE  Append(<<>>, x) = <<x>> /\ Append(<<x>>, y) = <<x, y>> /\ Append(<<x, y>>, z) = <<x, y, z>>
<1> DEFINE s0 == <<>>
           s1 == <<x>>
           s2 == <<x, y>>
           s3 == <<x, y, z>>
           a1 == Append(s0, x)
           a2 == Append(s1, y)
           a3 == Append(s2, z)
<1>1. s0 \in Seq(S) /\ s1 \in Seq(S) /\ s2 \in Seq(S) /\ s3 \in Seq(S)
  OBVIOUS
<1>2. Len(s0) = 0 /\ Len(s1) = 1 /\ Len(s2) = 2 /\ Len(s3) = 3
  OBVIOUS
<1>3. s1[1] = x /\ s2[1] = x /\ s2[2] = y /\ s3[1] = x /\ s3[2] = y /\ s3[3] = z
  OBVIOUS
<1>4. 1 .. 1 = {1} /\ 1 .. 2 = {1, 2} /\ 1 .. 3 = {1, 2, 3} /\ 0 + 1 = 1 /\ 1 + 1 = 2 /\ 2 + 1 = 3
  OBVIOUS
<1> HIDE DEF s0, s1, s2, s3
<1>5. a1 \in Seq(S) /\ Len(a1) = 1 /\ a1[1] = x
  BY <1>1, <1>2, <1>4, AppendProperties
<1>6. a2 \in Seq(S) /\ Len(a2) = 2 /\ a2[1] = s1[1] /\ a2[2] = y
  <2>1. /\ a2 \in Seq(S) /\ Len(a2) = Len(s1) + 1 /\ a2[Len(s1) + 1] = y
        /\ \A i \in 1 .. Len(s1) : a2[i] = s1[i]
    BY <1>1, AppendProperties
  <2> HIDE DEF a2
  <2> QED BY <1>2, <1>4, <2>1
<1>7. a3 \in Seq(S) /\ Len(a3) = 3 /\ a3[1] = s2[1] /\ a3[2] = s2[2] /\ a3[3] = z
  <2>1. /\ a3 \in Seq(S) /\ Len(a3) = Len(s2) + 1 /\ a3[Len(s2) + 1] = z
        /\ \A i \in 1 .. Len(s2) : a3[i] = s2[i]
    BY <1>1, AppendProperties
  <2> HIDE DEF a3
  <2> QED BY <1>2, <1>4, <2>1
<1> HIDE DEF a1, a2, a3
<1>8. a1 = s1
  BY <1>1, <1>2, <1>3, <1>4, <1>5, SeqEqual
<1>9. a2 = s2
  BY <1>1, <1>2, <1>3, <1>4, <1>6, SeqEqual
<1>10. a3 = s3
  <2>1. Len(a3) = Len(s3) /\ \A i \in 1 .. Len(a3) : a3[i] = s3[i]
    BY <1>2, <1>3, <1>4, <1>7
  <2> QED BY <1>1, <1>7, <2>1, SeqEqual
<1> QED BY <1>8, <1>9, <1>10 DEF s0, s1, s2, s3, a1, a2, a3

\* Short sequences.
LEMMA Shorts ==
  ASSUME NEW S, NEW x \in S, NEW y \in S, NEW z \in S
  PROVE  /\ <<x>> # <<>> /\ Head(<<x>>) = x /\ Tail(<<x>>) = <<>> /\ <<>> \o <<x>> = <<x>>
         /\ <<x, y>> # <<>> /\ Head(<<x, y>>) = x /\ Tail(<<x, y>>) = <<y>> /\ <<>> \o <<x, y>> = <<x, y>>
         /\ <<x, y, z>> # <<>> /\ Head(<<x, y, z>>) = x /\ Tail(<<x, y, z>>) = <<y, z>>
         /\ <<>> \o (<<x>> \o <<>> \o <<>>) = <<x>>
         /\ <<>> \o (<<x>> \o <<>> \o <<y>>) = <<x, y>>
         /\ <<>> \o Append(<<>>, x) = <<x>> /\ <<>> \o Append(<<x>>, y) = <<x, y>>
         /\ Append(<<>>, x) = <<x>> /\ Append(<<x>>, y) = <<x, y>>
         /\ Len(<<>>) = 0 /\ Len(<<x>>) = 1
<1>1. <<x>> # <<>> /\ <<x, y>> # <<>> /\ <<x, y, z>> # <<>>
  OBVIOUS
<1>2. Head(<<x>>) = x /\ Head(<<x, y>>) = x /\ Head(<<x, y, z>>) = x
  OBVIOUS
<1>3. Tail(<<x>>) = <<>>
  OBVIOUS
<1>4. Tail(<<x, y>>) = <<y>>
  OBVIOUS
<1>5. Tail(<<x, y, z>>) = <<y, z>>
  OBVIOUS
<1>6. /\ <<>> \o <<>> = <<>> /\ <<>> \o <<x>> = <<x>> /\ <<>> \o <<x, y>> = <<x, y>>
      /\ <<>> \o <<x, y, z>> = <<x, y, z>> /\ <<x>> \o <<>> = <<x>>
  <2>1. <<>> \in Seq(S) /\ <<x>> \in Seq(S) /\ <<x, y>> \in Seq(S) /\ <<x, y, z>> \in Seq(S)
    OBVIOUS
  <2> QED BY <2>1, ConcatEmptySeq
<1>7. <<x>> \o <<y>> = <<x, y>> /\ <<x, y>> \o <<z>> = <<x, y, z>>
  <2>1. <<x>> \in Seq(S) /\ <<x, y>> \in Seq(S)
    OBVIOUS
  <2>2. Append(<<x>>, y) = <<x, y>> /\ Append(<<x, y>>, z) = <<x, y, z>>
    BY Appended
  <2> QED BY <2>1, <2>2, AppendIsConcat
<1>8. <<>> \o (<<x>> \o <<>> \o <<>>) = <<x>> /\ <<>> \o (<<x>> \o <<>> \o <<y>>) = <<x, y>>
  BY <1>6, <1>7, Zenon
<1>10. Append(<<>>, x) = <<x>> /\ Append(<<x>>, y) = <<x, y>>
  BY Appended
<1>11. <<>> \o Append(<<>>, x) = <<x>> /\ <<>> \o Append(<<x>>, y) = <<x, y>>
  BY <1>6, <1>10, Zenon
<1>12. Len(<<>>) = 0 /\ Len(<<x>>) = 1
  OBVIOUS
<1> QED BY <1>1, <1>2, <1>3, <1>4, <1>5, <1>6, <1>7, <1>8, <1>10, <1>11, <1>12

LEMMA ThreeTokens ==
  ASSUME NEW x \in Tokens, NEW y \in Tokens, NEW z \in Tokens
  PROVE  <<>> \o (<<x>> \o <<y>> \o <<z>>) = <<x, y, z>>
<1> DEFINE T == Tokens
<1>1. x \in T /\ y \in T /\ z \in T
  OBVIOUS
<1> HIDE DEF T
<1>2. Append(<<x>>, y) = <<x, y>> /\ Append(<<x, y>>, z) = <<x, y, z>>
  BY <1>1, Appended
<1>3. <<x>> \in Seq(T) /\ <<x, y>> \in Seq(T) /\ <<x, y, z>> \in Seq(T)
  BY <1>1
<1>4. <<x>> \o <<y>> = <<x, y>>
  BY <1>1, <1>2, <1>3, AppendIsConcat
<1>5. <<x, y>> \o <<z>> = <<x, y, z>>
  BY <1>1, <1>2, <1>3, AppendIsConcat
<1>6. <<>> \o <<x, y, z>> = <<x, y, z>>
  BY <1>3, ConcatEmptySeq
<1> QED BY <1>4, <1>5, <1>6, Zenon

\* The transfer of a script is one that the mode the driver believes in has.
LEMMA TransferFacts ==
  ASSUME DriverInv, Busy, todo # <<>>
  PROVE  \/ /\ state = "OPEN" /\ Cmd = IF Target(op) = "SERVICE" THEN "S_INIT" ELSE "INIT"
            /\ op # "close" /\ ~inBody
         \/ /\ state \in {"DOWNLOAD", "SERVICE"} /\ Cmd \in Optional \cup Download \cup Service
            /\ Cmd \in Service => state = "SERVICE" /\ op # "close" /\ inBody
<1>1. Len(todo) \in Nat \ {0}
  BY TailFacts DEF DriverInv, DriverTypes
<1>2. 1 \in 1 .. Len(todo)
  BY <1>1
<1>3. CASE op # "close" /\ ~inBody
  <2>1. Cmd \in {"INIT", "S_INIT", "HARDWARE2", "HARDWARE", "IDENTITY"} /\ state \in States /\ state # "REBOOTING"
    BY <1>2, <1>3 DEF DriverInv, DriverTypes, OpeningInv, Only, Cmd
  <2>2. state = "OPEN" => Cmd = IF Target(op) = "SERVICE" THEN "S_INIT" ELSE "INIT"
    BY <1>3 DEF DriverInv, OpeningInv
  <2>3. state # "OPEN" => Cmd \notin {"INIT", "S_INIT"}
    BY <1>2, <1>3 DEF DriverInv, OpeningInv, Has, Cmd
  <2> QED BY <1>3, <2>1, <2>2, <2>3 DEF States, Optional, Download, Service
<1>4. CASE op # "close" /\ inBody
  <2>1. state \in {"DOWNLOAD", "SERVICE"}
    BY <1>4 DEF DriverInv, DriverTypes, BodyInv, States
  <2>2. /\ Target(op) = "SERVICE" => Cmd \in Service \cup {"DISPLAY"} /\ state = "SERVICE"
        /\ Target(op) # "SERVICE" => Cmd \in (Download \ {"EXIT", "IDENTITY"}) \cup {"COMPACT"}
    BY <1>2, <1>4, <2>1 DEF DriverInv, BodyInv, Only, Cmd, Target
  <2> QED BY <1>4, <2>1, <2>2 DEF Optional, Download, Service
<1>5. CASE op = "close"
  <2>1. Cmd = "EXIT" /\ state \in {"DOWNLOAD", "SERVICE"}
    BY <1>5 DEF DriverInv, ClosingInv
  <2> QED BY <2>1 DEF Download, Service
<1> QED BY <1>3, <1>4, <1>5

\* The device takes a command while the two are in step.
LEMMA CommandSent ==
  ASSUME DriverInv, DeviceInv, Busy, todo # <<>>, wire = <<>>, waits = None, Agree,
         Send(Token("cmd", Cmd, 0)), UNCHANGED <<state, todo>>
  PROVE  AtEcho' /\ flash' = flash /\ mode # "rebooting" /\ mode' # "rebooting"
         /\ UNCHANGED <<commands, hwos4>>
<1> DEFINE t == Token("cmd", Cmd, 0)
           e == Token("echo", Cmd, 0)
           r == ReadyToken(ExpectedMode)
<1>0. t.kind = "cmd" /\ t.cmd = Cmd /\ TakeCommand(t) /\ buf = <<>> /\ buf' = <<>>
      /\ UNCHANGED <<commands, hwos4>> /\ Cmd \in Commands
  <2>1. TakeCommand(t)
    BY DEF Send, TakeInput
  <2> QED BY <2>1, DriverSends DEF Token, TakeCommand, DeviceInv, Send
<1>1. e \in Tokens /\ r \in Tokens /\ Cmd' = Cmd /\ ExpectedMode' = ExpectedMode /\ Arg' = Arg
  BY <1>0, AnswerTokens DEF Modes, Cmd, Arg, ExpectedMode
<1>2. CASE state = "OPEN" /\ Cmd = IF Target(op) = "SERVICE" THEN "S_INIT" ELSE "INIT"
  <2>1. mode = "idle"
    BY <1>2 DEF Agree
  <2>2. /\ mode' = IF Cmd = "INIT" THEN "download" ELSE "service"
        /\ mode' = ExpectedMode
        /\ wire' = wire \o <<e, ReadyToken(ExpectedMode)>> /\ UNCHANGED <<waits, flash>>
    BY <1>0, <1>2, <2>1 DEF TakeCommand, Reply, ExpectedMode
  <2>3. wire' = <<e, r>>
    BY <1>1, <2>2, Shorts
  <2>4. InputLen(Cmd) = 0 /\ ~HasOutput(Cmd) /\ Cmd \notin Optional /\ Cmd # "EXIT" /\ Carried'
    BY <1>1, <1>2, <2>2 DEF InputLen, HasOutput, Optional, Carried
  <2>5. AtEcho'
    BY <1>1, <2>2, <2>3, <2>4 DEF AtEcho
  <2> QED BY <1>0, <1>2, <2>1, <2>2, <2>5
<1>3. CASE /\ state \in {"DOWNLOAD", "SERVICE"} /\ Cmd \in Optional \cup Download \cup Service
           /\ Cmd \in Service => state = "SERVICE"
  <2>1. mode \in {"download", "service"} /\ mode = ExpectedMode /\ (Cmd \in Service => mode = "service")
        /\ Cmd \notin {"INIT", "S_INIT"}
    BY <1>3 DEF Agree, ExpectedMode, Optional, Download, Service
  <2>2. ~(mode = "idle") /\ ~(mode = "rebooting")
    BY <2>1
  <2>3. CASE ~Known(Cmd)
    <3>1. wire' = wire \o <<ReadyToken(mode)>> /\ UNCHANGED <<mode, waits, flash>>
      BY <1>0, <2>1, <2>2, <2>3 DEF TakeCommand, Reply
    <3>2. wire' = <<r>>
      BY <1>1, <2>1, <3>1, Shorts
    <3>3. Cmd \in Optional /\ Cmd \notin commands
      BY <1>3, <2>1, <2>3 DEF Known, DeviceInv
    <3>4. Agree'
      BY <3>1 DEF Agree
    <3>5. AtEcho'
      BY <1>0, <1>1, <3>1, <3>2, <3>3, <3>4 DEF AtEcho, Lacking
    <3> QED BY <1>0, <2>2, <3>1, <3>5
  <2>4. CASE Known(Cmd) /\ InputLen(Cmd) > 0
    <3>1. wire' = wire \o <<e>> /\ waits' = Cmd /\ UNCHANGED <<flash, mode>>
      BY <1>0, <2>1, <2>2, <2>4 DEF TakeCommand, Reply
    <3>2. wire' = <<e>>
      BY <1>1, <3>1, Shorts
    <3>4. Agree'
      BY <3>1 DEF Agree
    <3>5. AtEcho'
      BY <1>0, <1>1, <2>4, <3>1, <3>2, <3>4 DEF AtEcho
    <3> QED BY <1>0, <2>2, <3>1, <3>5
  <2>5. CASE Known(Cmd) /\ ~(InputLen(Cmd) > 0)
    <3> DEFINE z == IF Cmd = "EXIT" THEN <<>> ELSE <<ReadyToken(mode)>>
    <3>1. Effect(Cmd, 0) /\ UNCHANGED waits /\ wire' = wire \o (<<e>> \o Output(Cmd, 0) \o z)
      BY <1>0, <2>1, <2>2, <2>5 DEF TakeCommand, Reply
    <3>2. InputLen(Cmd) = 0 /\ Cmd \notin Blocked \cup {"S_UPGRADE", "S_ERASE"}
      <4>1. InputLen(Cmd) = 0
        BY <2>5, CommandFacts
      <4> QED BY <4>1 DEF InputLen, Blocked
    <3>3. flash' = flash /\ mode' = IF Cmd = "EXIT" THEN "idle" ELSE mode
      BY <1>0, <3>1, <3>2, EffectDevice DEF Blocked
    <3>4. Carried'
      BY <1>1, <2>1, <3>2, <3>3 DEF Carried, Agree
    <3>5. Cmd \in Optional => Cmd \in commands
      BY <2>5 DEF Known, Optional, Service
    <3>6. Output(Cmd, 0) = (IF HasOutput(Cmd) THEN <<Data>> ELSE <<>>) /\ Data' = Data
      BY <1>0, <1>1, <3>2, <3>3 DEF Output, Data, Blocked, HasOutput
    <3>7. Data \in Tokens
      <4>1. Cmd \in Words
        BY <1>0 DEF Words
      <4> QED BY <3>2, <4>1 DEF Data, Token, Tokens, Blocked
    <3>8. z = (IF Cmd = "EXIT" THEN <<>> ELSE <<r>>) /\ (Cmd = "EXIT" => ~HasOutput(Cmd))
      BY <2>1 DEF HasOutput
    <3>9. wire' = IF HasOutput(Cmd) THEN <<e, Data, r>> ELSE IF Cmd = "EXIT" THEN <<e>> ELSE <<e, r>>
      <4> DEFINE D == Data
                 O == Output(Cmd, 0)
      <4>0. D \in Tokens /\ O = IF HasOutput(Cmd) THEN <<D>> ELSE <<>>
        BY <3>6, <3>7
      <4> HIDE DEF e, r, z, D, O
      <4>1. CASE HasOutput(Cmd)
        <5>1. wire' = <<>> \o (<<e>> \o <<D>> \o <<r>>)
          BY <3>1, <3>8, <4>0, <4>1 DEF O
        <5>2. e \in Tokens /\ D \in Tokens /\ r \in Tokens
          BY <1>1, <4>0
        <5>3. <<>> \o (<<e>> \o <<D>> \o <<r>>) = <<e, D, r>>
          BY <5>2, ThreeTokens
        <5> QED BY <4>1, <5>1, <5>3 DEF D
      <4>2. CASE ~HasOutput(Cmd) /\ Cmd = "EXIT"
        <5>1. wire' = <<>> \o (<<e>> \o <<>> \o <<>>)
          BY <3>1, <3>8, <4>0, <4>2 DEF O
        <5>2. wire' = <<e>>
          BY <1>1, <5>1, Shorts
        <5> QED BY <4>2, <5>2
      <4>3. CASE ~HasOutput(Cmd) /\ Cmd # "EXIT"
        <5>1. wire' = <<>> \o (<<e>> \o <<>> \o <<r>>)
          BY <3>1, <3>8, <4>0, <4>3 DEF O
        <5>2. <<>> \o (<<e>> \o <<>> \o <<r>>) = <<e, r>>
          <6>1. e \in Tokens /\ r \in Tokens
            BY <1>1
          <6> QED BY <6>1, Shorts
        <5> QED BY <4>3, <5>1, <5>2
      <4> QED BY <4>1, <4>2, <4>3
    <3>10. AtEcho'
      BY <1>0, <1>1, <3>1, <3>2, <3>4, <3>5, <3>6, <3>9 DEF AtEcho
    <3> QED BY <1>0, <2>2, <3>3, <3>10
  <2> QED BY <2>3, <2>4, <2>5
<1> QED BY <1>2, <1>3, TransferFacts

\* The device takes the last token of the input it waits for.
LEMMA InputSent ==
  ASSUME DriverInv, DeviceInv, Busy, todo # <<>>, wire = <<>>, waits = Cmd, Agree,
         InputLen(Cmd) > 0, Len(buf) + 1 = InputLen(Cmd),
         buf = <<>> \/ buf = <<Token("input", Cmd, Arg)>>,
         Send(Token("input", Cmd, Arg)), UNCHANGED <<state, todo>>
  PROVE  /\ Effect(Cmd, Arg) /\ waits' = None /\ Carried'
         /\ wire' = IF HasOutput(Cmd) THEN <<Data', ReadyToken(ExpectedMode')>>
                    ELSE <<ReadyToken(ExpectedMode')>>
         /\ mode # "rebooting" /\ (mode' = "rebooting" => Cmd = "S_UPGRADE")
         /\ Cmd \notin Optional /\ UNCHANGED <<commands, hwos4>>
<1> DEFINE t == Token("input", Cmd, Arg)
           r == ReadyToken(ExpectedMode)
<1>0. t.kind = "input" /\ t.cmd = Cmd /\ t.arg = Arg /\ t \in Sent /\ Cmd \in Commands /\ Arg \in Nat
      /\ (Cmd \in Blocked => Arg \in 1 .. Blocks) /\ Cmd # None
  BY DriverSends, CommandFacts DEF Token, Sent
<1>1. TakeInput(t) /\ UNCHANGED <<commands, hwos4>>
  BY <1>0 DEF Send, TakeCommand
<1>2. Right(Cmd, Append(buf, t))
  <2>1. CASE buf = <<>>
    <3>1. Append(buf, t) = <<t>>
      BY <1>0, <2>1, Shorts
    <3> QED BY <1>0, <3>1 DEF Right
  <2>2. CASE buf = <<t>>
    <3> HIDE DEF t
    <3>1. Append(buf, t) = <<t, t>>
      <4>1. Append(<<t>>, t) = <<t, t>>
        BY <1>0, Appended
      <4> QED BY <2>2, <4>1
    <3>2. DOMAIN <<t, t>> = {1, 2} /\ <<t, t>>[1] = t /\ <<t, t>>[2] = t
      OBVIOUS
    <3>3. \A i \in DOMAIN <<t, t>> : <<t, t>>[i] = t
      BY <3>2
    <3> QED BY <1>0, <3>1, <3>3 DEF Right
  <2> QED BY <2>1, <2>2
<1>3. Effect(Cmd, Arg) /\ waits' = None /\ wire' = wire \o Append(Output(Cmd, Arg), ReadyToken(mode))
  <2>1. ~(Len(buf) + 1 < InputLen(waits))
    BY CommandFacts
  <2> HIDE DEF t
  <2> QED BY <1>0, <1>1, <1>2, <2>1 DEF TakeInput, Reply
<1>4. Cmd \notin Optional \cup {"INIT", "S_INIT", "EXIT"}
  BY DEF InputLen, Optional
<1>5. state \in {"DOWNLOAD", "SERVICE"} /\ (Cmd \in Service => state = "SERVICE")
  BY <1>4, TransferFacts
<1>6. mode \in {"download", "service"} /\ mode = ExpectedMode /\ (Cmd \in Service => mode = "service")
  BY <1>4, <1>5 DEF Agree, ExpectedMode
<1>7. /\ Cmd \notin {"S_ERASE", "S_BLOCK_WRITE", "S_UPLOAD"} => flash' = flash
      /\ mode' = IF Cmd = "S_UPGRADE" THEN "rebooting" ELSE mode
  BY <1>0, <1>3, <1>4, EffectDevice
<1>8. Cmd' = Cmd /\ Arg' = Arg /\ ExpectedMode' = ExpectedMode
  BY DEF Cmd, Arg, ExpectedMode
<1>9. Carried'
  BY <1>4, <1>5, <1>7, <1>8 DEF Carried, Agree
<1>10. wire' = IF HasOutput(Cmd) THEN <<Data', r>> ELSE <<r>>
  <2>1. r \in Tokens
    BY <1>6, AnswerTokens DEF Modes
  <2>2. CASE HasOutput(Cmd)
    <3> DEFINE D == Data
    <3>1. Data' = D
      BY <1>1, <1>7, <1>8, <2>2 DEF Data, HasOutput
    <3>2. Output(Cmd, Arg) = <<D>>
      BY <1>4, <2>2 DEF Output, Data, Optional
    <3>3. D \in Tokens
      <4>1. Cmd \in Words
        BY <1>0 DEF Words
      <4>2. Cmd \in {"S_BLOCK_READ", "S_FWINFO"} => flash[Arg] \in Words
        <5>1. Cmd \in {"S_BLOCK_READ", "S_FWINFO"} => Arg \in 1 .. Blocks
          BY <1>0 DEF Blocked
        <5> QED BY <5>1 DEF DeviceInv, Words
      <4> QED BY <1>0, <4>1, <4>2 DEF Data, Token, Tokens
    <3>4. wire' = <<>> \o Append(<<D>>, r)
      BY <1>3, <1>6, <3>2
    <3> HIDE DEF D, r
    <3>5. <<>> \o Append(<<D>>, r) = <<D, r>>
      BY <2>1, <3>3, Shorts
    <3> QED BY <2>2, <3>1, <3>4, <3>5
  <2>3. CASE ~HasOutput(Cmd)
    <3>1. Output(Cmd, Arg) = <<>>
      BY <2>3 DEF Output, HasOutput
    <3>2. wire' = <<>> \o Append(<<>>, r)
      BY <1>3, <1>6, <3>1
    <3> HIDE DEF r
    <3>3. <<>> \o Append(<<>>, r) = <<r>>
      BY <2>1, Shorts
    <3> QED BY <2>3, <3>2, <3>3
  <2> QED BY <2>2, <2>3
<1> QED BY <1>1, <1>3, <1>4, <1>6, <1>7, <1>8, <1>9, <1>10

\* Nothing of what StepInv speaks of changes.
LEMMA StepStays ==
  ASSUME StepInv, UNCHANGED <<state, todo, phase, answer, op, device, wire>>
  PROVE  StepInv'
<1>1. /\ Cmd' = Cmd /\ Arg' = Arg /\ Agree' = Agree /\ ExpectedMode' = ExpectedMode
      /\ UNCHANGED <<mode, waits, buf, flash, commands, hwos4>>
  BY DEF Cmd, Arg, Agree, ExpectedMode, device
<1>2. Carried' = Carried /\ Data' = Data /\ Lacking' = Lacking /\ Between' = Between
  BY <1>1 DEF Carried, Data, Lacking, Between
<1>3. AtEcho' = AtEcho
  BY <1>1, <1>2 DEF AtEcho
<1> QED BY <1>1, <1>2, <1>3 DEF StepInv

\* Between two transfers, before the next operation or after the last.
LEMMA StepBetween ==
  ASSUME phase' \in {"idle", "next", "closed"}, wire' = <<>>, waits' = None,
         IF op' = "close" /\ todo' = <<>>
           THEN mode' = IF state' = "REBOOTING" THEN "rebooting" ELSE "idle"
           ELSE Agree'
  PROVE  StepInv'
  BY DEF StepInv, Between

\* A transfer that cannot be made, or is not wanted, leaves the two in step.
LEMMA StepFails ==
  ASSUME NEW s, Fails(s), op' = op, op # "close", Agree, wire' = <<>>, waits = None,
         UNCHANGED <<state, device>>
  PROVE  StepInv'
<1>1. phase' \in {"idle", "next", "closed"}
  BY DEF Fails, Finish
<1>2. Agree' /\ waits' = None
  BY DEF Agree, device
<1> QED BY <1>1, <1>2, StepBetween

\* Nothing comes late and nothing is lost: while the driver reads, there is
\* something to read.
LEMMA NoFault ==
  ASSUME DriverInv, DeviceInv, StepInv, faults = 0, faults' = 0
  PROVE  ~Timeout /\ ~Lose
<1>1. ~Lose
  BY DEF Lose
<1>2. ASSUME Timeout PROVE FALSE
  <2>1. phase \in {"echo", "output", "ready"} /\ wire = <<>>
    BY <1>2 DEF Timeout
  <2>2. ReadyToken(ExpectedMode) \in Tokens
    BY AnswerTokens DEF Modes, ExpectedMode
  <2>3. \A x, y, z : <<x>> # <<>> /\ <<x, y>> # <<>> /\ <<x, y, z>> # <<>>
    OBVIOUS
  <2> QED BY <2>1, <2>3 DEF StepInv, AtEcho, Lacking
<1> QED BY <1>1, <1>2

\* What the driver reads for an echo: a device that lacks the command sends the
\* ready byte alone, any other the echo.
LEMMA EchoRead ==
  ASSUME DriverInv, DeviceInv, StepInv, ReadEcho
  PROVE  \/ /\ Lacking /\ Fails("UNSUPPORTED") /\ wire' = <<>>
            /\ phase' = "next" /\ todo' = Tail(todo) /\ UNCHANGED status
         \/ /\ phase' = AfterEcho(Cmd) /\ UNCHANGED <<todo, answer, status>>
            /\ InputLen(Cmd) > 0 => wire' = <<>> /\ waits = Cmd /\ buf = <<>> /\ Agree
            /\ InputLen(Cmd) = 0 =>
                 /\ waits = None /\ Carried /\ (Cmd \in Optional => Cmd \in commands)
                 /\ wire' = IF HasOutput(Cmd) THEN <<Data, ReadyToken(ExpectedMode)>>
                            ELSE IF Cmd = "EXIT" THEN <<>> ELSE <<ReadyToken(ExpectedMode)>>
<1> DEFINE e == Token("echo", Cmd, 0)
           r == ReadyToken(ExpectedMode)
           d == Data
           h == Head(wire)
<1>0. Busy /\ todo # <<>> /\ phase = "echo" /\ wire # <<>> /\ wire' = Tail(wire)
  BY DEF ReadEcho, Busy, DriverInv, PhaseInv
<1>1. Head(todo) = todo[1] /\ todo[1] \in Items /\ Cmd \in Commands /\ Head(todo).cmd = Cmd
  BY <1>0, DriverSends DEF Cmd
<1>2. Expected = ExpectedMode
  BY <1>1 DEF Expected, ExpectedMode
<1>3. IF h.kind = "echo" /\ h.cmd = Cmd
        THEN phase' = AfterEcho(Cmd) /\ UNCHANGED <<todo, answer, status>>
        ELSE Fails(IF Cmd # "S_INIT" /\ h = r THEN "UNSUPPORTED" ELSE "PROTOCOL")
  BY <1>1, <1>2 DEF ReadEcho
<1>4. e.kind = "echo" /\ e.cmd = Cmd /\ r.kind = "ready"
  BY DEF Token, ReadyToken
<1>5. \A x : Head(<<x>>) = x /\ Tail(<<x>>) = <<>>
  BY Shorts
<1>6. \A x, y : Head(<<x, y>>) = x /\ Tail(<<x, y>>) = <<y>>
  OBVIOUS
<1>7. \A x, y, z : Head(<<x, y, z>>) = x /\ Tail(<<x, y, z>>) = <<y, z>>
  OBVIOUS
<1>8. AtEcho
  BY <1>0 DEF StepInv
<1>9. CASE Lacking
  <2>1. wire = <<r>> /\ Cmd \in Optional
    BY <1>9 DEF Lacking
  <2> HIDE DEF r
  <2>2. h = r /\ wire' = <<>>
    BY <1>0, <1>5, <2>1
  <2>3. Cmd # "S_INIT" /\ todo[1].fallback
    BY <1>1, <2>1 DEF Optional, Items, Cmd
  <2>4. Fails("UNSUPPORTED")
    BY <1>3, <1>4, <2>2, <2>3
  <2>5. phase' = "next" /\ todo' = Tail(todo) /\ UNCHANGED status
    BY <1>1, <2>3, <2>4 DEF Fails
  <2> QED BY <1>9, <2>2, <2>4, <2>5
<1>10. CASE InputLen(Cmd) > 0 /\ waits = Cmd /\ buf = <<>> /\ Agree /\ wire = <<e>>
  <2> HIDE DEF e
  <2>1. h = e /\ wire' = <<>>
    BY <1>0, <1>5, <1>10
  <2>2. phase' = AfterEcho(Cmd) /\ UNCHANGED <<todo, answer, status>>
    BY <1>3, <1>4, <2>1
  <2> QED BY <1>10, <2>1, <2>2
<1>11. CASE /\ InputLen(Cmd) = 0 /\ waits = None /\ Carried
            /\ Cmd \in Optional => Cmd \in commands
            /\ wire = IF HasOutput(Cmd) THEN <<e, d, r>> ELSE IF Cmd = "EXIT" THEN <<e>> ELSE <<e, r>>
  <2> HIDE DEF e, r, d
  <2>1. h = e /\ wire' = IF HasOutput(Cmd) THEN <<d, r>> ELSE IF Cmd = "EXIT" THEN <<>> ELSE <<r>>
    BY <1>0, <1>5, <1>6, <1>7, <1>11
  <2>2. phase' = AfterEcho(Cmd) /\ UNCHANGED <<todo, answer, status>>
    BY <1>3, <1>4, <2>1
  <2> QED BY <1>11, <2>1, <2>2 DEF d, r
<1> QED BY <1>8, <1>9, <1>10, <1>11 DEF AtEcho

\* Every step keeps the two in step.
LEMMA StepStep ==
  ASSUME DriverInv, DeviceInv, StepInv, [Next]_vars, faults = 0, faults' = 0
  PROVE  StepInv'
<1>1. ASSUME NEW o \in Operations, Call(o) PROVE StepInv'
  <2>1. phase = "idle" /\ op # "close" /\ phase' \in {"idle", "next"} /\ op' = o /\ o # "close"
        /\ UNCHANGED <<state, device, wire>>
    BY <1>1 DEF Call, DriverInv, ClosingInv, Operations, link
  <2>2. Between
    BY <2>1 DEF StepInv
  <2>3. wire' = <<>> /\ waits' = None /\ Agree'
    BY <2>1, <2>2 DEF Between, Agree, device
  <2> QED BY <2>1, <2>3, StepBetween
<1>2. ASSUME Close PROVE StepInv'
  <2>1. phase = "idle" /\ op # "close" /\ phase' = "next" /\ op' = "close"
        /\ UNCHANGED <<state, device, wire>>
        /\ todo' = IF state \in {"DOWNLOAD", "SERVICE"} THEN <<Must("EXIT", 0)>> ELSE <<>>
    BY <1>2 DEF Close, DriverInv, ClosingInv, link
  <2>2. Between /\ state \in States
    BY <2>1 DEF StepInv, DriverInv, DriverTypes
  <2>3. wire' = <<>> /\ waits' = None /\ Agree' /\ Agree
    BY <2>1, <2>2 DEF Between, Agree, device
  <2>4. todo' = <<>> => state \notin {"DOWNLOAD", "SERVICE"}
    <3>1. <<Must("EXIT", 0)>> # <<>>
      OBVIOUS
    <3> QED BY <2>1, <3>1
  <2>5. todo' = <<>> => mode' = IF state' = "REBOOTING" THEN "rebooting" ELSE "idle"
    BY <2>1, <2>2, <2>3, <2>4 DEF Agree, States, device
  <2> QED BY <2>1, <2>3, <2>5, StepBetween
<1>3. CASE Cancel \/ Closed \/ UNCHANGED vars
  BY <1>3, StepStays DEF Cancel, Closed, vars, driver, link
<1>4. ASSUME Advance PROVE StepInv'
  <2>1. phase = "next" /\ todo = <<>> /\ op' = op /\ UNCHANGED <<state, device, wire>>
    BY <1>4 DEF Advance, link
  <2>2. Between
    BY <2>1 DEF StepInv
  <2>3. op = "close" => inBody
    BY DEF DriverInv, ClosingInv
  <2>4. phase' \in {"idle", "next", "closed"} /\ (op = "close" => todo' = <<>>)
    BY <1>4, <2>3 DEF Advance, Finish
  <2>5. wire' = <<>> /\ waits' = None
    BY <2>1, <2>2 DEF Between, device
  <2>6. IF op' = "close" /\ todo' = <<>>
          THEN mode' = IF state' = "REBOOTING" THEN "rebooting" ELSE "idle"
          ELSE Agree'
    BY <2>1, <2>2, <2>4 DEF Between, Agree, device
  <2> QED BY <2>4, <2>5, <2>6, StepBetween
<1>5. ASSUME Begin PROVE StepInv'
  <2>1. phase = "next" /\ todo # <<>> /\ Busy /\ UNCHANGED <<state, op>>
    BY <1>5 DEF Begin, Busy
  <2>2. wire = <<>> /\ waits = None /\ Agree
    BY <2>1 DEF StepInv, Between
  <2>3. CASE cancelled
    <3>1. op # "close" /\ Fails("CANCELLED") /\ UNCHANGED <<device, wire>>
      BY <1>5, <2>3 DEF Begin, DriverInv, ClosingInv
    <3> QED BY <2>1, <2>2, <3>1, StepFails
  <2>4. CASE ~cancelled
    <3>1. Send(Token("cmd", Head(todo).cmd, 0)) /\ phase' = "echo" /\ UNCHANGED todo
      BY <1>5, <2>4 DEF Begin
    <3>2. Head(todo).cmd = Cmd
      BY <2>1, DriverSends DEF Cmd
    <3>3. AtEcho'
      BY <2>1, <2>2, <3>1, <3>2, CommandSent
    <3> QED BY <3>1, <3>3 DEF StepInv
  <2> QED BY <2>3, <2>4
<1>6. ASSUME ReadEcho PROVE StepInv'
  <2>1. Busy /\ todo # <<>> /\ phase = "echo" /\ UNCHANGED <<state, op, device>>
    BY <1>6 DEF ReadEcho, Busy, DriverInv, PhaseInv
  <2>2. CASE Lacking /\ Fails("UNSUPPORTED") /\ wire' = <<>>
    <3>1. op # "close"
      BY <2>1, <2>2 DEF Lacking, DriverInv, ClosingInv, Optional
    <3> QED BY <2>1, <2>2, <3>1, StepFails DEF Lacking
  <2>3. CASE /\ phase' = AfterEcho(Cmd) /\ UNCHANGED <<todo, answer, status>>
             /\ InputLen(Cmd) > 0 => wire' = <<>> /\ waits = Cmd /\ buf = <<>> /\ Agree
             /\ InputLen(Cmd) = 0 =>
                  /\ waits = None /\ Carried /\ (Cmd \in Optional => Cmd \in commands)
                  /\ wire' = IF HasOutput(Cmd) THEN <<Data, ReadyToken(ExpectedMode)>>
                             ELSE IF Cmd = "EXIT" THEN <<>> ELSE <<ReadyToken(ExpectedMode)>>
    <3>1. /\ Cmd' = Cmd /\ Agree' = Agree /\ Carried' = Carried /\ Data' = Data
          /\ ExpectedMode' = ExpectedMode /\ UNCHANGED <<waits, buf, commands>>
      BY <2>1, <2>3 DEF Cmd, Arg, Agree, Carried, Data, ExpectedMode, device
    <3>2. CASE InputLen(Cmd) > 0
      <4>1. phase' = "input"
        BY <2>3, <3>2 DEF AfterEcho
      <4> QED BY <2>3, <3>1, <3>2, <4>1 DEF StepInv
    <3>3. CASE InputLen(Cmd) = 0
      <4>1. phase' = IF HasOutput(Cmd) THEN "output" ELSE IF Cmd = "EXIT" THEN "done" ELSE "ready"
        BY <2>3, <3>3 DEF AfterEcho
      <4>2. CASE HasOutput(Cmd)
        BY <2>3, <3>1, <3>3, <4>1, <4>2 DEF StepInv
      <4>3. CASE ~HasOutput(Cmd)
        BY <2>3, <3>1, <3>3, <4>1, <4>3 DEF StepInv
      <4> QED BY <4>2, <4>3
    <3> QED BY <3>2, <3>3, CommandFacts
  <2> QED BY <1>6, <2>2, <2>3, EchoRead
<1>7. ASSUME SendInput PROVE StepInv'
  <2>1. /\ Busy /\ todo # <<>> /\ phase = "input" /\ UNCHANGED <<state, op, todo, answer>>
        /\ InputLen(Cmd) > 0
    BY <1>7 DEF SendInput, Busy, DriverInv, PhaseInv
  <2>2. Head(todo).cmd = Cmd /\ Head(todo).arg = Arg
    BY <2>1, DriverSends DEF Cmd, Arg
  <2>3. wire = <<>> /\ waits = Cmd /\ buf = <<>> /\ Agree
    BY <2>1 DEF StepInv
  <2>4. Send(Token("input", Cmd, Arg))
        /\ phase' = IF InputLen(Cmd) = 2 THEN "input2" ELSE IF HasOutput(Cmd) THEN "output" ELSE "ready"
    BY <1>7, <2>2 DEF SendInput
  <2>5. Len(buf) = 0
    BY <2>3
  <2>6. CASE InputLen(Cmd) = 2
    <3> DEFINE t == Token("input", Cmd, Arg)
    <3>1. waits # None /\ Len(buf) + 1 < InputLen(waits)
      BY <2>1, <2>3, <2>5, <2>6, DriverSends, CommandFacts
    <3>2. buf' = Append(buf, t) /\ UNCHANGED <<waits, flash, mode, wire>>
      BY <2>4, <3>1 DEF Send, TakeInput, TakeCommand
    <3>3. t \in Sent
      BY <2>1, DriverSends
    <3> HIDE DEF t
    <3>4. Append(<<>>, t) = <<t>>
      BY <3>3, Appended
    <3>5. buf' = <<t>> /\ phase' = "input2"
      BY <2>3, <2>4, <2>6, <3>2, <3>4
    <3>6. Cmd' = Cmd /\ Arg' = Arg /\ Agree'
      BY <2>1, <2>3, <3>2 DEF Cmd, Arg, Agree
    <3> QED BY <2>3, <3>2, <3>5, <3>6 DEF StepInv, t
  <2>7. CASE InputLen(Cmd) # 2
    <3>1. Len(buf) + 1 = InputLen(Cmd)
      BY <2>1, <2>5, <2>7, CommandFacts
    <3>2. /\ waits' = None /\ Carried' /\ Cmd \notin Optional
          /\ wire' = IF HasOutput(Cmd) THEN <<Data', ReadyToken(ExpectedMode')>>
                     ELSE <<ReadyToken(ExpectedMode')>>
      BY <2>1, <2>3, <2>4, <3>1, InputSent
    <3>3. Cmd' = Cmd
      BY <2>1 DEF Cmd
    <3>4. CASE HasOutput(Cmd)
      BY <2>4, <2>7, <3>2, <3>3, <3>4 DEF StepInv
    <3>5. CASE ~HasOutput(Cmd)
      BY <2>4, <2>7, <3>2, <3>3, <3>5 DEF StepInv
    <3> QED BY <3>4, <3>5
  <2> QED BY <2>6, <2>7
<1>8. ASSUME SendRest PROVE StepInv'
  <2>1. /\ Busy /\ todo # <<>> /\ phase = "input2" /\ phase' = "ready" /\ InputLen(Cmd) = 2
        /\ UNCHANGED <<state, op, todo, answer>>
    BY <1>8 DEF SendRest, Busy, DriverInv, PhaseInv
  <2>2. Head(todo).cmd = Cmd /\ Head(todo).arg = Arg
    BY <2>1, DriverSends DEF Cmd, Arg
  <2>3. wire = <<>> /\ waits = Cmd /\ buf = <<Token("input", Cmd, Arg)>> /\ Agree
    BY <2>1 DEF StepInv
  <2>4. Send(Token("input", Cmd, Arg))
    BY <1>8, <2>2 DEF SendRest
  <2>5. Len(buf) + 1 = InputLen(Cmd) /\ InputLen(Cmd) > 0
    BY <2>1, <2>3, Shorts
  <2>6. ~HasOutput(Cmd)
    BY <2>1, CommandFacts
  <2>7. waits' = None /\ Carried' /\ Cmd \notin Optional /\ wire' = <<ReadyToken(ExpectedMode')>>
    BY <2>1, <2>3, <2>4, <2>5, <2>6, InputSent
  <2>8. Cmd' = Cmd
    BY <2>1 DEF Cmd
  <2> QED BY <2>1, <2>6, <2>7, <2>8 DEF StepInv
<1>9. CASE ReadOutput \/ ReadReady
  <2>0. todo # <<>> /\ Busy /\ UNCHANGED <<state, op, device>>
    BY <1>9 DEF ReadOutput, ReadReady, Busy, DriverInv, PhaseInv
  <2> DEFINE d == Data
             r == ReadyToken(ExpectedMode)
  <2>1. Head(<<d, r>>) = d /\ Tail(<<d, r>>) = <<r>> /\ Head(<<r>>) = r /\ Tail(<<r>>) = <<>>
    BY Shorts
  <2>2. waits = None /\ Carried /\ (Cmd \in Optional => Cmd \in commands)
    BY <1>9 DEF StepInv, ReadOutput, ReadReady
  <2>3. Expected = ExpectedMode
    BY <2>0, DriverSends DEF Expected, ExpectedMode, Cmd
  <2>4. CASE ReadOutput
    <3>1. phase = "output" /\ phase' = "ready" /\ answer' = Head(wire) /\ wire' = Tail(wire) /\ todo' = todo
      BY <2>4 DEF ReadOutput
    <3>2. wire = <<d, r>>
      BY <3>1 DEF StepInv
    <3> HIDE DEF d, r
    <3>3. answer' = d /\ wire' = <<r>>
      BY <2>1, <3>1, <3>2
    <3>4. /\ Cmd' = Cmd /\ Carried' = Carried /\ Data' = Data
          /\ ExpectedMode' = ExpectedMode /\ UNCHANGED <<waits, commands>>
      BY <2>0, <3>1 DEF Cmd, Arg, Agree, Carried, Data, ExpectedMode, device
    <3> QED BY <2>2, <3>1, <3>3, <3>4 DEF StepInv, d, r
  <2>5. CASE ReadReady
    <3>1. phase = "ready" /\ wire' = Tail(wire)
      BY <2>5 DEF ReadReady
    <3>2. wire = <<r>>
      BY <3>1 DEF StepInv
    <3> HIDE DEF r
    <3>3. Head(wire) = r /\ wire' = <<>>
      BY <2>1, <3>1, <3>2
    <3>4. phase' = "done" /\ UNCHANGED <<todo, answer>>
      BY <2>3, <2>5, <3>3 DEF ReadReady, r
    <3>5. /\ Cmd' = Cmd /\ Carried' = Carried /\ Data' = Data /\ UNCHANGED <<waits, commands>>
      BY <2>0, <3>4 DEF Cmd, Arg, Agree, Carried, Data, device
    <3>6. HasOutput(Cmd) => answer = Data
      BY <3>1 DEF StepInv
    <3> QED BY <2>2, <3>3, <3>4, <3>5, <3>6 DEF StepInv
  <2> QED BY <1>9, <2>4, <2>5
<1>10. ASSUME Complete PROVE StepInv'
  <2>1. todo # <<>> /\ Busy /\ phase = "done" /\ phase' = "next" /\ UNCHANGED <<op, device, wire>>
    BY <1>10 DEF Complete, Busy, DriverInv, PhaseInv, link
  <2>2. wire = <<>> /\ waits = None /\ Carried
    BY <2>1 DEF StepInv
  <2>3. state' = NewState(Cmd)
    BY <1>10, <2>1, DriverSends DEF Complete, Cmd
  <2>4. op = "close" => Cmd = "EXIT" /\ todo' = <<>>
    <3>1. op = "close" => ~VerifyFailed
      BY DEF VerifyFailed
    <3>2. op = "close" => Cmd = "EXIT" /\ Len(todo) = 1
      BY <2>1 DEF DriverInv, ClosingInv
    <3>3. DriverInv'
      BY <1>10, CompleteDriver
    <3>4. ASSUME op = "close" PROVE todo' = <<>>
      <4>1. todo' = Tail(todo)
        BY <1>10, <2>1, <3>1, <3>2, <3>4, CompleteRest
      <4>2. Tail(todo) \in Seq(Items) /\ Len(Tail(todo)) = 0
        BY <2>1, <3>2, <3>4, TailFacts DEF DriverInv, DriverTypes
      <4> QED BY <4>1, <4>2, EmptySeq
    <3> QED BY <3>2, <3>4
  <2>5. Cmd = "EXIT" => op = "close"
    BY <2>1, DriverSends
  <2>6. op # "close" => Agree'
    BY <2>1, <2>2, <2>3, <2>5 DEF Carried, Agree, NewState, device
  <2>7. op = "close" => mode' = "idle" /\ state' # "REBOOTING"
    <3>1. op = "close" => state \in {"DOWNLOAD", "SERVICE"}
      BY <2>1 DEF DriverInv, ClosingInv
    <3> QED BY <2>1, <2>2, <2>3, <2>4, <3>1 DEF Carried, NewState, device
  <2>8. wire' = <<>> /\ waits' = None
    BY <2>1, <2>2 DEF device
  <2> QED BY <2>1, <2>4, <2>6, <2>7, <2>8, StepBetween
<1> QED BY <1>1, <1>2, <1>3, <1>4, <1>5, <1>6, <1>7, <1>8, <1>9, <1>10, NoFault DEF Next

\* The first transfer of a script that is neither ignored nor has an
\* alternative is not passed over.
LEMMA FailsScript ==
  ASSUME DriverInv, Busy, todo # <<>>, NEW s, Fails(s)
  PROVE  \/ phase' \in {"idle", "closed"} /\ todo' = <<>> /\ status' = s
         \/ /\ phase' = "next" /\ todo' = Tail(todo) /\ UNCHANGED status
            /\ Cmd = "DISPLAY" \/ (Cmd \in Optional /\ s = "UNSUPPORTED")
<1>1. Head(todo) = todo[1] /\ todo[1] \in Items
  BY DriverSends
<1>2. todo[1].ignored => Cmd = "DISPLAY"
  BY <1>1 DEF Items, Cmd
<1>3. todo[1].fallback => Cmd \in Optional
  BY <1>1 DEF Items, Cmd
<1> QED BY <1>1, <1>2, <1>3 DEF Fails, Finish

\* Every step leaves the kind of the device and its commands alone.
LEMMA KindStays ==
  ASSUME DriverInv, DeviceInv, [Next]_vars
  PROVE  UNCHANGED <<commands, hwos4>>
  BY LineStep DEF Send, device

\* A step that does not touch what KnownInv speaks of, but for the script.
LEMMA KnownStays ==
  ASSUME KnownInv, UNCHANGED <<hardware, hwos4>>,
         Busy' /\ op' # "close" /\ ~inBody' =>
           /\ Busy /\ UNCHANGED <<op, inBody, seen>>
           /\ Has(todo, "HARDWARE") /\ ~Has(todo', "HARDWARE") => ~hwos4
  PROVE  KnownInv'
<1>1. CASE Busy' /\ op' # "close" /\ ~inBody'
  BY <1>1 DEF KnownInv
<1>2. CASE ~(Busy' /\ op' # "close" /\ ~inBody')
  BY <1>2 DEF KnownInv
<1> QED BY <1>1, <1>2

LEMMA KnownFails ==
  ASSUME DriverInv, KnownInv, Busy, todo # <<>>, NEW s, Fails(s),
         Cmd = "HARDWARE" /\ s = "UNSUPPORTED" => ~hwos4,
         UNCHANGED <<hardware, hwos4, op, inBody, seen>>
  PROVE  KnownInv'
<1>1. CASE phase' \in {"idle", "closed"}
  BY <1>1, KnownStays DEF Busy
<1>2. CASE /\ todo' = Tail(todo)
           /\ Cmd = "DISPLAY" \/ (Cmd \in Optional /\ s = "UNSUPPORTED")
  <2>1. Script(todo)
    BY DEF DriverInv, DriverTypes
  <2>2. Has(todo, "HARDWARE") /\ Cmd # "HARDWARE" => Has(todo', "HARDWARE")
    BY <1>2, <2>1, HasTail DEF Cmd
  <2>3. Has(todo, "HARDWARE") /\ ~Has(todo', "HARDWARE") => ~hwos4
    BY <1>2, <2>2
  <2> QED BY <2>3, KnownStays
<1> QED BY <1>1, <1>2, FailsScript

\* The descriptor is learnt from what the device has answered.
LEMMA KnownComplete ==
  ASSUME DriverInv, DeviceInv, StepInv, KnownInv, Complete
  PROVE  KnownInv'
<1>0. todo # <<>> /\ Busy /\ Busy' /\ phase = "done" /\ UNCHANGED <<op, inBody, hwos4>> /\ Script(todo)
  BY DEF Complete, Busy, DriverInv, DriverTypes, PhaseInv, device
<1>1. Head(todo) = todo[1] /\ Head(todo).cmd = Cmd
  BY <1>0, DriverSends DEF Cmd
<1>2. /\ seen' = IF Cmd \in {"HARDWARE2", "HARDWARE"} THEN answer.arg ELSE seen
      /\ hardware' = IF Cmd # "IDENTITY" THEN hardware ELSE IF seen = 4 THEN "hwos4" ELSE "hwos3"
  BY <1>1 DEF Complete
<1>3. Len(todo) \in Nat /\ 1 \in 1 .. Len(todo)
  BY <1>0, TailFacts
<1>4. CASE Cmd = "IDENTITY"
  <2>1. op # "close"
    BY <1>0, <1>4 DEF DriverInv, ClosingInv
  <2>2. ~inBody
    <3>1. inBody => Cmd \in Service \cup {"DISPLAY"} \cup (Download \ {"EXIT", "IDENTITY"}) \cup {"COMPACT"}
      BY <1>0, <1>3, <2>1 DEF DriverInv, BodyInv, Only, Cmd, Target
    <3> QED BY <1>4, <3>1 DEF Service
  <2>3. hardware = "INVALID"
    <3>1. Has(todo, "IDENTITY")
      BY <1>3, <1>4 DEF Has, Cmd
    <3> QED BY <1>0, <2>1, <2>2, <3>1 DEF DriverInv, OpeningInv
  <2>4. ~Has(todo, "HARDWARE")
    <3>1. Len(todo) = 1
      BY <1>0, <1>3, <1>4 DEF Script, Cmd
    <3>2. \A i \in 1 .. Len(todo) : i = 1
      BY <3>1
    <3> QED BY <1>4, <3>2 DEF Has, Cmd
  <2>5. seen = 4 <=> hwos4
    BY <1>0, <2>1, <2>2, <2>3, <2>4 DEF KnownInv
  <2>6. hardware' = IF hwos4 THEN "hwos4" ELSE "hwos3"
    BY <1>2, <1>4, <2>5
  <2> QED BY <1>0, <2>6 DEF KnownInv
<1>5. CASE Cmd \in {"HARDWARE2", "HARDWARE"}
  <2>1. answer = Token("data", Cmd, IF hwos4 THEN 4 ELSE 3)
    BY <1>0, <1>5 DEF StepInv, HasOutput, Data
  <2>2. seen' = IF hwos4 THEN 4 ELSE 3
    BY <1>2, <1>5, <2>1 DEF Token
  <2>3. hardware' = hardware
    BY <1>2, <1>5
  <2> QED BY <1>0, <2>2, <2>3 DEF KnownInv
<1>6. CASE Cmd \notin {"IDENTITY", "HARDWARE2", "HARDWARE"}
  <2>1. UNCHANGED <<hardware, seen>>
    BY <1>2, <1>6
  <2>2. op # "close" /\ ~inBody /\ Has(todo, "HARDWARE") => Has(todo', "HARDWARE")
    <3> SUFFICES ASSUME op # "close", ~inBody, Has(todo, "HARDWARE") PROVE Has(todo', "HARDWARE")
      OBVIOUS
    <3>1. Cmd \in {"INIT", "S_INIT"}
      BY <1>0, <1>3, <1>6 DEF DriverInv, OpeningInv, Only, Cmd
    <3>2. ~VerifyFailed /\ ~UploadNotNeeded
      BY <1>1, <3>1 DEF VerifyFailed, UploadNotNeeded
    <3>3. todo' = Tail(todo)
      BY <1>0, <3>1, <3>2, CompleteRest
    <3> QED BY <1>0, <1>6, <3>3, HasTail DEF Cmd
  <2> QED BY <1>0, <2>1, <2>2, KnownStays
<1> QED BY <1>4, <1>5, <1>6

LEMMA KnownStep ==
  ASSUME DriverInv, DeviceInv, StepInv, KnownInv, [Next]_vars, faults = 0, faults' = 0
  PROVE  KnownInv'
<1>0. UNCHANGED <<commands, hwos4>>
  BY KindStays
<1>1. ASSUME NEW o \in Operations, Call(o) PROVE KnownInv'
  <2>1. CASE ModeAllowed(Target(o))
    <3>1. todo' = InitScript(Target(o)) /\ seen' = 0 /\ UNCHANGED hardware
      BY <1>1, <2>1 DEF Call
    <3>2. hardware = "INVALID" => Has(todo', "HARDWARE")
      BY <3>1, OpeningScript DEF Target
    <3> QED BY <1>0, <3>1, <3>2 DEF KnownInv
  <2>2. CASE ~ModeAllowed(Target(o))
    <3>1. ~Busy' /\ UNCHANGED hardware
      BY <1>1, <2>2 DEF Call, Busy
    <3> QED BY <1>0, <3>1, KnownStays
  <2> QED BY <2>1, <2>2
<1>2. CASE Close \/ Advance
  <2>1. UNCHANGED hardware /\ (op' = "close" \/ inBody')
    BY <1>2 DEF Close, Advance
  <2> QED BY <1>0, <2>1, KnownStays
<1>3. CASE Cancel \/ Closed \/ UNCHANGED vars
  BY <1>0, <1>3, KnownStays DEF Cancel, Closed, vars, driver, Busy
<1>4. CASE Begin
  <2>1. Busy /\ todo # <<>> /\ UNCHANGED <<hardware, op, inBody, seen>>
    BY <1>4 DEF Begin, Busy
  <2>2. CASE cancelled
    BY <1>0, <1>4, <2>1, <2>2, KnownFails DEF Begin
  <2>3. CASE ~cancelled
    BY <1>0, <1>4, <2>1, <2>3, KnownStays DEF Begin
  <2> QED BY <2>2, <2>3
<1>5. CASE ReadEcho
  <2>1. Busy /\ todo # <<>> /\ UNCHANGED <<hardware, op, inBody, seen>>
    BY <1>5 DEF ReadEcho, Busy, DriverInv, PhaseInv
  <2>2. CASE Lacking /\ Fails("UNSUPPORTED")
    <3>1. Cmd = "HARDWARE" => ~hwos4
      BY <2>2 DEF Lacking, DeviceInv
    <3> QED BY <1>0, <2>1, <2>2, <3>1, KnownFails
  <2>3. CASE UNCHANGED todo
    BY <1>0, <2>1, <2>3, KnownStays
  <2> QED BY <1>5, <2>2, <2>3, EchoRead
<1>6. CASE SendInput \/ SendRest \/ ReadOutput
  <2>1. Busy /\ UNCHANGED <<hardware, op, inBody, seen, todo>>
    BY <1>6 DEF SendInput, SendRest, ReadOutput, Busy
  <2> QED BY <1>0, <2>1, KnownStays
<1>7. CASE ReadReady
  <2>1. Busy /\ todo # <<>> /\ UNCHANGED <<hardware, op, inBody, seen>>
    BY <1>7 DEF ReadReady, Busy, DriverInv, PhaseInv
  <2>2. UNCHANGED todo \/ Fails("PROTOCOL")
    BY <1>7 DEF ReadReady
  <2>3. CASE Fails("PROTOCOL")
    BY <1>0, <2>1, <2>3, KnownFails
  <2>4. CASE UNCHANGED todo
    BY <1>0, <2>1, <2>4, KnownStays
  <2> QED BY <2>2, <2>3, <2>4
<1> QED BY <1>1, <1>2, <1>3, <1>4, <1>5, <1>6, <1>7, KnownComplete, NoFault DEF Next

\* A step that changes neither the device nor the script.
LEMMA FirmwareStays ==
  ASSUME FirmwareInv, UNCHANGED <<state, hardware, todo, op, inBody, status, device>>,
         Busy' => Busy, phase' = "idle" => phase = "idle",
         phase' \in {"ready", "done"} /\ Cmd = "S_UPLOAD" => phase \in {"ready", "done"}
  PROVE  FirmwareInv'
<1>1. Cmd' = Cmd /\ Arg' = Arg /\ UNCHANGED <<mode, waits, flash, hwos4>>
  BY DEF Cmd, Arg, device
<1>2. CASE Busy'
  <2>1. phase' # "idle"
    BY <1>2 DEF Busy
  <2> QED BY <1>1, <1>2, <2>1 DEF FirmwareInv
<1>3. CASE ~Busy'
  <2>1. phase' \notin {"ready", "done"}
    BY <1>3 DEF Busy
  <2> QED BY <1>1, <1>3, <2>1 DEF FirmwareInv
<1> QED BY <1>2, <1>3

\* A transfer that fails.
LEMMA FirmwareFails ==
  ASSUME DriverInv, FirmwareInv, Busy, todo # <<>>, NEW s, s # "SUCCESS", Fails(s),
         UNCHANGED <<state, hardware, op, inBody, device>>
  PROVE  FirmwareInv'
<1>0. UNCHANGED <<mode, waits, flash, hwos4>> /\ Script(todo)
  BY DEF device, DriverInv, DriverTypes
<1>1. CASE phase' \in {"idle", "closed"} /\ status' = s
  <2>1. ~Busy' /\ phase' \notin {"ready", "done"}
    BY <1>1 DEF Busy
  <2> QED BY <1>0, <1>1, <2>1 DEF FirmwareInv
<1>2. CASE /\ phase' = "next" /\ todo' = Tail(todo) /\ UNCHANGED status
           /\ Cmd = "DISPLAY" \/ Cmd \in Optional
  <2>1. Cmd \notin {"S_UPGRADE", "S_BLOCK_READ", "S_UPLOAD"}
    BY <1>2 DEF Optional
  <2>2. /\ \A x : Has(todo', x) => Has(todo, x)
        /\ Has(todo, "S_UPGRADE") => Has(todo', "S_UPGRADE")
        /\ \A b : HasAt(todo, "S_BLOCK_READ", b) => HasAt(todo', "S_BLOCK_READ", b)
        /\ \A b : HasAt(todo, "S_UPLOAD", b) => HasAt(todo', "S_UPLOAD", b)
        /\ \A C : Only(todo, C) => Only(todo', C)
    BY <1>0, <1>2, <2>1, HasTail DEF Cmd
  <2> QED BY <1>0, <1>2, <2>2 DEF FirmwareInv
<1> QED BY <1>1, <1>2, FailsScript

\* The command to install the firmware is given once every block is there.
LEMMA ReadyToInstall ==
  ASSUME DriverInv, FirmwareInv, Busy, todo # <<>>, Cmd = "S_UPGRADE"
  PROVE  \A b \in 1 .. Blocks : flash[b] = New
<1>1. op # "close" /\ inBody
  BY TransferFacts DEF Service
<1>2. Script(todo) /\ Len(todo) \in Nat /\ 1 \in 1 .. Len(todo)
  BY TailFacts DEF DriverInv, DriverTypes
<1>3. Has(todo, "S_UPGRADE") /\ Len(todo) = 1
  BY <1>2 DEF Has, Cmd, Script
<1>4. op = "fwupdate" /\ status = "SUCCESS" /\ hardware \in {"hwos3", "hwos4"}
  BY <1>1, <1>3 DEF DriverInv, DriverTypes, BodyInv
<1>5. hardware = "hwos3"
  BY <1>1, <1>2, <1>4 DEF FirmwareInv, Only, Cmd
<1>6. ASSUME NEW b \in 1 .. Blocks PROVE ~HasAt(todo, "S_BLOCK_READ", b)
  <2>1. \A i \in 1 .. Len(todo) : i = 1
    BY <1>3
  <2> QED BY <2>1 DEF HasAt, Cmd
<1> QED BY <1>1, <1>4, <1>5, <1>6 DEF FirmwareInv

\* A token sent in the course of a transfer.
LEMMA FirmwareSend ==
  ASSUME DriverInv, DeviceInv, FirmwareInv, Busy, todo # <<>>,
         phase' \in {"echo", "input2", "output", "ready"}, waits' = None \/ mode' # "rebooting",
         UNCHANGED <<state, hardware, todo, op, inBody, status, hwos4>>,
         mode' = "rebooting" => Cmd = "S_UPGRADE" /\ flash' = flash,
         \/ flash' = flash
         \/ Cmd \in {"S_ERASE", "S_BLOCK_WRITE"}
         \/ Cmd = "S_UPLOAD" /\ flash' = [flash EXCEPT ![Arg] = New],
         phase' = "ready" /\ Cmd = "S_UPLOAD" => flash' = [flash EXCEPT ![Arg] = New]
  PROVE  FirmwareInv'
<1>0. Cmd' = Cmd /\ Arg' = Arg /\ Busy' /\ flash \in [1 .. Blocks -> Contents]
  BY DEF Cmd, Arg, Busy, DeviceInv
<1>1. Len(todo) \in Nat /\ 1 \in 1 .. Len(todo) /\ todo[1] \in Items
  BY TailFacts DEF DriverInv, DriverTypes
<1>2. Has(todo, Cmd) /\ (Cmd = "S_UPLOAD" => Arg \in 1 .. Blocks)
  BY <1>1 DEF Has, Cmd, Arg, Items, Blocked
<1>3. mode' = "rebooting" => waits' = None /\ \A b \in 1 .. Blocks : flash'[b] = New
  BY ReadyToInstall
<1>4. ASSUME op = "fwupdate", inBody, hardware = "hwos3", status = "SUCCESS"
      PROVE  /\ Has(todo, "S_UPGRADE") \/ state = "REBOOTING"
             /\ \A b \in 1 .. Blocks :
                  \/ HasAt(todo, "S_BLOCK_READ", b)
                  \/ flash'[b] = New /\ ~Has(todo, "S_ERASE") /\ ~Has(todo, "S_BLOCK_WRITE")
  <2>1. Cmd # "S_UPLOAD"
    BY <1>2, <1>4 DEF FirmwareInv
  <2> QED BY <1>2, <1>4, <2>1 DEF FirmwareInv
<1>5. ASSUME op = "fwupdate", inBody, hardware = "hwos4"
      PROVE  /\ Only(todo, {"S_FWINFO", "S_UPLOAD"}) /\ status = "SUCCESS"
             /\ \A b \in 1 .. Blocks : HasAt(todo, "S_UPLOAD", b) \/ flash'[b] \in {New, Absent}
  <2>1. Only(todo, {"S_FWINFO", "S_UPLOAD"}) /\ status = "SUCCESS"
        /\ \A b \in 1 .. Blocks : HasAt(todo, "S_UPLOAD", b) \/ flash[b] \in {New, Absent}
    BY <1>5 DEF FirmwareInv
  <2>2. Cmd \in {"S_FWINFO", "S_UPLOAD"}
    BY <1>1, <2>1 DEF Only, Cmd
  <2>3. \A b \in 1 .. Blocks : flash[b] \in {New, Absent} => flash'[b] \in {New, Absent}
    BY <1>0, <1>2, <2>2
  <2> QED BY <2>1, <2>3
<1>6. phase' = "ready" /\ Cmd = "S_UPLOAD" => flash'[Arg] = New
  BY <1>0, <1>2
<1>7. phase' \notin {"done", "idle"}
  OBVIOUS
<1> QED BY <1>0, <1>3, <1>4, <1>5, <1>6, <1>7 DEF FirmwareInv

\* A transfer that is done: a block was read back as it should be, a blob was
\* uploaded, or its upload not needed.
LEMMA FirmwareComplete3 ==
  ASSUME DriverInv, DeviceInv, StepInv, FirmwareInv, Complete,
         op = "fwupdate", inBody, hardware = "hwos3", status' = "SUCCESS"
  PROVE  /\ ~VerifyFailed /\ todo' = Tail(todo)
         /\ Has(todo', "S_UPGRADE") \/ state' = "REBOOTING"
         /\ \A b \in 1 .. Blocks :
              \/ HasAt(todo', "S_BLOCK_READ", b)
              \/ flash[b] = New /\ ~Has(todo', "S_ERASE") /\ ~Has(todo', "S_BLOCK_WRITE")
<1>0. todo # <<>> /\ Busy /\ phase = "done" /\ Script(todo)
  BY DEF Complete, Busy, DriverInv, DriverTypes, PhaseInv
<1>1. Head(todo) = todo[1] /\ Head(todo).cmd = Cmd /\ todo[1] \in Items
  BY <1>0, DriverSends DEF Cmd
<1>2. Len(todo) \in Nat /\ 1 \in 1 .. Len(todo) /\ Has(todo, Cmd)
      /\ Len(Tail(todo)) = Len(todo) - 1 /\ \A i \in 1 .. Len(todo) - 1 : Tail(todo)[i] = todo[i + 1]
  BY <1>0, TailFacts DEF Has, Cmd
<1>3. ~VerifyFailed
  BY DEF Complete
<1>4. status = "SUCCESS"
  BY <1>0, <1>3, CompleteRest
<1>5. /\ Has(todo, "S_UPGRADE") \/ state = "REBOOTING"
      /\ \A b \in 1 .. Blocks :
           \/ HasAt(todo, "S_BLOCK_READ", b)
           \/ flash[b] = New /\ ~Has(todo, "S_ERASE") /\ ~Has(todo, "S_BLOCK_WRITE")
      /\ ~Has(todo, "S_UPLOAD")
  BY <1>0, <1>4 DEF FirmwareInv
<1>6. Cmd \in Service \cup {"DISPLAY"}
  BY <1>0, <1>2 DEF DriverInv, BodyInv, Only, Cmd, Target
<1>7. Cmd \notin {"HARDWARE2", "COMPACT", "S_FWINFO"}
  <2>1. Cmd = "S_FWINFO" => 1 < Len(todo) /\ todo[1 + 1].cmd = "S_UPLOAD"
    BY <1>0, <1>2 DEF Script, Cmd
  <2>2. 1 < Len(todo) => 1 + 1 \in 1 .. Len(todo)
    BY <1>2
  <2>3. Cmd # "S_FWINFO"
    BY <1>5, <2>1, <2>2 DEF Has
  <2> QED BY <1>6, <2>3 DEF Service
<1>8. todo' = Tail(todo)
  BY <1>0, <1>1, <1>3, <1>7, CompleteRest DEF UploadNotNeeded
<1>9. /\ \A x : Has(todo', x) => Has(todo, x)
      /\ \A x : Has(todo, x) /\ Cmd # x => Has(todo', x)
      /\ \A b : HasAt(todo, "S_BLOCK_READ", b) /\ (Cmd # "S_BLOCK_READ" \/ Arg # b)
           => HasAt(todo', "S_BLOCK_READ", b)
  BY <1>0, <1>8, HasTail DEF Cmd, Arg
<1>10. Has(todo', "S_UPGRADE") \/ state' = "REBOOTING"
  <2>1. state' = NewState(Cmd)
    BY <1>1 DEF Complete
  <2>2. Cmd = "S_UPGRADE" => state' = "REBOOTING"
    BY <2>1 DEF NewState
  <2>3. Cmd \notin {"S_UPGRADE", "INIT", "S_INIT"} => state' = state
    BY <2>1 DEF NewState
  <2> QED BY <1>5, <1>6, <1>9, <2>2, <2>3 DEF Service
<1>11. Cmd = "S_BLOCK_READ" =>
         flash[Arg] = New /\ ~Has(todo', "S_ERASE") /\ ~Has(todo', "S_BLOCK_WRITE")
  <2> SUFFICES ASSUME Cmd = "S_BLOCK_READ"
               PROVE  flash[Arg] = New /\ ~Has(todo', "S_ERASE") /\ ~Has(todo', "S_BLOCK_WRITE")
    OBVIOUS
  <2>1. answer.cmd = New
    BY <1>1, <1>3 DEF VerifyFailed
  <2>2. answer = Token("data", flash[Arg], Arg)
    BY <1>0 DEF StepInv, HasOutput, Data
  <2>3. flash[Arg] = New
    BY <2>1, <2>2 DEF Token
  <2>4. \A i \in 1 .. Len(todo') : /\ i + 1 \in 1 .. Len(todo) /\ 1 < i + 1
                                  /\ todo'[i] = todo[i + 1]
    BY <1>2, <1>8
  <2>5. \A i \in 1 .. Len(todo') : todo'[i].cmd \notin {"S_ERASE", "S_BLOCK_WRITE"}
    BY <1>0, <1>2, <2>4 DEF Script, Cmd
  <2> QED BY <2>3, <2>5 DEF Has
<1>12. ASSUME NEW b \in 1 .. Blocks
       PROVE  \/ HasAt(todo', "S_BLOCK_READ", b)
              \/ flash[b] = New /\ ~Has(todo', "S_ERASE") /\ ~Has(todo', "S_BLOCK_WRITE")
  BY <1>5, <1>9, <1>11
<1> QED BY <1>3, <1>8, <1>10, <1>12

LEMMA FirmwareComplete4 ==
  ASSUME DriverInv, DeviceInv, StepInv, FirmwareInv, Complete,
         op = "fwupdate", inBody, hardware = "hwos4"
  PROVE  /\ Only(todo', {"S_FWINFO", "S_UPLOAD"}) /\ status' = "SUCCESS"
         /\ \A b \in 1 .. Blocks : HasAt(todo', "S_UPLOAD", b) \/ flash[b] \in {New, Absent}
<1>0. todo # <<>> /\ Busy /\ phase = "done" /\ Script(todo)
  BY DEF Complete, Busy, DriverInv, DriverTypes, PhaseInv
<1>1. Head(todo) = todo[1] /\ Head(todo).cmd = Cmd /\ todo[1] \in Items
  BY <1>0, DriverSends DEF Cmd
<1>2. /\ Only(todo, {"S_FWINFO", "S_UPLOAD"}) /\ status = "SUCCESS"
      /\ \A b \in 1 .. Blocks : HasAt(todo, "S_UPLOAD", b) \/ flash[b] \in {New, Absent}
  BY <1>0 DEF FirmwareInv
<1>3. /\ \A b : HasAt(todo, "S_UPLOAD", b) /\ (Cmd # "S_UPLOAD" \/ Arg # b)
           => HasAt(Tail(todo), "S_UPLOAD", b)
      /\ Only(Tail(todo), {"S_FWINFO", "S_UPLOAD"}) /\ Cmd \in {"S_FWINFO", "S_UPLOAD"}
  BY <1>0, <1>2, HasTail DEF Cmd, Arg
<1>4. ~VerifyFailed
  BY <1>1, <1>3 DEF VerifyFailed
<1>5. Cmd = "S_UPLOAD" => flash[Arg] = New
  BY <1>0 DEF FirmwareInv
<1>6. CASE todo' = Tail(todo)
  BY <1>0, <1>2, <1>3, <1>4, <1>5, <1>6, CompleteRest
<1>7. CASE /\ todo' = Tail(Tail(todo)) /\ Tail(todo) # <<>> /\ Tail(todo)[1] = todo[2] /\ Script(Tail(todo))
           /\ Cmd = "S_FWINFO" /\ todo[2].cmd = "S_UPLOAD" /\ todo[2].arg = Arg /\ UploadNotNeeded
  <2>1. /\ \A b : HasAt(Tail(todo), "S_UPLOAD", b) /\ Tail(todo)[1].arg # b => HasAt(todo', "S_UPLOAD", b)
        /\ Only(todo', {"S_FWINFO", "S_UPLOAD"})
    BY <1>3, <1>7, HasTail
  <2>2. answer = Token("data", flash[Arg], Arg)
    BY <1>0, <1>7 DEF StepInv, HasOutput, Data
  <2>3. flash[Arg] \in {New, Absent}
    BY <1>7, <2>2 DEF UploadNotNeeded, Token
  <2>4. status' = status
    BY <1>0, <1>4, CompleteRest
  <2> QED BY <1>2, <1>3, <1>7, <2>1, <2>3, <2>4
<1> QED BY <1>0, <1>3, <1>4, <1>6, <1>7, CompleteRest

LEMMA FirmwareStep ==
  ASSUME DriverInv, DeviceInv, StepInv, KnownInv, FirmwareInv, [Next]_vars, faults = 0, faults' = 0
  PROVE  FirmwareInv'
<1>1. ASSUME NEW o \in Operations, Call(o) PROVE FirmwareInv'
  <2>1. /\ inBody' = FALSE /\ phase' \in {"next", "idle"} /\ (phase' = "idle" => status' = "INVALIDARGS")
        /\ UNCHANGED <<mode, waits, flash, hwos4>>
    BY <1>1 DEF Call, device
  <2> QED BY <2>1 DEF FirmwareInv
<1>2. ASSUME Close PROVE FirmwareInv'
  <2>1. op' = "close" /\ phase' = "next" /\ UNCHANGED <<mode, waits, flash, hwos4>>
    BY <1>2 DEF Close, device
  <2> QED BY <2>1 DEF FirmwareInv
<1>3. CASE Cancel \/ Closed \/ UNCHANGED vars
  BY <1>3, FirmwareStays DEF Cancel, Closed, vars, driver, Busy
<1>4. ASSUME Advance PROVE FirmwareInv'
  <2>0. /\ phase = "next" /\ todo = <<>> /\ Busy /\ inBody' = TRUE
        /\ UNCHANGED <<state, hardware, op, mode, waits, flash, hwos4>>
    BY <1>4 DEF Advance, Busy, device
  <2>1. CASE inBody
    <3>1. phase' \in {"idle", "closed"} /\ status' = status /\ ~Busy'
      BY <1>4, <2>1 DEF Advance, Finish, Busy
    <3>2. ASSUME phase' = "idle", op = "fwupdate", status = "SUCCESS"
          PROVE  IF hwos4 THEN \A b \in 1 .. Blocks : flash[b] \in {New, Absent}
                 ELSE state = "REBOOTING"
      <4>1. hardware \in {"hwos3", "hwos4"}
        BY <2>0, <2>1, <3>2 DEF DriverInv, DriverTypes, BodyInv
      <4>2. hardware = IF hwos4 THEN "hwos4" ELSE "hwos3"
        BY <4>1 DEF KnownInv
      <4>3. ~Has(todo, "S_UPGRADE")
        BY <2>0, EmptyScript
      <4>4. \A b : ~HasAt(todo, "S_UPLOAD", b)
        <5>1. \A i \in 1 .. Len(todo) : FALSE
          BY <2>0, EmptyScript
        <5> QED BY <5>1 DEF HasAt
      <4> QED BY <2>0, <2>1, <3>2, <4>2, <4>3, <4>4 DEF FirmwareInv
    <3> QED BY <2>0, <3>1, <3>2 DEF FirmwareInv
  <2>2. CASE ~inBody /\ op \in {"read", "write"} /\ hardware = "hwos4"
    <3>1. ~Busy' /\ phase' \notin {"ready", "done"} /\ op' # "fwupdate"
      BY <1>4, <2>0, <2>2 DEF Advance, Finish, Busy
    <3> QED BY <2>0, <3>1 DEF FirmwareInv
  <2>3. CASE ~inBody /\ ~(op \in {"read", "write"} /\ hardware = "hwos4")
    <3>1. todo' = Body(op) /\ phase' = "next" /\ status' = status
      BY <1>4, <2>0, <2>3 DEF Advance
    <3>2. ASSUME op = "fwupdate" PROVE
            /\ status = "SUCCESS"
            /\ hardware = "hwos3" => todo' = fwupdate3
            /\ hardware = "hwos4" => todo' = fwupdate4
      <4>1. status = "SUCCESS"
        BY <2>0, <2>3, <3>2 DEF DriverInv, OpeningInv
      <4>2. op \in Operations
        BY <3>2 DEF Operations
      <4> QED BY <3>1, <3>2, <4>1, <4>2, BodyScript
    <3>3. /\ Has(fwupdate3, "S_UPGRADE") /\ ~Has(fwupdate3, "S_UPLOAD")
          /\ \A b \in 1 .. Blocks : HasAt(fwupdate3, "S_BLOCK_READ", b)
          /\ Only(fwupdate4, {"S_FWINFO", "S_UPLOAD"})
          /\ \A b \in 1 .. Blocks : HasAt(fwupdate4, "S_UPLOAD", b)
      BY Fwupdate3Facts, Fwupdate4Facts
    <3> QED BY <2>0, <3>1, <3>2, <3>3 DEF FirmwareInv
  <2> QED BY <2>1, <2>2, <2>3
<1>5. ASSUME Begin PROVE FirmwareInv'
  <2>1. phase = "next" /\ todo # <<>> /\ Busy /\ UNCHANGED <<state, hardware, op, inBody>>
    BY <1>5 DEF Begin, Busy
  <2>2. CASE cancelled
    BY <1>5, <2>1, <2>2, FirmwareFails DEF Begin
  <2>3. CASE ~cancelled
    <3>1. Send(Token("cmd", Head(todo).cmd, 0)) /\ phase' = "echo" /\ UNCHANGED <<todo, status>>
      BY <1>5, <2>3 DEF Begin
    <3>2. wire = <<>> /\ waits = None /\ Agree /\ Head(todo).cmd = Cmd
      BY <2>1, DriverSends DEF StepInv, Between, Cmd
    <3>3. flash' = flash /\ mode' # "rebooting" /\ UNCHANGED <<commands, hwos4>>
      BY <2>1, <3>1, <3>2, CommandSent
    <3> QED BY <2>1, <3>1, <3>3, FirmwareSend
  <2> QED BY <2>2, <2>3
<1>6. ASSUME ReadEcho PROVE FirmwareInv'
  <2>1. Busy /\ todo # <<>> /\ phase = "echo" /\ UNCHANGED <<state, hardware, op, inBody, device>>
    BY <1>6 DEF ReadEcho, Busy, DriverInv, PhaseInv
  <2>2. CASE Fails("UNSUPPORTED")
    BY <2>1, <2>2, FirmwareFails
  <2>3. CASE phase' = AfterEcho(Cmd) /\ UNCHANGED <<todo, answer, status>>
    <3>1. phase' # "idle" /\ (Cmd = "S_UPLOAD" => phase' = "input")
      BY <2>3 DEF AfterEcho, InputLen
    <3> QED BY <2>1, <2>3, <3>1, FirmwareStays
  <2> QED BY <1>6, <2>2, <2>3, EchoRead
<1>7. ASSUME SendInput PROVE FirmwareInv'
  <2>1. /\ Busy /\ todo # <<>> /\ phase = "input" /\ UNCHANGED <<state, hardware, todo, op, inBody, status>>
        /\ InputLen(Cmd) > 0
    BY <1>7 DEF SendInput, Busy, DriverInv, PhaseInv
  <2>2. Head(todo).cmd = Cmd /\ Head(todo).arg = Arg /\ todo[1] \in Items
    BY <2>1, DriverSends DEF Cmd, Arg
  <2>3. wire = <<>> /\ waits = Cmd /\ buf = <<>> /\ Agree
    BY <2>1 DEF StepInv
  <2>4. Send(Token("input", Cmd, Arg))
        /\ phase' = IF InputLen(Cmd) = 2 THEN "input2" ELSE IF HasOutput(Cmd) THEN "output" ELSE "ready"
    BY <1>7, <2>2 DEF SendInput
  <2>5. Len(buf) = 0
    BY <2>3
  <2>6. CASE InputLen(Cmd) = 2
    <3>1. waits # None /\ Len(buf) + 1 < InputLen(waits) /\ mode # "rebooting"
      BY <2>1, <2>3, <2>5, <2>6, DriverSends, CommandFacts DEF DeviceInv
    <3>2. UNCHANGED <<flash, mode, hwos4>>
      BY <2>4, <3>1 DEF Send, TakeInput, TakeCommand
    <3>3. phase' = "input2"
      BY <2>4, <2>6
    <3> QED BY <2>1, <3>1, <3>2, <3>3, FirmwareSend
  <2>7. CASE InputLen(Cmd) # 2
    <3>1. Len(buf) + 1 = InputLen(Cmd)
      BY <2>1, <2>5, <2>7, CommandFacts
    <3>2. /\ Effect(Cmd, Arg) /\ waits' = None /\ UNCHANGED hwos4
          /\ mode' = "rebooting" => Cmd = "S_UPGRADE"
      BY <2>1, <2>3, <2>4, <3>1, InputSent
    <3>3. Cmd \in Commands /\ Arg \in Nat /\ (Cmd \in Blocked => Arg \in 1 .. Blocks)
      BY <2>2 DEF Items, Cmd, Arg
    <3>4. /\ Cmd \notin {"S_ERASE", "S_BLOCK_WRITE", "S_UPLOAD"} => flash' = flash
          /\ Cmd = "S_UPLOAD" => flash' = [flash EXCEPT ![Arg] = New]
      BY <3>2, <3>3, EffectDevice
    <3>5. phase' \in {"output", "ready"}
      BY <2>4, <2>7
    <3> QED BY <2>1, <3>2, <3>4, <3>5, FirmwareSend
  <2> QED BY <2>6, <2>7
<1>8. ASSUME SendRest PROVE FirmwareInv'
  <2>1. /\ Busy /\ todo # <<>> /\ phase = "input2" /\ phase' = "ready" /\ InputLen(Cmd) = 2
        /\ UNCHANGED <<state, hardware, todo, op, inBody, status>>
    BY <1>8 DEF SendRest, Busy, DriverInv, PhaseInv
  <2>2. Head(todo).cmd = Cmd /\ Head(todo).arg = Arg /\ todo[1] \in Items
    BY <2>1, DriverSends DEF Cmd, Arg
  <2>3. wire = <<>> /\ waits = Cmd /\ buf = <<Token("input", Cmd, Arg)>> /\ Agree
    BY <2>1 DEF StepInv
  <2>4. Send(Token("input", Cmd, Arg))
    BY <1>8, <2>2 DEF SendRest
  <2>5. Len(buf) + 1 = InputLen(Cmd) /\ InputLen(Cmd) > 0
    BY <2>1, <2>3, Shorts
  <2>6. /\ Effect(Cmd, Arg) /\ waits' = None /\ UNCHANGED hwos4
        /\ mode' = "rebooting" => Cmd = "S_UPGRADE"
    BY <2>1, <2>3, <2>4, <2>5, InputSent
  <2>7. Cmd \in Commands /\ Arg \in Nat /\ (Cmd \in Blocked => Arg \in 1 .. Blocks)
        /\ Cmd \notin {"S_UPLOAD", "S_UPGRADE"}
    BY <2>1, <2>2 DEF Items, Cmd, Arg, InputLen
  <2>8. Cmd \notin {"S_ERASE", "S_BLOCK_WRITE", "S_UPLOAD"} => flash' = flash
    BY <2>6, <2>7, EffectDevice
  <2> QED BY <2>1, <2>6, <2>7, <2>8, FirmwareSend
<1>9. CASE ReadOutput
  <2>1. /\ phase = "output" /\ phase' = "ready" /\ HasOutput(Cmd) /\ Busy
        /\ UNCHANGED <<state, hardware, todo, op, inBody, status, device>>
    BY <1>9 DEF ReadOutput, DriverInv, PhaseInv, Busy
  <2>2. Cmd # "S_UPLOAD"
    BY <2>1 DEF HasOutput
  <2> QED BY <2>1, <2>2, FirmwareStays
<1>10. CASE ReadReady
  <2>1. /\ phase = "ready" /\ Busy /\ todo # <<>> /\ UNCHANGED <<state, hardware, op, inBody, device>>
    BY <1>10 DEF ReadReady, DriverInv, PhaseInv, Busy
  <2>2. CASE Fails("PROTOCOL")
    BY <2>1, <2>2, FirmwareFails
  <2>3. CASE phase' = "done" /\ UNCHANGED <<todo, status>>
    BY <2>1, <2>3, FirmwareStays
  <2> QED BY <1>10, <2>2, <2>3 DEF ReadReady
<1>11. ASSUME Complete PROVE FirmwareInv'
  <2>1. /\ todo # <<>> /\ Busy /\ phase = "done" /\ phase' = "next" /\ Script(todo)
        /\ UNCHANGED <<op, inBody, mode, waits, flash, hwos4>>
    BY <1>11 DEF Complete, Busy, DriverInv, DriverTypes, PhaseInv, device
  <2>2. Head(todo).cmd = Cmd
    BY <2>1, DriverSends DEF Cmd
  <2>3. Len(todo) \in Nat /\ 1 \in 1 .. Len(todo)
    BY <2>1, TailFacts
  <2>4. op = "fwupdate" /\ inBody => hardware' = hardware
    <3>1. op = "fwupdate" /\ inBody => Cmd \in Service \cup {"DISPLAY"}
      BY <2>1, <2>3 DEF DriverInv, BodyInv, Only, Cmd, Target
    <3>2. Cmd # "IDENTITY" => hardware' = hardware
      BY <1>11, <2>2 DEF Complete
    <3> QED BY <3>1, <3>2 DEF Service
  <2>5. ASSUME op = "fwupdate", inBody, hardware = "hwos3" PROVE ~Has(todo', "S_UPLOAD")
    <3>1. CASE VerifyFailed
      <4>1. todo' = <<Try("DISPLAY")>>
        BY <1>11, <3>1 DEF Complete
      <4>2. Try("DISPLAY") \in Items /\ Try("DISPLAY").cmd = "DISPLAY"
        BY ItemFacts
      <4> QED BY <4>1, <4>2, SingleScript
    <3>2. CASE ~VerifyFailed
      <4>1. ~Has(todo, "S_UPLOAD")
        BY <2>1, <2>5 DEF FirmwareInv
      <4>2. \A x : Has(Tail(todo), x) => Has(todo, x)
        BY <2>1, HasTail
      <4>3. Tail(todo) # <<>> => \A x : Has(Tail(Tail(todo)), x) => Has(Tail(todo), x)
        BY <2>1, ScriptTail, HasTail
      <4> QED BY <1>11, <2>1, <3>2, <4>1, <4>2, <4>3, CompleteRest
    <3> QED BY <3>1, <3>2
  <2> QED BY <1>11, <2>1, <2>4, <2>5, FirmwareComplete3, FirmwareComplete4 DEF FirmwareInv
<1> QED BY <1>1, <1>2, <1>3, <1>4, <1>5, <1>6, <1>7, <1>8, <1>9, <1>10, <1>11, NoFault DEF Next

-----------------------------------------------------------------------------
(* The theorems *)

LEMMA InitInv ==
  ASSUME Init
  PROVE  IInv
<1>1. DriverInv
  <2>1. inBody \in BOOLEAN /\ cancelled \in BOOLEAN
    BY Zenon DEF Init
  <2>2. DriverTypes
    BY <2>1, EmptyScript DEF Init, DriverTypes, States, Phases, Results
  <2>3. PhaseInv /\ OpeningInv /\ BodyInv /\ ClosingInv
    BY DEF Init, PhaseInv, OpeningInv, BodyInv, ClosingInv, Busy, None
  <2> QED BY <2>2, <2>3 DEF DriverInv
<1>2. wire \in Seq(Tokens) /\ buf \in Seq([kind : {"cmd", "input"}, cmd : Commands, arg : Nat]) /\ Tells(wire, mode)
  BY EmptySeq DEF Init, Tells
<1>3. flash \in [1 .. Blocks -> Contents]
  BY DEF Init, Contents
<1>4. /\ Download \subseteq commands /\ commands \subseteq Download \cup Optional
      /\ hwos4 => "HARDWARE" \in commands
      /\ "HARDWARE2" \in commands => "HARDWARE" \in commands
  <2>1. PICK opt \in {{}, {"HARDWARE"}, {"HARDWARE2", "HARDWARE", "COMPACT"}} :
          (hwos4 => opt # {}) /\ commands = Download \cup opt
    BY DEF Init
  <2>2. "HARDWARE2" \notin Download
    BY DEF Download
  <2> QED BY <2>1, <2>2 DEF Optional
<1>5. DeviceInv
  <2>1. waits = None /\ mode = "idle" /\ buf = <<>> /\ faults = 0 /\ hwos4 \in BOOLEAN
    BY DEF Init
  <2> QED BY <1>2, <1>3, <1>4, <2>1 DEF DeviceInv, Modes, Service, None
<1>6. EchoInv
  BY <1>2 DEF Init, EchoInv
<1>7. StepInv /\ KnownInv /\ FirmwareInv
  BY DEF Init, StepInv, Between, Agree, KnownInv, FirmwareInv, Busy, None
<1> QED BY <1>1, <1>5, <1>6, <1>7 DEF IInv, CleanInv

LEMMA NextInv ==
  ASSUME IInv, [Next]_vars
  PROVE  IInv'
<1>1. DriverInv' /\ DeviceInv' /\ EchoInv' /\ faults \in Nat /\ faults' \in Nat /\ faults <= faults'
  <2>1. DriverInv /\ DeviceInv /\ EchoInv /\ faults \in Nat
    BY DEF IInv, DeviceInv
  <2> QED BY <2>1, DriverStep, DeviceStep, EchoStep, LineStep
<1>2. ASSUME faults' = 0 PROVE StepInv' /\ KnownInv' /\ FirmwareInv'
  <2>1. faults = 0
    BY <1>1, <1>2
  <2>2. DriverInv /\ DeviceInv /\ StepInv /\ KnownInv /\ FirmwareInv
    BY <2>1 DEF IInv, CleanInv
  <2> QED BY <1>2, <2>1, <2>2, StepStep, KnownStep, FirmwareStep
<1> QED BY <1>1, <1>2 DEF IInv, CleanInv

\* The inductive invariant of a session, for every number of blocks, of
\* operations and of faults.
THEOREM Invariance == Spec => []IInv
<1>1. Init => IInv
  BY InitInv
<1>2. IInv /\ [Next]_vars => IInv'
  BY NextInv
<1> QED BY <1>1, <1>2, PTL DEF Spec

\* Every variable of driver and device has its type, and a transfer is only
\* under way while the script has one.
THEOREM TypeCorrect == Spec => []TypeOK
<1>1. IInv => TypeOK
  BY DEF IInv, DriverInv, DriverTypes, DeviceInv, PhaseInv, States, Modes, Phases, Results, TypeOK
<1> QED BY <1>1, Invariance, PTL

\* hw_ostc3.c keeps device->state from the echoes and ready bytes it reads:
\* however many of them are late, lost or read by the wrong transfer, it never
\* believes the device in a mode that it is not in, or has not just left to
\* reboot.
THEOREM ModesAgree == Spec => []StateAgrees
<1>1. IInv => StateAgrees
  BY DEF IInv, EchoInv, StateAgrees
<1> QED BY <1>1, Invariance, PTL

\* On a line without faults no operation, cancelled or not, leaves the device
\* in the middle of a command, and closing it brings it back.
THEOREM SessionInStep == Spec => []InStep
<1>1. IInv => InStep
  <2> SUFFICES ASSUME IInv, faults = 0
               PROVE  /\ phase \in {"idle", "next", "closed"} => wire = <<>> /\ waits = None
                      /\ phase = "closed" => mode \in {"idle", "rebooting"}
    BY DEF InStep
  <2>1. phase \in {"idle", "next", "closed"} => Between
    BY DEF IInv, CleanInv, StepInv
  <2>2. phase = "closed" => op = "close" /\ todo = <<>>
    BY DEF IInv, DriverInv, ClosingInv, PhaseInv, Busy
  <2> QED BY <2>1, <2>2 DEF Between
<1> QED BY <1>1, Invariance, PTL

\* On a line without faults, for a firmware of any number of blocks: the device
\* is only told to install what it has been read back to hold in full, and an
\* update that returns DC_STATUS_SUCCESS has done its work.
THEOREM CleanUpdate == Spec => [](faults = 0 => FirmwareComplete /\ SuccessMeansUpdated)
<1>1. IInv => (faults = 0 => FirmwareComplete /\ SuccessMeansUpdated)
  <2> SUFFICES ASSUME IInv, faults = 0 PROVE FirmwareComplete /\ SuccessMeansUpdated
    OBVIOUS
  <2>1. StepInv /\ FirmwareInv /\ DriverInv
    BY DEF IInv, CleanInv
  <2>2. state = "REBOOTING" => mode = "rebooting"
    <3>1. CASE phase \in {"idle", "next", "closed"}
      BY <2>1, <3>1 DEF StepInv, Between, Agree
    <3>2. CASE phase \notin {"idle", "next", "closed"}
      <4>1. Busy /\ todo # <<>>
        BY <2>1, <3>2 DEF Busy, DriverInv, PhaseInv
      <4> QED BY <2>1, <4>1, TransferFacts
    <3> QED BY <3>1, <3>2
  <2>3. FirmwareComplete
    BY <2>1, <2>2 DEF FirmwareInv, FirmwareComplete
  <2>4. SuccessMeansUpdated
    BY <2>1, <2>2 DEF FirmwareInv, SuccessMeansUpdated
  <2> QED BY <2>3, <2>4
<1> QED BY <1>1, Invariance, PTL

-----------------------------------------------------------------------------
(* The download of the dives, for every size of the table of headers *)

CONSTANTS N, UsualLen, Lengths

VARIABLES
  compactSupported, header, fingerprint, pc, compact, scanned, dive, plan, next, handed, stopped, info,
  current, maximum

Table == INSTANCE Ostc3Download

\* What the callback may get.
Handed ==
  {h \in [dive : 0 .. N - 1, reading : Table!Readings, bytes : Nat, received : Nat] :
     h.reading # "otherSummary" /\ h.bytes \in Table!SizeFull .. h.received}

TableTypes ==
  /\ pc \in {"idle", "init", "compact", "header", "scan", "planned", "dive", "return", "done"}
  /\ status \in {"none", "SUCCESS", "DATAFORMAT", "IO", "CANCELLED"}
  /\ compact \in BOOLEAN /\ \A i \in 0 .. N - 1 : header[i].len \in Nat
  /\ scanned \in 0 .. N /\ dive \in Seq(Table!Entries) /\ Len(dive) <= scanned
  /\ next \in 1 .. Len(dive) + 1
  /\ current \in Nat /\ maximum \in Nat /\ handed \in Seq(Handed)

\* The dives in the plan are long enough for a header, and fit the buffer.
PlanInv ==
  /\ plan.largest \in Nat
  /\ \A k \in 1 .. Len(dive) : Table!Length(dive[k]) \in Table!SizeFull .. plan.largest

\* The partial sums of the lengths.
Sums(t) ==
  /\ t \in [0 .. Len(dive) -> Nat] /\ t[0] = 0
  /\ \A k \in 1 .. Len(dive) : t[k] = t[k - 1] + Table!Length(dive[k])

Logbook == Table!LogbookSize * N

\* How far the progress is: the logbook, the dives so far, and a byte for each.
CountInv ==
  /\ pc \in {"idle", "init", "compact", "header"} =>
       current = 0 /\ scanned = 0 /\ dive = <<>> /\ (compact <=> pc # "header")
  /\ pc \in {"idle", "init", "compact", "header", "scan", "planned"} => next = 1
  /\ pc \in {"scan", "planned"} => current = Logbook
  /\ pc = "dive" => next <= Len(dive)
  /\ pc # "done" =>
       \E t : /\ Sums(t) /\ plan.size = t[Len(dive)]
              /\ pc = "dive" => /\ current = Logbook + t[next - 1] + (next - 1)
                                /\ maximum = Logbook + t[Len(dive)] + Len(dive)
  /\ (pc = "return" \/ (pc = "done" /\ status = "SUCCESS")) /\ ~stopped => current = maximum

TableInv == TableTypes /\ PlanInv /\ CountInv

LEMMA TableSizes ==
  ASSUME Table!OstcAssumption, TableTypes
  PROVE  /\ N \in Nat \ {0} /\ Table!SizeFull = 256 /\ Table!SizeCompact = 16
         /\ Table!SizeFull * N \in Nat /\ Table!SizeCompact * N \in Nat /\ Logbook \in Nat
         /\ \A i \in 0 .. N - 1 : Table!Length(i) \in Int
         /\ Table!Entries \subseteq 0 .. N - 1
<1>1. N \in Nat \ {0} /\ Table!SizeFull = 256 /\ Table!SizeCompact = 16
  BY DEF Table!OstcAssumption, Table!SizeFull, Table!SizeCompact
<1>2. 256 * N \in Nat /\ 16 * N \in Nat
  BY <1>1
<1>3. Logbook \in Nat
  BY <1>1, <1>2 DEF Logbook, Table!LogbookSize
<1>4. ASSUME NEW i \in 0 .. N - 1 PROVE Table!Length(i) \in Int
  <2>1. PICK n \in Nat : n = header[i].len
    BY DEF TableTypes
  <2>2. 256 + n - 3 - 3 \in Int /\ 256 + n - 3 - 0 \in Int
    OBVIOUS
  <2> QED BY <1>1, <2>1, <2>2 DEF Table!Length
<1> QED BY <1>1, <1>2, <1>3, <1>4 DEF Table!Entries

LEMMA TableInit == ASSUME Table!OstcAssumption, Table!Init PROVE TableInv
<1>1. /\ pc = "idle" /\ compact = TRUE /\ next = 1 /\ scanned = 0 /\ dive = <<>>
      /\ plan = [size |-> 0, largest |-> 0] /\ handed = <<>> /\ stopped = FALSE
      /\ current = 0 /\ maximum = 0 /\ status = "none"
  BY DEF Table!Init
<1>2. ASSUME NEW i \in 0 .. N - 1 PROVE header[i].len \in Nat
  <2>1. PICK s \in 0 .. N - 1, c \in 0 .. N, gone \in 1 .. N, odd \in 0 .. N - 1, len \in Lengths, old \in BOOLEAN :
          header = [j \in 0 .. N - 1 |->
                      LET k == (j - s + N) % N
                      IN  IF k < c /\ k # gone
                            THEN [number |-> 1 + k, len |-> IF k = odd THEN len ELSE UsualLen, old |-> old]
                            ELSE Table!Empty]
    BY DEF Table!Init, Table!Rings
  <2>2. header[i].len = len \/ header[i].len = UsualLen \/ header[i].len = 16777215
    BY <2>1 DEF Table!Empty
  <2> QED BY <2>2 DEF Table!OstcAssumption
<1>3. TableTypes
  BY <1>1, <1>2 DEF TableTypes, Table!OstcAssumption
<1>4. PlanInv
  BY <1>1 DEF PlanInv
<1>5. CountInv
  <2>1. Sums([k \in 0 .. 0 |-> 0])
    BY <1>1 DEF Sums
  <2> QED BY <1>1, <2>1 DEF CountInv
<1> QED BY <1>3, <1>4, <1>5 DEF TableInv

\* As long as the headers and the plan stay, the lengths do.
LEMMA PlanStays ==
  ASSUME PlanInv, UNCHANGED <<header, compact, dive, plan>>
  PROVE  PlanInv' /\ Logbook' = Logbook /\ \A t : Sums(t)' <=> Sums(t)
BY DEF PlanInv, Sums, Logbook, Table!LogbookSize, Table!Length

LEMMA EntriesStay ==
  ASSUME TableTypes, UNCHANGED header
  PROVE  Table!Entries' = Table!Entries /\ \A i \in 0 .. N - 1 : header'[i].len \in Nat
BY DEF TableTypes, Table!Entries

LEMMA TableFails ==
  ASSUME Table!OstcAssumption, TableInv, NEW total \in Nat, Table!Fails(total),
         UNCHANGED <<header, compact, scanned, dive, plan, next, handed, maximum>>
  PROVE  TableInv'
<1>1. pc' = "done" /\ status' \in {"IO", "CANCELLED"}
  BY DEF Table!Fails, Table!Errors, Table!Finish
<1>2. current' \in Nat
  <2>1. PICK part \in {0, total \div 2, total} : current' = current + part
    BY DEF Table!Fails
  <2>2. total \div 2 \in Nat /\ current \in Nat
    BY DEF TableInv, TableTypes
  <2> QED BY <2>1, <2>2
<1>3. TableTypes'
  BY <1>1, <1>2, EntriesStay DEF TableInv, TableTypes
<1>4. PlanInv'
  BY PlanStays DEF TableInv
<1>5. CountInv'
  BY <1>1 DEF CountInv
<1> QED BY <1>3, <1>4, <1>5 DEF TableInv

LEMMA TableOpening ==
  ASSUME Table!OstcAssumption, TableInv, Table!Foreach \/ Table!InitDone PROVE TableInv'
<1>1. UNCHANGED <<header, compact, scanned, dive, plan, next, handed, stopped, current>>
  BY DEF Table!Foreach, Table!InitDone, Table!device, Table!logbook, Table!report, Table!progress
<1>2. \/ pc = "idle" /\ pc' = "init" /\ maximum' = Table!SZ_MEMORY /\ status' = status
      \/ pc = "init" /\ pc' = "compact" /\ UNCHANGED <<maximum, status>>
      \/ pc = "init" /\ pc' = "done" /\ status' \in {"IO", "CANCELLED"} /\ UNCHANGED maximum
  BY DEF Table!Foreach, Table!InitDone, Table!report, Table!progress, Table!Errors, Table!Finish
<1>3. TableTypes'
  BY <1>1, <1>2, EntriesStay DEF TableInv, TableTypes, Table!SZ_MEMORY
<1>4. PlanInv' /\ Logbook' = Logbook /\ \A t : Sums(t)' <=> Sums(t)
  BY <1>1, PlanStays DEF TableInv
<1>5. CountInv'
  <2>1. CASE pc' = "done"
    BY <1>2, <2>1 DEF CountInv
  <2>2. CASE pc' # "done"
    BY <1>1, <1>2, <1>4, <2>2 DEF TableInv, CountInv
  <2> QED BY <2>1, <2>2
<1> QED BY <1>3, <1>4, <1>5 DEF TableInv

LEMMA TableHeaders ==
  ASSUME Table!OstcAssumption, TableInv, Table!ReadCompact \/ Table!ReadHeaders PROVE TableInv'
<1>1. UNCHANGED <<header, scanned, dive, plan, next, handed, stopped, maximum>>
  BY DEF Table!ReadCompact, Table!ReadHeaders, Table!device, Table!logbook
<1>2. /\ N \in Nat \ {0} /\ Table!SizeFull = 256 /\ Table!SizeCompact = 16
      /\ Table!SizeFull * N \in Nat /\ Table!SizeCompact * N \in Nat
  BY TableSizes DEF TableInv
<1>3. current = 0 /\ dive = <<>> /\ scanned = 0 /\ next = 1 /\ pc \in {"compact", "header"} /\ (compact <=> pc # "header")
  BY DEF TableInv, CountInv, Table!ReadCompact, Table!ReadHeaders
<1>4. CASE pc' = "done"
  <2>1. PICK total \in Nat : Table!Fails(total) /\ compact' = compact
    BY <1>2, <1>4 DEF Table!ReadCompact, Table!ReadHeaders
  <2> QED BY <1>1, <2>1, TableFails
<1>5. CASE pc' # "done"
  <2>1. /\ status' = status
        /\ \/ pc' = "scan" /\ compact' = compact /\ compact /\ current' = current + Table!SizeCompact * N
           \/ pc' = "header" /\ compact' = FALSE /\ current' = current
           \/ pc' = "scan" /\ compact' = compact /\ ~compact /\ current' = current + Table!SizeFull * N
    BY <1>3, <1>5 DEF Table!ReadCompact, Table!ReadHeaders, Table!Fails, Table!Finish
  <2>2. TableTypes'
    <3>1. current' \in Nat
      <4>1. ASSUME NEW m \in Nat PROVE 0 + m \in Nat
        OBVIOUS
      <4> QED BY <1>2, <1>3, <2>1, <4>1
    <3>2. compact' \in BOOLEAN
      BY <2>1 DEF TableInv, TableTypes
    <3> QED BY <1>1, <2>1, <3>1, <3>2, EntriesStay DEF TableInv, TableTypes
  <2>3. PlanInv'
    BY <1>1, <1>3 DEF TableInv, PlanInv
  <2>4. CountInv'
    <3>1. Sums([k \in 0 .. 0 |-> 0])'
      BY <1>1, <1>3 DEF Sums
    <3>2. plan'.size = 0
      <4>1. PICK t : Sums(t) /\ plan.size = t[Len(dive)]
        BY <1>3 DEF TableInv, CountInv
      <4> QED BY <1>1, <1>3, <4>1 DEF Sums
    <3>3. pc' = "scan" => current' = Logbook'
      BY <1>2, <1>3, <2>1 DEF Logbook, Table!LogbookSize
    <3> QED BY <1>1, <1>3, <2>1, <3>1, <3>2, <3>3 DEF CountInv
  <2> QED BY <2>2, <2>3, <2>4 DEF TableInv
<1> QED BY <1>4, <1>5

LEMMA TableScan ==
  ASSUME Table!OstcAssumption, TableInv, Table!Scan PROVE TableInv'
<1> DEFINE i == (Table!Latest + N - scanned) % N
<1>1. /\ pc = "scan" /\ scanned < N
      /\ UNCHANGED <<header, fingerprint, compact, next, handed, stopped, current, maximum>>
  BY DEF Table!Scan, Table!device, Table!progress
<1>2. /\ N \in Nat \ {0} /\ Table!SizeFull = 256 /\ Logbook \in Nat
      /\ \A j \in 0 .. N - 1 : Table!Length(j) \in Int
      /\ Table!Entries \subseteq 0 .. N - 1
  BY TableSizes DEF TableInv
<1>3. scanned \in Nat /\ scanned + 1 \in 0 .. N
  BY <1>1, <1>2 DEF TableInv, TableTypes
<1>4. CASE pc' = "done"
  <2>1. status' = "DATAFORMAT" /\ UNCHANGED <<scanned, dive, plan>>
    BY <1>1, <1>4 DEF Table!Scan, Table!Finish, Table!logbook
  <2>2. TableTypes'
    BY <1>1, <1>4, <2>1, EntriesStay DEF TableInv, TableTypes
  <2>3. PlanInv'
    BY <1>1, <2>1, PlanStays DEF TableInv
  <2>4. CountInv'
    BY <1>4, <2>1 DEF CountInv
  <2> QED BY <2>2, <2>3, <2>4 DEF TableInv
<1>5. CASE /\ dive' = dive /\ plan' = plan /\ status' = status
           /\ \/ scanned' = scanned + 1 /\ pc' = pc
              \/ scanned' = scanned /\ pc' = "planned"
  <2>1. TableTypes'
    <3>1. scanned' \in 0 .. N /\ Len(dive) <= scanned'
      BY <1>3, <1>5 DEF TableInv, TableTypes
    <3> QED BY <1>1, <1>5, <3>1, EntriesStay DEF TableInv, TableTypes
  <2>2. PlanInv' /\ Logbook' = Logbook /\ \A t : Sums(t)' <=> Sums(t)
    BY <1>1, <1>5, PlanStays DEF TableInv
  <2>3. CountInv'
    BY <1>1, <1>5, <2>2 DEF TableInv, CountInv
  <2> QED BY <2>1, <2>2, <2>3 DEF TableInv
<1>6. CASE /\ i \in Table!Entries /\ ~Table!Invalid(i)
           /\ dive' = Append(dive, i) /\ scanned' = scanned + 1
           /\ plan' = [size    |-> plan.size + Table!Length(i),
                       largest |-> IF Table!Length(i) > plan.largest THEN Table!Length(i) ELSE plan.largest]
           /\ UNCHANGED <<pc, status>>
  <2> HIDE DEF i
  <2>1. Table!Length(i) \in Nat /\ 256 <= Table!Length(i)
    BY <1>2, <1>6 DEF Table!Invalid
  <2>2. /\ dive \in Seq(Table!Entries) /\ Len(dive) \in Nat /\ dive' \in Seq(Table!Entries)
        /\ Len(dive') = Len(dive) + 1 /\ dive'[Len(dive) + 1] = i
        /\ \A k \in 1 .. Len(dive) : dive'[k] = dive[k]
    BY <1>6 DEF TableInv, TableTypes
  <2>4. TableTypes'
    <3>1. scanned' \in 0 .. N /\ Len(dive') <= scanned' /\ next \in 1 .. Len(dive') + 1
      BY <1>3, <1>6, <2>2 DEF TableInv, TableTypes
    <3> QED BY <1>1, <1>6, <2>2, <3>1, EntriesStay DEF TableInv, TableTypes
  <2>5. PlanInv'
    <3>1. /\ plan.largest \in Nat /\ plan'.largest \in Nat
          /\ plan.largest <= plan'.largest /\ Table!Length(i) <= plan'.largest
      BY <1>6, <2>1 DEF TableInv, PlanInv
    <3>2. ASSUME NEW k \in 1 .. Len(dive')
          PROVE  Table!Length(dive'[k]) \in 256 .. plan'.largest
      <4>1. CASE k \in 1 .. Len(dive)
        <5>1. dive'[k] = dive[k]
          BY <2>2, <4>1
        <5>2. Table!Length(dive[k]) \in 256 .. plan.largest
          BY <1>2, <4>1 DEF TableInv, PlanInv
        <5> QED BY <3>1, <5>1, <5>2
      <4>2. CASE k = Len(dive) + 1
        <5>1. dive'[k] = i
          BY <2>2, <4>2
        <5> QED BY <2>1, <3>1, <5>1
      <4> QED BY <2>2, <4>1, <4>2
    <3> QED BY <1>1, <3>1, <3>2 DEF PlanInv, Table!Length, Table!SizeFull
  <2>6. Logbook' = Logbook
    BY <1>1 DEF Logbook, Table!LogbookSize
  <2>7. CountInv'
    <3>1. PICK t : Sums(t) /\ plan.size = t[Len(dive)]
      BY <1>1 DEF TableInv, CountInv
    <3> DEFINE u == [k \in 0 .. Len(dive) + 1 |->
                       IF k = Len(dive) + 1 THEN t[Len(dive)] + Table!Length(i) ELSE t[k]]
    <3>2. t[Len(dive)] \in Nat /\ \A k \in 0 .. Len(dive) : t[k] \in Nat
      BY <2>2, <3>1 DEF Sums
    <3>3. u \in [0 .. Len(dive') -> Nat] /\ u[0] = 0
      <4>1. t[Len(dive)] + Table!Length(i) \in Nat
        BY <2>1, <3>2
      <4>2. \A k \in 0 .. Len(dive) + 1 : k # Len(dive) + 1 => k \in 0 .. Len(dive)
        BY <2>2
      <4>3. 0 \in 0 .. Len(dive) + 1 /\ 0 # Len(dive) + 1 /\ t[0] = 0
        BY <2>2, <3>1 DEF Sums
      <4> QED BY <2>2, <3>2, <4>1, <4>2, <4>3
    <3>4. ASSUME NEW k \in 1 .. Len(dive')
          PROVE  u[k] = u[k - 1] + Table!Length(dive'[k])
      <4>1. CASE k \in 1 .. Len(dive)
        <5>1. u[k] = t[k] /\ u[k - 1] = t[k - 1] /\ dive'[k] = dive[k]
          BY <2>2, <4>1
        <5>2. t[k] = t[k - 1] + Table!Length(dive[k])
          BY <3>1, <4>1 DEF Sums
        <5> QED BY <5>1, <5>2
      <4>2. CASE k = Len(dive) + 1
        <5>1. u[k] = t[Len(dive)] + Table!Length(i) /\ u[k - 1] = t[Len(dive)]
          BY <2>2, <4>2
        <5> QED BY <2>2, <4>2, <5>1
      <4> QED BY <2>2, <4>1, <4>2
    <3>5. u[Len(dive')] = plan'.size
      BY <1>6, <2>2, <3>1
    <3>6. PICK w : w = u
      OBVIOUS
    <3> HIDE DEF u
    <3>7. Sums(w)'
      BY <1>1, <3>3, <3>4, <3>6 DEF Sums, Table!Length
    <3>8. current' = Logbook' /\ next' = 1 /\ pc' = "scan"
      BY <1>1, <1>6, <2>6 DEF TableInv, CountInv
    <3> QED BY <3>5, <3>6, <3>7, <3>8 DEF CountInv
  <2> QED BY <2>4, <2>5, <2>7 DEF TableInv
<1> HIDE DEF i
<1>7. \/ pc' = "done"
      \/ /\ dive' = dive /\ plan' = plan /\ status' = status
         /\ \/ scanned' = scanned + 1 /\ pc' = pc
            \/ scanned' = scanned /\ pc' = "planned"
      \/ /\ i \in Table!Entries /\ ~Table!Invalid(i)
         /\ dive' = Append(dive, i) /\ scanned' = scanned + 1
         /\ plan' = [size    |-> plan.size + Table!Length(i),
                     largest |-> IF Table!Length(i) > plan.largest THEN Table!Length(i) ELSE plan.largest]
         /\ UNCHANGED <<pc, status>>
  BY DEF Table!Scan, Table!Finish, Table!logbook, i
<1> QED BY <1>4, <1>5, <1>6, <1>7 DEF i

LEMMA TablePlanned ==
  ASSUME Table!OstcAssumption, TableInv, Table!Planned PROVE TableInv'
<1>1. /\ pc \in {"planned", "scan"} /\ maximum' = Logbook + plan.size + Len(dive)
      /\ pc' = IF dive = <<>> THEN "return" ELSE "dive"
      /\ UNCHANGED <<header, compact, scanned, dive, plan, next, handed, stopped, current, status>>
  BY DEF Table!Planned, Logbook, Table!device, Table!logbook, Table!report
<1>2. PICK t : Sums(t) /\ plan.size = t[Len(dive)]
  BY <1>1 DEF TableInv, CountInv
<1>3. /\ Logbook \in Nat /\ Len(dive) \in Nat /\ next = 1 /\ current = Logbook
      /\ dive # <<>> => 1 <= Len(dive)
  BY <1>1, TableSizes DEF TableInv, TableTypes, CountInv
<1>4. t[Len(dive)] \in Nat /\ t[0] = 0
  BY <1>2, <1>3 DEF Sums
<1>5. maximum' \in Nat /\ (dive = <<>> => maximum' = Logbook)
  BY <1>1, <1>2, <1>3, <1>4
<1>6. TableTypes'
  BY <1>1, <1>5, EntriesStay DEF TableInv, TableTypes
<1>7. PlanInv' /\ Logbook' = Logbook /\ \A u : Sums(u)' <=> Sums(u)
  BY <1>1, PlanStays DEF TableInv
<1>8. CountInv'
  <2>1. CASE dive = <<>>
    <3>1. pc' = "return" /\ current' = maximum'
      BY <1>1, <1>3, <1>5, <2>1
    <3> QED BY <1>1, <1>2, <1>7, <3>1 DEF CountInv
  <2>2. CASE dive # <<>>
    <3>1. pc' = "dive" /\ next' = 1 /\ next' <= Len(dive') /\ next' - 1 = 0
      BY <1>1, <1>3, <2>2
    <3>2. current' = Logbook' + t[next' - 1] + (next' - 1)
      BY <1>1, <1>3, <1>4, <1>7, <3>1
    <3>3. maximum' = Logbook' + t[Len(dive')] + Len(dive')
      BY <1>1, <1>2, <1>7
    <3> QED BY <1>1, <1>2, <1>7, <3>1, <3>2, <3>3 DEF CountInv
  <2> QED BY <2>1, <2>2
<1> QED BY <1>6, <1>7, <1>8 DEF TableInv

\* Whatever the device sends for a dive, the progress it adds is the one the
\* plan has for it, and no more is handed out than was received.
LEMMA DiveBytes ==
  ASSUME NEW i, NEW r, Table!Length(i) \in Nat, Table!Length(i) >= 256
  PROVE  /\ Table!Received(i, r) \in Nat /\ Table!Received(i, r) >= 256
         /\ Table!ReadBytes(i, r) = 1 + Table!Length(i)
         /\ Table!HandedBytes(i, r) \in Nat
         /\ Table!HandedBytes(i, r) \in Table!SizeFull .. Table!Received(i, r)
<1>1. Table!Received(i, r) \in Nat /\ Table!Received(i, r) >= 256
  BY DEF Table!Received, Table!SizeFull
<1>2. Table!ReadBytes(i, r) = 1 + Table!Length(i)
  BY <1>1 DEF Table!ReadBytes
<1>3. /\ Table!HandedBytes(i, r) \in Nat
      /\ Table!HandedBytes(i, r) \in Table!SizeFull .. Table!Received(i, r)
  BY <1>1 DEF Table!HandedBytes, Table!SizeFull
<1> QED BY <1>1, <1>2, <1>3

LEMMA TableReadDive ==
  ASSUME Table!OstcAssumption, TableInv, Table!ReadDive PROVE TableInv'
<1>1. pc = "dive" /\ UNCHANGED <<header, compact, scanned, dive, plan, maximum>>
  BY DEF Table!ReadDive, Table!device, Table!logbook
<1> DEFINE i == dive[next]
<1>2. PICK r \in Table!Readings :
        \/ /\ current' = current + Table!ReadBytes(i, r)
           /\ IF ~Table!HeaderAccepted(r)
                THEN Table!Finish("DATAFORMAT") /\ UNCHANGED <<handed, stopped, next>>
                ELSE /\ handed' = Append(handed,
                          [dive |-> i, reading |-> r, bytes |-> Table!HandedBytes(i, r),
                           received |-> Table!Received(i, r)])
                     /\ next' = next + 1
                     /\ stopped' \in BOOLEAN
                     /\ pc' = IF stopped' \/ next = Len(dive) THEN "return" ELSE "dive"
                     /\ UNCHANGED status
        \/ Table!Fails(Table!ReadBytes(i, r)) /\ UNCHANGED <<handed, stopped, next>>
  BY DEF Table!ReadDive
<1>3. /\ next \in 1 .. Len(dive) /\ Len(dive) \in Nat /\ i \in 0 .. N - 1
      /\ current \in Nat /\ Logbook \in Nat
  <2>1. next \in 1 .. Len(dive) /\ Len(dive) \in Nat /\ i \in Table!Entries
    BY <1>1 DEF TableInv, TableTypes, CountInv
  <2> QED BY <2>1, TableSizes DEF TableInv, TableTypes
<1>4. Table!Length(i) \in Nat /\ Table!Length(i) >= 256
  BY <1>3 DEF TableInv, PlanInv, Table!SizeFull
<1> HIDE DEF i
<1>5. /\ Table!Received(i, r) \in Nat /\ Table!ReadBytes(i, r) = 1 + Table!Length(i)
      /\ Table!HandedBytes(i, r) \in Nat
      /\ Table!HandedBytes(i, r) \in Table!SizeFull .. Table!Received(i, r)
  BY <1>4, DiveBytes
<1>6. PlanInv' /\ Logbook' = Logbook /\ \A t : Sums(t)' <=> Sums(t)
  BY <1>1, PlanStays DEF TableInv
<1>7. CASE Table!Fails(Table!ReadBytes(i, r)) /\ UNCHANGED <<handed, stopped, next>>
  <2>1. Table!ReadBytes(i, r) \in Nat
    BY <1>4, <1>5
  <2> QED BY <1>1, <1>7, <2>1, TableFails
<1>8. CASE /\ current' = current + Table!ReadBytes(i, r) /\ Table!Finish("DATAFORMAT")
           /\ UNCHANGED <<handed, stopped, next>>
  <2>1. pc' = "done" /\ status' = "DATAFORMAT"
    BY <1>8 DEF Table!Finish
  <2>2. current' \in Nat
    BY <1>3, <1>4, <1>5, <1>8
  <2>3. TableTypes'
    BY <1>1, <1>8, <2>1, <2>2, EntriesStay DEF TableInv, TableTypes
  <2>4. CountInv'
    BY <2>1 DEF CountInv
  <2> QED BY <1>6, <2>3, <2>4 DEF TableInv
<1>9. CASE /\ current' = current + Table!ReadBytes(i, r) /\ Table!HeaderAccepted(r)
           /\ handed' = Append(handed,
                 [dive |-> i, reading |-> r, bytes |-> Table!HandedBytes(i, r),
                  received |-> Table!Received(i, r)])
           /\ next' = next + 1
           /\ pc' = IF stopped' \/ next = Len(dive) THEN "return" ELSE "dive"
           /\ UNCHANGED status
  <2>1. r # "otherSummary"
    BY <1>9 DEF Table!HeaderAccepted
  <2>2. [dive |-> i, reading |-> r, bytes |-> Table!HandedBytes(i, r),
         received |-> Table!Received(i, r)] \in Handed
    BY <1>3, <1>5, <2>1 DEF Handed
  <2>3. handed' \in Seq(Handed)
    BY <1>9, <2>2 DEF TableInv, TableTypes
  <2>4. current' \in Nat /\ next' \in 1 .. Len(dive) + 1
    BY <1>3, <1>4, <1>5, <1>9
  <2>5. TableTypes'
    BY <1>1, <1>9, <2>3, <2>4, EntriesStay DEF TableInv, TableTypes
  <2>6. PICK t : /\ Sums(t) /\ plan.size = t[Len(dive)]
                 /\ current = Logbook + t[next - 1] + (next - 1)
                 /\ maximum = Logbook + t[Len(dive)] + Len(dive)
    BY <1>1 DEF TableInv, CountInv
  <2>7. t[next - 1] \in Nat /\ t[next] \in Nat /\ t[next] = t[next - 1] + Table!Length(i)
    BY <1>3, <2>6 DEF Sums, i
  <2>8. current' = Logbook + t[next] + next
    <3>1. PICK l \in Nat : l = Logbook
      BY <1>3
    <3>2. PICK a \in Nat : a = t[next - 1]
      BY <2>7
    <3>3. PICK b \in Nat : b = Table!Length(i)
      BY <1>4
    <3>4. current' = (l + a + (next - 1)) + (1 + b) /\ t[next] = a + b
      BY <1>5, <1>9, <2>6, <2>7, <3>1, <3>2, <3>3
    <3>5. (l + a + (next - 1)) + (1 + b) = l + (a + b) + next
      BY <1>3
    <3> QED BY <3>1, <3>4, <3>5
  <2>9. CountInv'
    <3>1. CASE next = Len(dive)
      <4>1. pc' = "return" /\ current' = maximum'
        BY <1>1, <1>9, <2>6, <2>8, <3>1
      <4> QED BY <1>1, <1>6, <2>6, <4>1 DEF CountInv
    <3>2. CASE next # Len(dive) /\ stopped'
      <4>1. pc' = "return"
        BY <1>9, <3>2
      <4> QED BY <1>1, <1>6, <2>6, <3>2, <4>1 DEF CountInv
    <3>3. CASE next # Len(dive) /\ ~stopped'
      <4>1. pc' = "dive"
        BY <1>9, <3>3
      <4>2. next' <= Len(dive') /\ next' - 1 = next
        BY <1>1, <1>3, <1>9, <3>3
      <4>3. current' = Logbook' + t[next' - 1] + (next' - 1)
        BY <1>6, <2>8, <4>2
      <4>4. maximum' = Logbook' + t[Len(dive')] + Len(dive')
        BY <1>1, <1>6, <2>6
      <4> QED BY <1>1, <1>6, <2>6, <4>1, <4>2, <4>3, <4>4 DEF CountInv
    <3> QED BY <3>1, <3>2, <3>3
  <2> QED BY <1>6, <2>5, <2>9 DEF TableInv
<1> QED BY <1>2, <1>7, <1>8, <1>9

LEMMA TableReturn ==
  ASSUME Table!OstcAssumption, TableInv, Table!Return PROVE TableInv'
<1>1. /\ pc = "return" /\ pc' = "done" /\ status' = "SUCCESS"
      /\ UNCHANGED <<header, compact, scanned, dive, plan, next, handed, stopped, current, maximum>>
  BY DEF Table!Return, Table!Finish, Table!device, Table!logbook, Table!progress
<1>2. TableTypes'
  BY <1>1, EntriesStay DEF TableInv, TableTypes
<1>3. PlanInv'
  BY <1>1, PlanStays DEF TableInv
<1>4. CountInv'
  BY <1>1 DEF TableInv, CountInv
<1> QED BY <1>2, <1>3, <1>4 DEF TableInv

LEMMA TableStutter ==
  ASSUME TableInv, UNCHANGED Table!vars PROVE TableInv'
<1>1. UNCHANGED <<header, pc, status, compact, scanned, dive, plan, next, handed, stopped, current, maximum>>
  BY DEF Table!vars, Table!device, Table!logbook, Table!report, Table!progress
<1>2. TableTypes'
  BY <1>1, EntriesStay DEF TableInv, TableTypes
<1>3. PlanInv' /\ Logbook' = Logbook /\ \A t : Sums(t)' <=> Sums(t)
  BY <1>1, PlanStays DEF TableInv
<1>4. CountInv'
  BY <1>1, <1>3 DEF TableInv, CountInv
<1> QED BY <1>2, <1>3, <1>4 DEF TableInv

\* The types, the plan and the count of the progress hold throughout
\* hw_ostc3_device_foreach: the maximum announced after the walk over the
\* headers is the sum of what the dives will add, whatever is deleted, has an
\* unusual length or is overwritten before it is read.
THEOREM TableInvariance ==
  ASSUME Table!OstcAssumption PROVE Table!Spec => []TableInv
<1>1. Table!Init => TableInv
  BY TableInit
<1>2. TableInv /\ [Table!Next]_(Table!vars) => TableInv'
  <2> SUFFICES ASSUME TableInv, [Table!Next]_(Table!vars) PROVE TableInv'
    OBVIOUS
  <2>1. CASE UNCHANGED Table!vars
    BY <2>1, TableStutter
  <2>2. CASE Table!Next
    <3>1. ASSUME Table!Done PROVE TableInv'
      BY <3>1, TableStutter DEF Table!Done
    <3> QED BY <2>2, <3>1, TableOpening, TableHeaders, TableScan, TablePlanned, TableReadDive,
               TableReturn DEF Table!Next
  <2> QED BY <2>1, <2>2
<1> QED BY <1>1, <1>2, PTL DEF Table!Spec

\* The types of the driver's variables; in particular the dive that is read
\* next is in the list, and the buffer, which is allocated once for the largest
\* dive of the plan, has room for it.
THEOREM TableTypeCorrect ==
  ASSUME Table!OstcAssumption PROVE Table!Spec => []Table!TypeOK
<1>1. TableInv => Table!TypeOK
  <2> SUFFICES ASSUME TableInv PROVE Table!TypeOK
    OBVIOUS
  <2>1. pc = "dive" => next <= Len(dive) /\ Table!Length(dive[next]) <= plan.largest
    BY DEF TableInv, TableTypes, PlanInv, CountInv, Table!SizeFull
  <2> QED BY <2>1 DEF TableInv, TableTypes, Table!TypeOK, Table!Errors
<1> QED BY <1>1, TableInvariance, PTL

\* No dive whose summary or number is not that of its logbook header reaches
\* the callback, and none with bytes of an earlier, longer dive that are still
\* in the buffer the dives share.
THEOREM TableOwnBytes ==
  ASSUME Table!OstcAssumption
  PROVE  Table!Spec => [](Table!NoForeignDive /\ Table!NothingLeftOver)
<1>1. TableInv => Table!NoForeignDive /\ Table!NothingLeftOver
  <2> SUFFICES ASSUME TableInv, NEW k \in DOMAIN handed
               PROVE  /\ handed[k].reading # "otherSummary"
                      /\ handed[k].bytes \in Table!SizeFull .. handed[k].received
    BY DEF Table!NoForeignDive, Table!NothingLeftOver
  <2>1. handed[k] \in Handed
    BY DEF TableInv, TableTypes
  <2> QED BY <2>1 DEF Handed
<1> QED BY <1>1, TableInvariance, PTL

\* A download of every dive that ends with DC_STATUS_SUCCESS has reported all
\* of the progress it announced: the walk over the headers and the reading of
\* the dives agree on every length, also for an invalidated dive that sends
\* less than its header says.
THEOREM TableProgress ==
  ASSUME Table!OstcAssumption PROVE Table!Spec => []Table!ProgressComplete
<1>1. TableInv => Table!ProgressComplete
  BY DEF TableInv, CountInv, Table!ProgressComplete
<1> QED BY <1>1, TableInvariance, PTL
=============================================================================
