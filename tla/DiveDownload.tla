---------------------------- MODULE DiveDownload ----------------------------
(***************************************************************************)
(* What dc_device_foreach promises an application, whatever the driver:    *)
(* the dives the device holds are handed to the callback newest first,     *)
(* each once and none left out, up to and excluding the dive with the      *)
(* fingerprint; a download that returns DC_STATUS_SUCCESS has handed out   *)
(* all of them unless the callback asked to stop; the device information   *)
(* the parsers need is known before the first dive; and progress never     *)
(* runs backward or past its maximum (the assertions of                    *)
(* device_event_emit).                                                     *)
(***************************************************************************)
EXTENDS Integers, Sequences

VARIABLES
  phase,       \* "idle", "running", "done"
  log,         \* the dives this download has to hand out, newest first
  delivered,   \* the dives handed to the callback so far
  stopped,     \* the callback returned zero
  info,        \* DC_EVENT_DEVINFO was emitted
  current, maximum,   \* the last progress event
  status

dlvars == <<phase, log, delivered, stopped, info, current, maximum, status>>

Init ==
  /\ phase = "idle" /\ delivered = <<>> /\ stopped = FALSE
  /\ info = FALSE /\ current = 0 /\ maximum = 0 /\ status = "none"

Begin ==
  /\ phase = "idle"
  /\ phase' = "running" /\ info' \in BOOLEAN
  /\ current' = 0 /\ maximum' \in Nat \ {0}
  /\ UNCHANGED <<log, delivered, stopped, status>>

\* Any number of events between two callbacks.
Advance ==
  /\ phase = "running"
  /\ current' \in Nat /\ current' >= current
  /\ maximum' \in Nat \ {0} /\ current' <= maximum'
  /\ info => info'
  /\ UNCHANGED <<phase, log, delivered, stopped, status>>

Deliver ==
  /\ phase = "running" /\ ~stopped /\ info
  /\ Len(delivered) < Len(log)
  /\ delivered' = Append(delivered, log[Len(delivered) + 1])
  /\ stopped' \in BOOLEAN
  /\ info' = TRUE
  /\ current' \in Nat /\ current' >= current
  /\ maximum' \in Nat \ {0} /\ current' <= maximum'
  /\ UNCHANGED <<phase, log, status>>

End ==
  /\ phase = "running"
  /\ phase' = "done"
  /\ status' = "SUCCESS" => stopped \/ delivered = log
  /\ status' # "none"
  /\ current' \in Nat /\ current' >= current
  /\ maximum' \in Nat \ {0} /\ current' <= maximum'
  /\ info => info'
  /\ UNCHANGED <<log, delivered, stopped>>

Next == Begin \/ Advance \/ Deliver \/ End

Spec == Init /\ [][Next]_dlvars
=============================================================================
