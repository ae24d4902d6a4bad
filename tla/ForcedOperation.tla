--------------------------- MODULE ForcedOperation ---------------------------
(***************************************************************************)
(* What the trading engine promises about the battery, with none of its    *)
(* timers, windows or readings: a forced operation (charge or discharge)   *)
(* is in effect only while the engine answers for it, a session is settled *)
(* only once the battery stands still, and a settled session is put in the *)
(* trade log before the next forced operation begins.                      *)
(* TradingEngine implements this specification.                            *)
(***************************************************************************)

Modes == {"stop", "charge", "discharge"}
Forced == {"charge", "discharge"}

(* off: no engine runs.  free: nothing is forced.  engaged: the engine     *)
(* answers for a forced operation.  owed: a session has ended, its trade   *)
(* is not in the log yet.                                                  *)
Phases == {"off", "free", "engaged", "owed"}

VARIABLES
  phase,    \* the responsibility of the engine
  mode,     \* the mode the battery is really in
  session   \* TRUE: the forced operation was confirmed and counts as a trade

vars == <<phase, mode, session>>

Init == phase = "off" /\ mode \in Modes /\ session = FALSE

\* A starting engine takes over only a battery that it has brought to rest.
Start ==
  /\ phase = "off"
  /\ phase' = "free" /\ mode' = "stop" /\ UNCHANGED session

\* An attempt to start that fails leaves the mode of a battery nobody owns.
Reset == phase = "off" /\ mode' \in {mode, "stop"} /\ UNCHANGED <<phase, session>>

Engage ==
  /\ phase = "free"
  /\ phase' = "engaged" /\ UNCHANGED <<mode, session>>

\* One direction per session: a forced battery is first brought to rest.
Drive ==
  /\ phase = "engaged"
  /\ mode' \in Modes
  /\ mode # "stop" => mode' \in {mode, "stop"}
  /\ UNCHANGED <<phase, session>>

Confirm ==
  /\ phase = "engaged" /\ ~session
  /\ session' = TRUE /\ UNCHANGED <<phase, mode>>

\* The attempt never became a session: there is nothing to log.
Abandon ==
  /\ phase = "engaged" /\ ~session
  /\ phase' = "free" /\ mode' = "stop" /\ UNCHANGED session

Settle ==
  /\ phase = "engaged" /\ session
  /\ phase' = "owed" /\ mode' = "stop" /\ UNCHANGED session

\* Writing the trade may lead straight into the next operation.
Record ==
  /\ phase = "owed"
  /\ phase' \in {"free", "engaged"}
  /\ session' = FALSE /\ UNCHANGED mode

\* An engine that leaves in good order leaves a battery at rest behind.
Leave ==
  /\ phase \in {"free", "engaged"}
  /\ phase' = "off" /\ mode' = "stop" /\ session' = FALSE

\* A crash, or a shutdown that gave up, leaves the battery as it was.
Die ==
  /\ phase # "off"
  /\ phase' = "off" /\ session' = FALSE /\ UNCHANGED mode

Next == \/ Start \/ Reset \/ Engage \/ Drive \/ Confirm
        \/ Abandon \/ Settle \/ Record \/ Leave \/ Die

Spec == Init /\ [][Next]_vars

TypeOK ==
  /\ phase \in Phases
  /\ mode \in Modes
  /\ session \in BOOLEAN

(* The battery stands still whenever the engine answers for nothing, and   *)
(* only an operation the engine answers for counts as a session.           *)
AtRest ==
  /\ phase \in {"free", "owed"} => mode = "stop"
  /\ session => phase \in {"engaged", "owed"}
==============================================================================
