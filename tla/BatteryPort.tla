----------------------------- MODULE BatteryPort -----------------------------
(***************************************************************************)
(* What a battery driver promises its caller (service/interfaces.go): one  *)
(* command at a time, the battery's mode moves only to the mode that is    *)
(* commanded, and a command that is answered with success has moved it.    *)
(* A command that fails may have been carried out or not.  TradingEngine   *)
(* is written against this promise.                                        *)
(***************************************************************************)
CONSTANT Modes

VARIABLES
  commanded,   \* the mode of the command that is running, or "none"
  mode,        \* the mode the battery is in, or is bound to go to
  answer       \* of the last command: "ok", or "error" until it is

vars == <<commanded, mode, answer>>

Init == commanded = "none" /\ mode \in Modes /\ answer = "error"

Command ==
  /\ commanded = "none" /\ commanded' \in Modes /\ answer' = "error"
  /\ UNCHANGED mode

Obey ==
  /\ commanded # "none" /\ mode' = commanded
  /\ UNCHANGED <<commanded, answer>>

Succeed ==
  /\ commanded = mode /\ commanded' = "none" /\ answer' = "ok"
  /\ UNCHANGED mode

Fail ==
  /\ commanded # "none" /\ commanded' = "none" /\ answer' = "error"
  /\ mode' \in {mode, commanded}

Next == Command \/ Obey \/ Succeed \/ Fail

Spec == Init /\ [][Next]_vars
==============================================================================
