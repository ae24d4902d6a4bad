---------------------------- MODULE SolarHistory -----------------------------
(***************************************************************************)
(* The solar side of the trading engine with a memory of what really       *)
(* happened: how the last sessions ended, and how long ago the last one    *)
(* did.  What the code's counter and deadline are for is stated about that *)
(* memory, not about the two.                                              *)
(***************************************************************************)
EXTENDS TradingEngine, Sequences

VARIABLES
  recent,    \* how the last BackoffCount solar sessions ended, latest first
  sinceEnd   \* time since the latest one was recorded

history == <<recent, sinceEnd>>

HInit == Init /\ recent = <<>> /\ sinceEnd = SolarCap

SolarEnd == pc = "record" /\ pc' \in {"loop", "command"} /\ ended.reason # "none"

Kind ==
  CASE ended.reason = "telemetry" -> "telemetry"
    [] ended.reason = "surplus_gone" /\ ended.short -> "marginal"
    [] OTHER -> "other"

Remember ==
  /\ recent' = IF pc' = "boot" THEN <<>>
               ELSE IF SolarEnd
                 THEN SubSeq(<<Kind>> \o recent, 1, Least(Len(recent) + 1, BackoffCount))
                 ELSE recent
  /\ sinceEnd' = IF pc' = "boot" THEN SolarCap ELSE IF SolarEnd THEN 0 ELSE sinceEnd

HNext ==
  \/ Elapse /\ sinceEnd' = Up(sinceEnd, SolarCap) /\ UNCHANGED recent
  \/ Act /\ Remember

HSpec == HInit /\ [][HNext]_<<vars, history>>

-----------------------------------------------------------------------------
\* The engine gives the command that starts a solar session.
StartsSolar == pc # "command" /\ pc' = "command" /\ goal' = "solar_charging"

\* The rest the battery is owed after sessions that ended as recent says.
RestDue ==
  CASE recent = <<>> -> 0
    [] recent # <<>> /\ recent[1] = "telemetry" -> FailureCooldown
    [] recent # <<>> /\ recent[1] = "other" -> RestartCooldown
    [] OTHER -> IF Len(recent) = BackoffCount /\ \A i \in DOMAIN recent : recent[i] = "marginal"
                  THEN LongBackoff ELSE ShortCooldown

(* Anti-cycling (service.go 39-46, stopSolarChargingLocked): however       *)
(* sessions, failed starts, scheduled windows and failing stops follow one *)
(* another, a solar session starts only after the rest that the way the    *)
(* last ones ended calls for.                                              *)
BackoffHonoured == [][StartsSolar => sinceEnd >= RestDue]_<<vars, history>>

=============================================================================
