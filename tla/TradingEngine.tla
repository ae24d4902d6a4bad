---------------------------- MODULE TradingEngine ----------------------------
(***************************************************************************)
(* The trading loop of service/service.go: one goroutine selects among the *)
(* shutdown signal, the minute tick and the solar tick, and runs one       *)
(* handler at a time.  A handler gives up the lock for every network call; *)
(* each call is a step of its own here (pc names the call that is pending),*)
(* so that the clock, the prices' windows, the battery's charge, a signal  *)
(* and a crash fall between any two of them.                               *)
(*                                                                         *)
(* Instants are kept as what is left of a timer or as the age of an event, *)
(* both capped where the code stops telling values apart.  Watts are kept  *)
(* as the comparisons the code makes with them, the SOC as its class.      *)
(***************************************************************************)
EXTENDS Integers

CONSTANTS
  MeterEnabled,          \* BOOLEAN: a P1 meter is configured
  Slots,                 \* the situations on the price calendar that can occur
  Qualification,         \* solarStartQualificationCount
  Debounce,              \* solarStopDebounceCount
  TelemetryThreshold,    \* solarStatusFailureThreshold
  BackoffCount,          \* solarShortSessionBackoffCount
  MinSession,            \* solarMinSessionDuration
  ShortSession,          \* solarShortSessionThreshold
  RestartCooldown,       \* solarRestartCooldown
  ShortCooldown,         \* solarShortSessionCooldown
  LongBackoff,           \* solarLongBackoffCooldown
  FailureCooldown,       \* batteryControlFailureCooldown
  StopRetry,             \* batteryStopRetryInterval
  SettleTime,                \* the battery's ramp-up time (5 s)
  RefreshAt              \* 80% of PASSIVE_MODE_TIMEOUT_S

(* noplan: no profitable plan.  unpriced: there is one, but no price for   *)
(* the current slot (yesterday's prices after midnight).  The others: where*)
(* the current slot lies with respect to the plan's windows.               *)
AllSlots == {"noplan", "unpriced", "between", "charge", "discharge"}
Windows  == {"charge", "discharge"}

(* low: at most BATTERY_MIN_SOC.  full: 100%.                              *)
Socs  == {"low", "mid", "full"}
Modes == {"stop", "charge", "discharge"}

Scheduled == {"charging", "discharging"}
Sessions  == Scheduled \cup {"solar_charging"}
States    == Sessions \cup {"idle", "stopping"}
Reasons   == {"none", "surplus_gone", "battery_full", "yield_window", "telemetry"}

ASSUME TypeAssumption ==
  /\ MeterEnabled \in BOOLEAN
  /\ Slots \subseteq AllSlots /\ Slots # {}
  /\ {Qualification, Debounce, TelemetryThreshold, BackoffCount} \subseteq Nat \ {0}
  /\ {MinSession, ShortSession, RestartCooldown, ShortCooldown, LongBackoff,
      FailureCooldown, StopRetry, SettleTime, RefreshAt} \subseteq Nat \ {0}

VARIABLES
  state,            \* Service.state
  stopWait,         \* left of stopRetryDelay since lastStopAttempt, 0: none pending
  cooldown,         \* left until batteryCooldownUntil
  solarCooldown,    \* left until solarCooldownUntil
  refreshAge,       \* since lastPassiveRefresh
  sessionAge,       \* since currentTradeStart
  surplusCount,     \* solarSurplusCount
  stopCount,        \* solarStopCount
  statusFailures,   \* solarStatusFailures
  shortSessions,    \* solarConsecutiveShortSessions
  pc,               \* the network call, or the wait, the loop is at
  seen,             \* what the handler read before its current call
  goal,             \* the session the handler is starting, or will after a stop
  ended,            \* how the session that is being stopped came to its end
  mode,             \* the battery: the mode it is really in
  soc,              \* the battery: class of its state of charge
  slot,             \* the clock, on the calendar of the current plan
  cancelled,        \* ctx.Done: the process was asked to stop
  open              \* history: sessions begun by this process, not recorded

timers  == <<stopWait, cooldown, solarCooldown, refreshAge, sessionAge>>
counts  == <<surplusCount, stopCount, statusFailures, shortSessions>>
handler == <<seen, goal, ended>>
world   == <<mode, soc, slot, cancelled>>
vars    == <<state, timers, counts, pc, handler, world, open>>

PCs == {"down", "exited", "boot", "loop", "tick", "solar", "command", "verify",
        "undo", "release", "record", "refresh", "halt"}
\* An attempt to start a session is under way.
Attempting == pc \in {"command", "verify", "undo"}
Running == pc \notin {"down", "exited", "boot"}

Views == [slot : AllSlots, cooling : BOOLEAN, surplus : BOOLEAN]
Ends  == [reason : Reasons, short : BOOLEAN]
NoView == [slot |-> "noplan", cooling |-> FALSE, surplus |-> FALSE]
NoEnd  == [reason |-> "none", short |-> FALSE]

Least(a, b)  == IF a < b THEN a ELSE b
Up(n, cap)   == Least(n + 1, cap)
Down(n)      == IF n > 0 THEN n - 1 ELSE 0
Most(a, b)   == IF a > b THEN a ELSE b
AgeCap       == Most(MinSession, ShortSession)
RefreshCap   == Most(SettleTime, RefreshAt)
SolarCap     == Most(Most(RestartCooldown, ShortCooldown), Most(LongBackoff, FailureCooldown))

ModeOf(s) == IF s = "discharging" THEN "discharge" ELSE "charge"

TimersTyped ==
  /\ stopWait \in 0..StopRetry
  /\ cooldown \in 0..FailureCooldown
  /\ solarCooldown \in 0..SolarCap
  /\ refreshAge \in 0..RefreshCap
  /\ sessionAge \in 0..AgeCap

CountsTyped ==
  /\ surplusCount \in 0..Qualification
  /\ stopCount \in 0..Debounce
  /\ statusFailures \in 0..TelemetryThreshold
  /\ shortSessions \in 0..BackoffCount
  /\ open \in Int

HandlerTyped ==
  /\ pc \in PCs
  /\ state \in States
  /\ seen \in Views
  /\ goal \in Sessions \cup {"none"}
  /\ Attempting => goal # "none"
  /\ ended \in Ends

WorldTyped ==
  /\ mode \in Modes /\ soc \in Socs /\ slot \in AllSlots /\ cancelled \in BOOLEAN

TypeOK == TimersTyped /\ CountsTyped /\ HandlerTyped /\ WorldTyped

-----------------------------------------------------------------------------
(* The process: Start, a signal, and the ways it ends.                     *)

\* New(): everything the service keeps in memory.
Fresh ==
  /\ state = "idle" /\ stopWait = 0 /\ cooldown = 0 /\ solarCooldown = 0
  /\ refreshAge = RefreshCap /\ sessionAge = AgeCap
  /\ surplusCount = 0 /\ stopCount = 0 /\ statusFailures = 0 /\ shortSessions = 0
  /\ seen = NoView /\ goal = "none" /\ ended = NoEnd /\ open = 0

\* What dies with a process, and a new one sets up again.
Forget ==
  /\ state' = "idle" /\ stopWait' = 0 /\ cooldown' = 0 /\ solarCooldown' = 0
  /\ refreshAge' = RefreshCap /\ sessionAge' = AgeCap
  /\ surplusCount' = 0 /\ stopCount' = 0 /\ statusFailures' = 0 /\ shortSessions' = 0
  /\ seen' = NoView /\ goal' = "none" /\ ended' = NoEnd /\ open' = 0

\* The battery may be in any mode, left so by an earlier run.
Init ==
  /\ Fresh /\ pc = "down"
  /\ mode \in Modes /\ soc \in Socs /\ slot \in Slots /\ cancelled = FALSE

Launch ==
  /\ pc \in {"down", "exited"}
  /\ pc' = "boot" /\ cancelled' = FALSE
  /\ UNCHANGED <<state, timers, counts, handler, mode, soc, slot, open>>

\* Start: the loop is entered only after a confirmed stop of the battery.
BootOk ==
  /\ pc = "boot" /\ ~cancelled
  /\ mode' = "stop" /\ pc' = "loop" /\ slot' \in Slots
  /\ UNCHANGED <<state, timers, counts, handler, soc, cancelled, open>>

BootFails ==
  /\ pc = "boot"
  /\ mode' \in {mode, "stop"} /\ pc' = "down"
  /\ UNCHANGED <<state, timers, counts, handler, soc, slot, cancelled, open>>

\* SIGINT or SIGTERM reaches the context, whatever the loop is doing.
Signal ==
  /\ pc \notin {"down", "exited"} /\ ~cancelled
  /\ cancelled' = TRUE
  /\ UNCHANGED <<state, timers, counts, pc, handler, mode, soc, slot, open>>

\* The process dies, and with it what it kept in memory; the battery stays.
Crash ==
  /\ pc \notin {"down", "exited"}
  /\ Forget /\ pc' = "down"
  /\ UNCHANGED world

\* stopBatteryOnShutdown: the state is not touched and no trade is recorded.
Shutdown ==
  /\ pc = "loop" /\ cancelled
  /\ pc' = "halt"
  /\ UNCHANGED <<state, timers, counts, handler, world, open>>

HaltOk ==
  /\ pc = "halt"
  /\ Forget /\ pc' = "exited" /\ mode' = "stop"
  /\ UNCHANGED <<soc, slot, cancelled>>

\* Mutant: no batteryShutdownTimeout.
HaltRetriesForEver ==
  /\ pc = "halt"
  /\ mode' \in {mode, "stop"}
  /\ UNCHANGED <<state, timers, counts, pc, handler, open, soc, slot, cancelled>>

\* A failed attempt is repeated, until batteryShutdownTimeout has passed.
HaltFails ==
  /\ pc = "halt"
  /\ mode' \in {mode, "stop"}
  /\ \/ UNCHANGED <<state, timers, counts, pc, handler, open>>
     \/ Forget /\ pc' = "down"
  /\ UNCHANGED <<soc, slot, cancelled>>

-----------------------------------------------------------------------------
(* What the handlers have in common.                                       *)

\* Back to the select of the main loop.
Return ==
  /\ pc' = "loop"
  /\ seen' = NoView /\ goal' = "none" /\ ended' = NoEnd

\* transitionToIdleLocked and its callers up to the network call: not again
\* before stopRetryDelay.  then: the session to start once this one is over.
Stop(reason, then) ==
  \/ stopWait > 0 /\ Return /\ UNCHANGED stopWait
  \/ /\ stopWait = 0
     /\ stopWait' = StopRetry
     /\ pc' = "release" /\ goal' = then /\ seen' = NoView
     /\ ended' = [reason |-> reason, short |-> sessionAge < ShortSession]

Begin(kind) ==
  /\ pc' = "command"
  /\ goal' = kind /\ seen' = NoView /\ ended' = NoEnd

\* ChargeContext or DischargeContext for a new session.
CommandOk ==
  /\ pc = "command" /\ ~cancelled
  /\ mode' = ModeOf(goal) /\ pc' = "verify"
  /\ UNCHANGED <<state, timers, counts, handler, soc, slot, cancelled, open>>

\* The command was refused, or done and its answer lost.
CommandFails ==
  /\ pc = "command"
  /\ mode' \in {mode, ModeOf(goal)} /\ pc' = "undo"
  /\ UNCHANGED <<state, timers, counts, handler, soc, slot, cancelled, open>>

\* waitForBatteryPower saw the power it asked for: the session begins.
VerifyOk ==
  /\ pc = "verify" /\ ~cancelled
  /\ state' = goal
  /\ sessionAge' = 0 /\ refreshAge' = 0 /\ cooldown' = 0
  /\ IF goal = "solar_charging"
       THEN surplusCount' = 0 /\ stopCount' = 0
       ELSE UNCHANGED <<surplusCount, stopCount>>
  /\ open' = open + 1
  /\ Return
  /\ UNCHANGED <<stopWait, solarCooldown, statusFailures, shortSessions, world>>

VerifyFails ==
  /\ pc = "verify"
  /\ pc' = "undo"
  /\ UNCHANGED <<state, timers, counts, handler, world, open>>

StartFailed ==
  /\ cooldown' = FailureCooldown
  /\ surplusCount' = IF goal = "solar_charging" THEN 0 ELSE surplusCount
  /\ Return
  /\ UNCHANGED <<solarCooldown, refreshAge, sessionAge, stopCount,
                 statusFailures, shortSessions, soc, slot, cancelled, open>>

\* idleBattery after a failed start.  It has a context of its own to fall
\* back to, so a cancelled one does not keep it from succeeding.
UndoOk ==
  /\ pc = "undo"
  /\ mode' = "stop"
  /\ StartFailed
  /\ UNCHANGED <<state, stopWait>>

\* Mutant: the error of the idle command is only logged.
UndoFailureIgnored ==
  /\ pc = "undo"
  /\ mode' \in {mode, "stop"}
  /\ StartFailed
  /\ UNCHANGED <<state, stopWait>>

UndoFails ==
  /\ pc = "undo"
  /\ mode' \in {mode, "stop"}
  /\ state' = "stopping" /\ stopWait' = StopRetry
  /\ StartFailed

\* Mutant: every confirmed stop is taken for the end of a session.
ReleaseAlwaysRecords ==
  /\ pc = "release"
  /\ mode' = "stop" /\ state' = "idle" /\ stopWait' = 0
  /\ pc' = "record" /\ UNCHANGED handler
  /\ UNCHANGED <<cooldown, solarCooldown, refreshAge, sessionAge, counts,
                 soc, slot, cancelled, open>>

\* Mutant: the stopping state is left by nobody.
ReleaseKeepsStopping ==
  /\ pc = "release"
  /\ mode' = "stop"
  /\ IF state = "stopping"
       THEN Return /\ UNCHANGED <<state, stopWait>>
       ELSE state' = "idle" /\ stopWait' = 0 /\ pc' = "record" /\ UNCHANGED handler
  /\ UNCHANGED <<cooldown, solarCooldown, refreshAge, sessionAge, counts,
                 soc, slot, cancelled, open>>

\* idleBattery in transitionToIdleLocked.
ReleaseOk ==
  /\ pc = "release"
  /\ mode' = "stop"
  /\ state' = "idle" /\ stopWait' = 0
  /\ IF state = "stopping"
       THEN Return
       ELSE pc' = "record" /\ UNCHANGED handler
  /\ UNCHANGED <<cooldown, solarCooldown, refreshAge, sessionAge, counts,
                 soc, slot, cancelled, open>>

\* Mutant: idle in spite of the error.
ReleaseFailsButIdles ==
  /\ pc = "release"
  /\ mode' \in {mode, "stop"}
  /\ state' = "idle" /\ Return
  /\ UNCHANGED <<timers, counts, soc, slot, cancelled, open>>

ReleaseFails ==
  /\ pc = "release"
  /\ mode' \in {mode, "stop"}
  /\ Return
  /\ UNCHANGED <<state, timers, counts, soc, slot, cancelled, open>>

\* stopSolarChargingLocked: only a short session ended by lack of sun counts
\* towards the long backoff, any other one starts the count anew.
ShortSessions == IF ended.reason = "surplus_gone" /\ ended.short
                   THEN Up(shortSessions, BackoffCount) ELSE 0

\* Mutant: the long backoff comes one session late.
LateSolarPause ==
  CASE ended.reason = "telemetry" -> FailureCooldown
    [] ended.reason = "surplus_gone" /\ ended.short ->
         IF shortSessions >= BackoffCount THEN LongBackoff ELSE ShortCooldown
    [] OTHER -> RestartCooldown

SolarPause ==
  CASE ended.reason = "telemetry" -> FailureCooldown
    [] ended.reason = "surplus_gone" /\ ended.short ->
         IF ShortSessions >= BackoffCount THEN LongBackoff ELSE ShortCooldown
    [] OTHER -> RestartCooldown

\* What the stop functions reset once the trade is recorded.
Recorded ==
  IF ended.reason = "none"
    THEN UNCHANGED <<counts, solarCooldown>>
    ELSE /\ shortSessions' = ShortSessions
         /\ solarCooldown' = SolarPause
         /\ surplusCount' = 0 /\ stopCount' = 0 /\ statusFailures' = 0

\* Mutant: after a solar session the window's one is started, wanted or not.
RecordStartsAnyway ==
  /\ pc = "record"
  /\ open' = open - 1
  /\ Recorded
  /\ IF ended.reason # "yield_window" THEN Return ELSE Begin(goal)
  /\ UNCHANGED <<state, stopWait, cooldown, refreshAge, sessionAge, world>>

\* RecordTrade, whatever comes of it, and the rest of the stop functions.
Record ==
  /\ pc = "record"
  /\ open' = open - 1
  /\ Recorded
  /\ IF goal = "none" THEN Return ELSE Begin(goal)
  /\ UNCHANGED <<state, stopWait, cooldown, refreshAge, sessionAge, world>>

\* refreshPassiveModeLocked up to the network call.
Refresh ==
  IF refreshAge < RefreshAt
    THEN Return
    ELSE pc' = "refresh" /\ seen' = NoView /\ UNCHANGED <<goal, ended>>

RefreshOk ==
  /\ pc = "refresh" /\ ~cancelled
  /\ mode' = ModeOf(state) /\ refreshAge' = 0
  /\ Return
  /\ UNCHANGED <<state, stopWait, cooldown, solarCooldown, sessionAge, counts,
                 soc, slot, cancelled, open>>

RefreshFails ==
  /\ pc = "refresh"
  /\ mode' \in {mode, ModeOf(state)}
  /\ Return
  /\ UNCHANGED <<state, timers, counts, soc, slot, cancelled, open>>

\* retryStopping: shared by both ticks, before they read anything.
RetryStopping ==
  /\ pc = "loop" /\ state = "stopping"
  /\ Stop("none", "none")
  /\ UNCHANGED <<state, cooldown, solarCooldown, refreshAge, sessionAge, counts,
                 world, open>>

-----------------------------------------------------------------------------
(* tick, every minute.                                                     *)

\* The time is taken before the battery is asked for its status.
Tick ==
  /\ pc = "loop" /\ state # "stopping"
  /\ pc' = "tick"
  /\ seen' = [NoView EXCEPT !.slot = slot, !.cooling = cooldown > 0]
  /\ UNCHANGED <<state, timers, counts, goal, ended, world, open>>

TickStatusFails ==
  /\ pc = "tick"
  /\ Return
  /\ UNCHANGED <<state, timers, counts, world, open>>

\* The session the plan and the battery call for; allowed: the battery's own
\* charging or discharging flag.
Wanted(allowed) ==
  CASE seen.slot = "charge" /\ soc # "full" /\ allowed -> "charging"
    [] seen.slot = "discharge" /\ soc # "low" /\ allowed -> "discharging"
    [] OTHER -> "none"

\* Mutant: batteryCooldownUntil is not looked at.
TickIdleAtOnce(allowed) ==
  /\ state = "idle"
  /\ IF Wanted(allowed) # "none" THEN Begin(Wanted(allowed)) ELSE Return
  /\ UNCHANGED stopWait

\* Mutant: the comparison with batteryCooldownUntil is the wrong way round.
TickIdleInverted(allowed) ==
  /\ state = "idle"
  /\ IF seen.cooling /\ Wanted(allowed) # "none" THEN Begin(Wanted(allowed)) ELSE Return
  /\ UNCHANGED stopWait

TickIdle(allowed) ==
  /\ state = "idle"
  /\ \/ /\ ~seen.cooling /\ Wanted(allowed) # "none"
        /\ Begin(Wanted(allowed))
     \/ /\ seen.cooling \/ Wanted(allowed) = "none"
        /\ Return
  /\ UNCHANGED stopWait

TickSolar(allowed) ==
  /\ state = "solar_charging"
  /\ \/ seen.slot \in Windows /\ Stop("yield_window", Wanted(allowed))
     \/ seen.slot \notin Windows /\ Return /\ UNCHANGED stopWait

\* Without a price for the slot the session is left alone.
TickScheduled ==
  /\ state \in Scheduled
  /\ \/ seen.slot = "unpriced" /\ Return /\ UNCHANGED stopWait
     \/ seen.slot # "unpriced" /\ Wanted(TRUE) # state /\ Stop("none", "none")
     \/ Wanted(TRUE) = state /\ Refresh /\ UNCHANGED stopWait

TickDecide ==
  /\ pc = "tick" /\ ~cancelled
  /\ \/ \E allowed \in BOOLEAN : TickIdle(allowed) \/ TickSolar(allowed)
     \/ TickScheduled
  /\ UNCHANGED <<state, cooldown, solarCooldown, refreshAge, sessionAge, counts,
                 world, open>>

-----------------------------------------------------------------------------
(* solarTick, every second while a meter is configured.                    *)

\* A meter that cannot be read ends the handler: no step at all.
SolarTick ==
  /\ MeterEnabled
  /\ pc = "loop" /\ state # "stopping"
  /\ pc' = "solar"
  /\ \E surplus \in BOOLEAN : seen' = [NoView EXCEPT !.surplus = surplus]
  /\ UNCHANGED <<state, timers, counts, goal, ended, world, open>>

\* GetESStatus failed: handleSolarStatusFailure.
SolarStatusFails ==
  /\ pc = "solar"
  /\ IF state # "solar_charging"
       THEN Return /\ UNCHANGED <<statusFailures, stopWait>>
       ELSE /\ statusFailures' = Up(statusFailures, TelemetryThreshold)
            /\ IF statusFailures' < TelemetryThreshold
                 THEN Return /\ UNCHANGED stopWait
                 ELSE Stop("telemetry", "none")
  /\ UNCHANGED <<state, cooldown, solarCooldown, refreshAge, sessionAge,
                 surplusCount, stopCount, shortSessions, world, open>>

\* Mutant: the count goes on during the pause.
SolarIdleCountsInPause ==
  /\ state = "idle"
  /\ LET fit == /\ cooldown = 0 /\ seen.surplus
                /\ slot \notin Windows /\ soc # "full"
     IN  /\ surplusCount' = IF fit THEN Up(surplusCount, Qualification) ELSE 0
         /\ IF fit /\ solarCooldown = 0 /\ surplusCount' >= Qualification
              THEN Begin("solar_charging") ELSE Return
  /\ UNCHANGED <<stopWait, stopCount>>

SolarIdle ==
  /\ state = "idle"
  /\ LET pausing == cooldown = 0 /\ solarCooldown > 0
         fit     == /\ cooldown = 0 /\ solarCooldown = 0
                    /\ seen.surplus /\ slot \notin Windows /\ soc # "full"
     IN  /\ surplusCount' = CASE pausing -> surplusCount
                              [] fit     -> Up(surplusCount, Qualification)
                              [] OTHER   -> 0
         /\ IF fit /\ surplusCount' >= Qualification
              THEN Begin("solar_charging") ELSE Return
  /\ UNCHANGED <<stopWait, stopCount>>

\* Mutant: only a window ends a solar session unconditionally.
MustYield == slot \in Windows

\* The two conditions that end a solar session at any age.
MustEnd == soc = "full" \/ slot \in Windows

\* below: the smoothed surplus is under the stop threshold.  floor: it is under
\* the least power worth charging with.  adjust: it left the 50 W deadband.
SolarSession(below, floor, adjust) ==
  /\ state = "solar_charging"
  /\ UNCHANGED surplusCount
  /\ IF MustEnd
       THEN /\ Stop(IF soc = "full" THEN "battery_full" ELSE "yield_window", "none")
            /\ UNCHANGED stopCount
       ELSE /\ stopCount' = IF below THEN Up(stopCount, Debounce) ELSE 0
            /\ LET old     == sessionAge >= MinSession
                   dropped == below /\ stopCount' >= Debounce /\ old
                   faint   == refreshAge >= SettleTime /\ floor /\ old
               IN  \/ /\ dropped \/ faint
                      /\ Stop("surplus_gone", "none")
                   \/ /\ ~dropped /\ ~faint
                      /\ UNCHANGED stopWait
                      /\ IF refreshAge < SettleTime THEN Return
                         ELSE IF adjust
                           THEN pc' = "refresh" /\ seen' = NoView /\ UNCHANGED <<goal, ended>>
                           ELSE Refresh

SolarOther == state \in Scheduled /\ Return /\ UNCHANGED <<stopWait, surplusCount, stopCount>>

SolarDecide ==
  /\ pc = "solar" /\ ~cancelled
  /\ statusFailures' = 0
  /\ \/ SolarIdle
     \/ \E below, floor, adjust \in BOOLEAN : SolarSession(below, floor, adjust)
     \/ SolarOther
  /\ UNCHANGED <<state, cooldown, solarCooldown, refreshAge, sessionAge,
                 shortSessions, world, open>>

-----------------------------------------------------------------------------
(* The clock, the battery's charge and the price calendar.                 *)

\* One unit of time.  No plan replaces another while a handler runs.
Elapse ==
  /\ stopWait' = Down(stopWait)
  /\ cooldown' = Down(cooldown)
  /\ solarCooldown' = Down(solarCooldown)
  /\ refreshAge' = Up(refreshAge, RefreshCap)
  /\ sessionAge' = Up(sessionAge, AgeCap)
  /\ soc' \in Socs
  /\ slot' \in IF slot = "noplan" THEN {slot} ELSE Slots \ {"noplan"}
  /\ UNCHANGED <<state, counts, pc, handler, mode, cancelled, open>>

\* checkPriceFetch put another plan in place, or dropped the prices' day.
Replan ==
  /\ pc = "loop"
  /\ slot' \in Slots
  /\ UNCHANGED <<state, timers, counts, pc, handler, mode, soc, cancelled, open>>

Call ==
  \/ CommandOk \/ CommandFails \/ VerifyOk \/ VerifyFails \/ UndoOk \/ UndoFails
  \/ ReleaseOk \/ ReleaseFails \/ Record \/ RefreshOk \/ RefreshFails
  \/ TickStatusFails \/ TickDecide \/ SolarStatusFails \/ SolarDecide
  \/ BootOk \/ BootFails \/ HaltOk \/ HaltFails

\* Everything but the passing of time.
Act ==
  \/ Call \/ Tick \/ SolarTick \/ RetryStopping \/ Replan
  \/ Launch \/ Signal \/ Crash \/ Shutdown

Next == Elapse \/ Act

Spec == Init /\ [][Next]_vars

-----------------------------------------------------------------------------
(* Properties.                                                             *)

(* While the loop runs, a battery that is forced to charge or discharge is *)
(* in the hands of a session, of an attempt to start one, or of the        *)
(* stopping state, and the direction is theirs: no failed or unanswered    *)
(* command (startChargingLocked, transitionToIdleLocked, refresh) leaves   *)
(* the battery running behind the engine's back.                           *)
ForceIsOwned ==
  Running /\ mode # "stop" =>
    \/ state = "stopping"
    \/ state \in Sessions /\ mode = ModeOf(state)
    \/ pc \in {"verify", "undo"} /\ mode = ModeOf(goal)

(* Every session that begins is recorded once: nothing is recorded that did*)
(* not begin (a failed start resolved by retryStopping), no session begins *)
(* before the trade of the last one is written (the handover of tick from  *)
(* solar charging to a window), and an idle engine owes no trade.          *)
LedgerBalanced == open = IF state \in Sessions \/ pc = "record" THEN 1 ELSE 0

\* A step that sends the command to start a session.
Commands == pc # "command" /\ pc' = "command"

(* After the battery ignored a command no session is started until         *)
(* batteryControlFailureCooldown is over, also where the code does not ask:*)
(* on the handover from solar charging, and when the clock was read before *)
(* the battery's status.                                                   *)
NoStartInCooldown == [][Commands => cooldown = 0]_vars

\* A step that begins a session leaves these as they should be.
BeginsFresh ==
  state' \in Sessions /\ state' # state =>
    /\ state = "idle" /\ stopWait' = 0
    /\ state' = "solar_charging" => stopCount' = 0 /\ statusFailures' = 0

(* A session starts with nothing left of an earlier one: its first stop is *)
(* not held back by the retry delay of an older stop, and a solar session  *)
(* counts its low readings and telemetry failures from zero.               *)
SessionStartsFresh == [][BeginsFresh]_vars

(* Nothing of what went before is in the way of a session, or begins one   *)
(* too early.                                                              *)
StartsClean == NoStartInCooldown /\ SessionStartsFresh

(* What a solar session qualifies with was read after the pause between    *)
(* sessions: no handler on the way, scheduled sessions and failed starts   *)
(* included, leaves or makes a count that outlasts the pause, although     *)
(* solarTick returns from it without a reset (service.go 543-545).         *)
SurplusIsFresh == solarCooldown > 0 => surplusCount = 0

-----------------------------------------------------------------------------
(* The inductive invariant behind them, by topic.                          *)

\* Where the handlers can be, in which state.
Places ==
  /\ ~Running => state = "idle"
  /\ Attempting \/ pc = "record" => state = "idle"
  /\ pc = "refresh" => state \in Sessions
  /\ pc = "release" => state # "idle"
  /\ pc \in {"release", "record"} => goal # "solar_charging"

\* Which modes of the battery go with them.
Owners ==
  Running =>
    /\ state = "idle" /\ (~Attempting \/ pc = "command") => mode = "stop"
    /\ Attempting => mode \in {"stop", ModeOf(goal)}
    /\ state \in Sessions => mode \in {"stop", ModeOf(state)}

\* Which timers and counters are at rest.
Rests ==
  /\ state = "idle" => stopWait = 0
  /\ state \in Sessions \/ pc \in {"command", "record"} => cooldown = 0
  /\ pc = "tick" /\ state = "idle" /\ ~seen.cooling => cooldown = 0
  /\ Attempting /\ goal = "solar_charging" => statusFailures = 0

IInv == TypeOK /\ Places /\ Owners /\ Rests /\ LedgerBalanced

-----------------------------------------------------------------------------
(* The engine's share in ForcedOperation: what it answers for, and whether *)
(* that counts as a trade.                                                 *)
Phase ==
  CASE ~Running -> "off"
    [] pc = "record" -> "owed"
    [] pc # "record" /\ Running /\ (state # "idle" \/ Attempting) -> "engaged"
    [] OTHER -> "free"

Counted == state \in Sessions \/ pc = "record"

Promise == INSTANCE ForcedOperation WITH phase <- Phase, session <- Counted

(* The engine keeps the promise of ForcedOperation.                        *)
KeepsPromise == Promise!Spec
==============================================================================
