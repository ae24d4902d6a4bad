------------------------ MODULE TradingEngineLiveness ------------------------
(***************************************************************************)
(* What the trading loop must eventually do, and the fairness that the code*)
(* and its surroundings justify.                                           *)
(***************************************************************************)
EXTENDS TradingEngine

(* Timers run out, and every network call returns: each has a timeout, and *)
(* so have the attempts of a shutdown together (batteryShutdownTimeout),   *)
(* none of which need succeed.  Nothing is said of the prices' windows or  *)
(* of the battery's charge: they may stay as they are for ever.            *)
TimersRun   == Elapse /\ timers' # timers
CallsReturn == WF_vars(TimersRun) /\ WF_vars(pc # "halt" /\ Call) /\ WF_vars(HaltFails)

(* The select of the main loop chooses at random among the ready channels, *)
(* and the tickers keep theirs ready: none is passed over for ever.        *)
SelectIsFair == SF_vars(Tick) /\ SF_vars(RetryStopping) /\ SF_vars(Shutdown)

(* A battery that is asked again and again in the end gives its status and *)
(* obeys a stop.                                                           *)
BatteryAnswers == SF_vars(TickDecide) /\ SF_vars(ReleaseOk)

(* The same of a command to start, its verification, and the idle command  *)
(* that undoes it.                                                         *)
BatteryObeys == SF_vars(CommandOk) /\ SF_vars(VerifyOk)
                /\ SF_vars(TickDecide /\ Commands)

LiveSpec == Spec /\ CallsReturn /\ SelectIsFair /\ BatteryAnswers

-----------------------------------------------------------------------------
(* A battery whose stop was not confirmed is stopped in the end, or the    *)
(* process ends: the retry delay, the throttled attempts and the early     *)
(* return of both ticks in the stopping state never block each other.      *)
StoppingResolves == state = "stopping" ~> state = "idle"

\* The loop runs, and knows the price of the present slot.
Informed == Running /\ slot # "unpriced"

(* A forced discharge does not go on for ever at the minimum charge, nor   *)
(* outside the discharge windows (tick 359-487, through stops that fail and*)
(* are retried), as long as the plan's prices cover the present slot.      *)
DischargeEnds ==
  /\ []<>(Informed /\ mode = "discharge" => soc # "low")
  /\ []<>(Informed /\ mode = "discharge" => slot = "discharge")

(* A full battery is not charged for ever: tick ends a session of its own, *)
(* solarTick a solar one, whether the battery's status can be had or not,  *)
(* while the meter is read again and again (solarTick 506-610, 687-727).   *)
ChargeEnds ==
  []<>(pc = "solar") => []<>(Informed /\ mode = "charge" => soc # "full")

SessionsEnd == DischargeEnds /\ ChargeEnds

(* A charge window that lasts is used: the pauses after failed starts and  *)
(* after solar sessions, and stops that need retries, do not add up to a   *)
(* lockout.  The battery must want to charge and the process must run on.  *)
WindowIsUsed ==
  /\ BatteryObeys
  /\ <>[](Running /\ ~cancelled /\ slot = "charge" /\ soc = "mid")
  => <>[](state = "charging")

(* A process that is asked to stop does so, whatever the loop is doing.    *)
ShutdownEnds == cancelled ~> ~Running

-----------------------------------------------------------------------------
(* What the repository says of the program, and the program does not do.   *)

(* service_test.go:777: "Battery reaches 11% while discharging", "tick()   *)
(* should stop discharging".  With no price for the present slot tick      *)
(* returns before it looks at the session.                                 *)
DischargeStopsAtMinimum ==
  <>[](soc = "low") => []<>(Running => mode # "discharge")
=============================================================================
