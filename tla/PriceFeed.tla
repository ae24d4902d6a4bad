------------------------------- MODULE PriceFeed -------------------------------
(***************************************************************************)
(* The prices of service/service.go across days: the fetches at the start, *)
(* the fetch of tomorrow's prices at 13:00, the swap at midnight with its  *)
(* fallback, and the daily summary, all driven by tickers of the loop.     *)
(*                                                                         *)
(* A day is a row of moments.  The date of a set of prices is kept as the  *)
(* number of days it lies behind the current one: Coming for tomorrow's, 0 *)
(* for today's, capped at Old, and Never where there are none: none were   *)
(* fetched yet, or the last answer had none in it.                         *)
(***************************************************************************)
EXTENDS Integers

CONSTANTS
  Noon,   \* the moments from 13:00 to 14:00
  Last    \* the last moment, with 23:59 in it; moment 0 is 00:00 to 00:15

ASSUME DayAssumption ==
  Last \in Nat \ {0} /\ Noon \subseteq 1..(Last - 1) /\ Noon # {}

Coming == -1
Old   == 2
Never == 3
Dates == Coming..Never

VARIABLES
  moment,      \* of the day
  today,       \* date of todayPrices and of currentPlan
  tomorrow,    \* date of tomorrowPrices
  swapped,     \* date of lastMidnightSwap
  summarised,  \* date of lastDailySummary
  pc,          \* down | startToday | startTomorrow | loop | today | tomorrow
  asked,       \* date the pending request is for
  late,        \* the moment has changed since it was sent
  armed,       \* priceTicker will tick in this moment
  due,         \* a tick of it waits to be handled
  slipped,     \* history: since the last swap a tick waited for the next one,
               \* or the start ran across midnight
  fallbacks,   \* history: fetches at midnight by this process today
  summaries    \* history: summaries sent by this process today

memory == <<today, tomorrow, swapped, summarised>>
ticker == <<armed, due>>
days   == <<fallbacks, summaries>>
vars   == <<moment, memory, pc, asked, late, ticker, slipped, days>>

Starting == pc \in {"startToday", "startTomorrow"}
Fetching == Starting \/ pc \in {"today", "tomorrow"}
Running  == pc \in {"loop", "today", "tomorrow"}

TypeOK ==
  /\ moment \in 0..Last
  /\ {today, tomorrow, swapped, summarised, asked} \subseteq Dates
  /\ pc \in {"down", "startToday", "startTomorrow", "loop", "today", "tomorrow"}
  /\ late \in BOOLEAN /\ armed \in BOOLEAN /\ due \in BOOLEAN /\ slipped \in BOOLEAN
  /\ fallbacks \in 0..2 /\ summaries \in 0..2

Init ==
  /\ moment \in 0..Last /\ pc = "down"
  /\ today = Never /\ tomorrow = Never /\ swapped = Never /\ summarised = Never
  /\ asked = Never /\ late = FALSE /\ armed = FALSE /\ due = FALSE
  /\ slipped = FALSE /\ fallbacks = 0 /\ summaries = 0

\* The market publishes the prices of a day at 13:00 of the day before.
Published(date) == date # Coming \/ \E m \in Noon : m <= moment

\* The provider takes the date from the clock when it is called.
Ask(call, date) == pc' = call /\ asked' = date /\ late' = FALSE

Answered == asked' = Never /\ late' = FALSE

-----------------------------------------------------------------------------
\* Start, up to the first price request.
Start ==
  /\ pc = "down"
  /\ Ask("startToday", 0)
  /\ UNCHANGED <<moment, memory, ticker, slipped, days>>

Crash ==
  /\ pc # "down" /\ pc' = "down"
  /\ today' = Never /\ tomorrow' = Never /\ swapped' = Never /\ summarised' = Never
  /\ Answered /\ armed' = FALSE /\ due' = FALSE /\ slipped' = FALSE
  /\ fallbacks' = 0 /\ summaries' = 0
  /\ UNCHANGED moment

\* Whatever follows a request for today's prices.
AfterToday ==
  IF pc = "startToday" THEN Ask("startTomorrow", Coming) ELSE pc' = "loop" /\ Answered

\* fetchTodayPrices replaces today's prices and the plan.
TodayOk ==
  /\ pc \in {"startToday", "today"}
  /\ today' = asked
  /\ AfterToday
  /\ UNCHANGED <<moment, tomorrow, swapped, summarised, ticker, slipped, days>>

\* An answer without prices is no error, and it replaces them too.
TodayEmpty ==
  /\ pc \in {"startToday", "today"}
  /\ today' = Never
  /\ AfterToday
  /\ UNCHANGED <<moment, tomorrow, swapped, summarised, ticker, slipped, days>>

TodayFails ==
  /\ pc \in {"startToday", "today"}
  /\ AfterToday
  /\ UNCHANGED <<moment, memory, ticker, slipped, days>>

TomorrowOk ==
  /\ pc \in {"startTomorrow", "tomorrow"} /\ Published(asked)
  /\ tomorrow' = asked
  /\ pc' = "loop" /\ Answered
  /\ UNCHANGED <<moment, today, swapped, summarised, ticker, slipped, days>>

\* An error, or an empty answer.
TomorrowFails ==
  /\ pc \in {"startTomorrow", "tomorrow"}
  /\ pc' = "loop" /\ Answered
  /\ UNCHANGED <<moment, memory, ticker, slipped, days>>

-----------------------------------------------------------------------------
(* checkPriceFetch, one action per outcome of its two conditions.          *)

Check == pc = "loop" /\ due /\ due' = FALSE /\ UNCHANGED armed

Midnight == moment = 0 /\ swapped # 0

CheckNoon ==
  /\ Check /\ moment \in Noon /\ tomorrow = Never
  /\ Ask("tomorrow", Coming)
  /\ UNCHANGED <<moment, memory, slipped, days>>

\* Mutant: tomorrow's prices are kept.
SwapKeepsTomorrow ==
  /\ Check /\ Midnight /\ tomorrow # Never
  /\ today' = tomorrow /\ swapped' = 0
  /\ slipped' = FALSE
  /\ UNCHANGED <<moment, tomorrow, summarised, pc, asked, late, days>>

\* Mutant: the hour is not looked at.
SwapAnytime ==
  /\ Check /\ swapped # 0 /\ tomorrow # Never
  /\ today' = tomorrow /\ tomorrow' = Never /\ swapped' = 0
  /\ slipped' = FALSE
  /\ UNCHANGED <<moment, summarised, pc, asked, late, days>>

Swap ==
  /\ Check /\ Midnight /\ tomorrow # Never
  /\ today' = tomorrow /\ tomorrow' = Never /\ swapped' = 0
  /\ slipped' = FALSE
  /\ UNCHANGED <<moment, summarised, pc, asked, late, days>>

\* Mutant: the fallback is not marked as handled.
FallbackUnmarked ==
  /\ Check /\ Midnight /\ tomorrow = Never
  /\ fallbacks' = fallbacks + 1
  /\ Ask("today", 0)
  /\ slipped' = FALSE
  /\ UNCHANGED <<moment, memory, summaries>>

Fallback ==
  /\ Check /\ Midnight /\ tomorrow = Never
  /\ swapped' = 0 /\ fallbacks' = fallbacks + 1
  /\ Ask("today", 0)
  /\ slipped' = FALSE
  /\ UNCHANGED <<moment, today, tomorrow, summarised, summaries>>

CheckNothing ==
  /\ Check /\ ~Midnight /\ ~(moment \in Noon /\ tomorrow = Never)
  /\ UNCHANGED <<moment, memory, pc, asked, late, slipped, days>>

\* checkDailySummary: the flag is set before the message is sent.
Summary ==
  /\ pc = "loop" /\ moment = Last /\ summarised # 0
  /\ summarised' = 0
  /\ summaries' = IF summaries < 2 THEN summaries + 1 ELSE 2
  /\ UNCHANGED <<moment, today, tomorrow, swapped, pc, asked, late, ticker, slipped, fallbacks>>

-----------------------------------------------------------------------------
Behind(date) == IF date < Old THEN date + 1 ELSE date

\* The channel holds one tick; one that finds it full is dropped.
Tick ==
  /\ armed
  /\ armed' = FALSE /\ due' = TRUE
  /\ UNCHANGED <<moment, memory, pc, asked, late, slipped, days>>

\* A request is answered, or given up, before a second moment goes by.  The
\* ticker runs from the end of the start on, and ticks once in every moment.
Elapse ==
  /\ ~late /\ ~armed
  /\ slipped' = (slipped \/ due \/ (Starting /\ moment = Last))
  /\ late' = Fetching
  /\ armed' = Running
  /\ moment' = IF moment = Last THEN 0 ELSE moment + 1
  /\ IF moment = Last
       THEN /\ today' = Behind(today) /\ tomorrow' = Behind(tomorrow)
            /\ swapped' = Behind(swapped) /\ summarised' = Behind(summarised)
            /\ asked' = Behind(asked)
            /\ fallbacks' = 0 /\ summaries' = 0
       ELSE UNCHANGED <<memory, asked, days>>
  /\ UNCHANGED <<pc, due>>

Handle ==
  \/ CheckNoon \/ Swap \/ Fallback \/ CheckNothing
  \/ TodayOk \/ TodayEmpty \/ TodayFails \/ TomorrowOk \/ TomorrowFails

Next == Start \/ Handle \/ Summary \/ Tick \/ Elapse \/ Crash

Spec == Init /\ [][Next]_vars

(* A process that is down is started, the loop goes on, and a provider that*)
(* is asked again and again answers again and again.                       *)
LiveSpec ==
  /\ Spec
  /\ WF_vars(Start) /\ WF_vars(Tick) /\ WF_vars(Handle) /\ WF_vars(Elapse)
  /\ SF_vars(TodayOk)
  /\ SF_vars(pc = "tomorrow" /\ TomorrowOk)

-----------------------------------------------------------------------------
(* Properties.                                                             *)

(* The plan is never one for a day to come: neither a request that is      *)
(* answered after midnight nor a swap puts tomorrow's prices in place of   *)
(* today's.                                                                *)
NeverAhead == today # Coming

(* The fallback is tried at most once a midnight, whatever comes of it     *)
(* ("Mark as handled to avoid repeated fetches"), and the summary is sent  *)
(* once a day, as long as the process lives.                               *)
OnceADay == fallbacks <= 1 /\ summaries <= 1

(* The prices kept for tomorrow are tomorrow's: unless a tick or the start *)
(* was late they do not survive the midnight they were fetched for, or the *)
(* next swap would put an old day's prices in place, and the fetch at 13:00*)
(* would be left out meanwhile.                                            *)
TomorrowIsTomorrow ==
  \/ slipped \/ tomorrow \in {Coming, Never}
  \/ moment = 0 /\ tomorrow = 0

(* However many fetches fail or bring no prices, and whatever was missed or*)
(* lost in a crash before, a process that goes on in time has a plan for   *)
(* the current day again and again.                                        *)
PlanRecovers == <>[](pc # "down" /\ ~slipped) => []<>(today = 0)

(* service.go:1199: "At midnight, move tomorrow's prices to today".        *)
SwappedAtMidnight == moment # 0 => tomorrow # 0
==============================================================================
