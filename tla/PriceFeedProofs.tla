--------------------------- MODULE PriceFeedProofs ---------------------------
(***************************************************************************)
(* The prices across days, for a day of any length, and any moments from   *)
(* 13:00 to 14:00 in it.                                                   *)
(***************************************************************************)
EXTENDS PriceFeed, TLAPS

\* A pending request is for its day, or was overtaken by one midnight.
Requested ==
  /\ pc \in {"down", "loop"} => asked = Never /\ ~late
  /\ pc \in {"startToday", "today"} => asked = 0 \/ (asked = 1 /\ late)
  /\ pc \in {"startTomorrow", "tomorrow"} => asked = Coming \/ (asked = 0 /\ late /\ moment = 0)

\* What is done once a day is marked for the day.
Marked ==
  /\ swapped # Coming
  /\ fallbacks > 0 => swapped = 0
  /\ summaries > 0 => summarised = 0

\* Prices for tomorrow come after 13:00, and to a process that runs.
Afternoon ==
  /\ tomorrow = Coming => moment > 0
  /\ pc \in {"down", "startToday", "startTomorrow"} => tomorrow = Never /\ ~armed

\* Prices that a midnight has made today's meet a tick that has yet to be handled.
Awaited ==
  ~slipped /\ moment = 0 /\ (tomorrow = 0 \/ (pc \in {"startTomorrow", "tomorrow"} /\ asked = 0)) =>
    swapped # 0 /\ (armed \/ due)

IInv ==
  TypeOK /\ Requested /\ Marked /\ Afternoon /\ Awaited /\ NeverAhead /\ OnceADay
    /\ TomorrowIsTomorrow

-----------------------------------------------------------------------------
\* TypeOK, one variable at a time.
Typed ==
  /\ moment \in 0..Last
  /\ today \in Dates /\ tomorrow \in Dates /\ swapped \in Dates /\ summarised \in Dates
  /\ asked \in Dates
  /\ pc \in {"down", "startToday", "startTomorrow", "loop", "today", "tomorrow"}
  /\ late \in BOOLEAN /\ armed \in BOOLEAN /\ due \in BOOLEAN /\ slipped \in BOOLEAN
  /\ fallbacks \in 0..2 /\ summaries \in 0..2

Parts ==
  Typed /\ Requested /\ Marked /\ Afternoon /\ Awaited /\ NeverAhead /\ OnceADay
    /\ TomorrowIsTomorrow

\* What the steps use of dates and moments.
LEMMA DatesAre ==
  /\ Coming \in Dates /\ 0 \in Dates /\ 1 \in Dates /\ Never \in Dates
  /\ Coming # 0 /\ Coming # 1 /\ Coming # Never /\ 0 # Never /\ 0 # 1
  /\ \A d \in Dates : Behind(d) \in Dates /\ Behind(d) # Coming /\ (Behind(d) = 0 <=> d = Coming)
  /\ Behind(0) = 1 /\ Behind(Never) = Never
BY DEF Dates, Coming, Never, Behind, Old

LEMMA MomentsAre ==
  /\ 0 \in 0..Last /\ 0 # Last
  /\ \A m \in Noon : m \in 0..Last /\ m > 0
  /\ \A m \in 0..Last : m # Last => m + 1 \in 0..Last /\ m + 1 # 0 /\ m + 1 > 0
BY DayAssumption DEF DayAssumption

LEMMA InitHolds == Init => Parts
<1> SUFFICES ASSUME Init PROVE Parts
  OBVIOUS
<1> USE DatesAre DEF Init
<1>1. Typed
  <2>1. /\ today \in Dates /\ tomorrow \in Dates /\ swapped \in Dates /\ summarised \in Dates
        /\ asked \in Dates
    OBVIOUS
  <2>2. moment \in 0..Last /\ fallbacks \in 0..2 /\ summaries \in 0..2
    OBVIOUS
  <2> QED
    BY <2>1, <2>2 DEF Typed
<1>2. Requested /\ Marked
  BY DEF Requested, Marked
<1>3. Afternoon /\ Awaited
  BY DEF Afternoon, Awaited
<1>4. NeverAhead /\ OnceADay /\ TomorrowIsTomorrow
  BY DEF NeverAhead, OnceADay, TomorrowIsTomorrow
<1> QED
  BY <1>1, <1>2, <1>3, <1>4 DEF Parts

LEMMA TypedStep == Parts /\ [Next]_vars => Typed'
<1> SUFFICES ASSUME Parts, [Next]_vars PROVE Typed'
  OBVIOUS
<1> USE DatesAre, MomentsAre DEF Parts, Typed, Requested, OnceADay, Marked
<1>1. CASE Start
  BY <1>1 DEF Start, Ask, memory, ticker, days
<1>2. CASE Crash
  <2>1. /\ today' \in Dates /\ tomorrow' \in Dates /\ swapped' \in Dates /\ summarised' \in Dates
        /\ asked' \in Dates
    BY <1>2 DEF Crash, Answered
  <2>2. moment' \in 0..Last /\ fallbacks' \in 0..2 /\ summaries' \in 0..2
    BY <1>2 DEF Crash
  <2> QED
    BY <1>2, <2>1, <2>2 DEF Crash, Answered
<1>3. CASE TodayOk
  BY <1>3 DEF TodayOk, AfterToday, Ask, Answered, ticker, days
<1>4. CASE TodayEmpty
  BY <1>4 DEF TodayEmpty, AfterToday, Ask, Answered, ticker, days
<1>5. CASE TodayFails
  BY <1>5 DEF TodayFails, AfterToday, Ask, Answered, memory, ticker, days
<1>6. CASE TomorrowOk
  BY <1>6 DEF TomorrowOk, Published, Answered, ticker, days
<1>7. CASE TomorrowFails
  BY <1>7 DEF TomorrowFails, Answered, memory, ticker, days
<1>8. CASE CheckNoon
  BY <1>8 DEF CheckNoon, Check, Ask, memory, days
<1>9. CASE Swap
  BY <1>9 DEF Swap, Check, Midnight, days
<1>10. CASE Fallback
  <2>1. fallbacks' \in 0..2 /\ UNCHANGED <<moment, today, tomorrow, summarised, summaries>>
    BY <1>10 DEF Fallback, Midnight
  <2>2. swapped' \in Dates /\ asked' \in Dates
    BY <1>10 DEF Fallback, Ask
  <2> QED
    BY <1>10, <2>1, <2>2 DEF Fallback, Check, Ask
<1>11. CASE CheckNothing
  BY <1>11 DEF CheckNothing, Check, Midnight, memory, days
<1>12. CASE Summary
  BY <1>12 DEF Summary, ticker
<1>13. CASE Tick
  BY <1>13 DEF Tick, memory, days
<1>14. CASE Elapse
  BY <1>14 DEF Elapse, Fetching, Running, Starting, memory, days
<1>15. CASE UNCHANGED vars
  BY <1>15 DEF vars, memory, ticker, days
<1> QED
  BY <1>1, <1>2, <1>3, <1>4, <1>5, <1>6, <1>7, <1>8, <1>9, <1>10, <1>11, <1>12, <1>13, <1>14,
     <1>15
     DEF Next, Handle

LEMMA RequestedStep == Parts /\ [Next]_vars => Requested'
<1> SUFFICES ASSUME Parts, [Next]_vars PROVE Requested'
  OBVIOUS
<1> USE DatesAre, MomentsAre DEF Parts, Typed, Requested
<1>1. CASE Start
  BY <1>1 DEF Start, Ask, memory, ticker, days
<1>2. CASE Crash
  BY <1>2 DEF Crash, Answered
<1>3. CASE TodayOk
  BY <1>3 DEF TodayOk, AfterToday, Ask, Answered, ticker, days
<1>4. CASE TodayEmpty
  BY <1>4 DEF TodayEmpty, AfterToday, Ask, Answered, ticker, days
<1>5. CASE TodayFails
  BY <1>5 DEF TodayFails, AfterToday, Ask, Answered, memory, ticker, days
<1>6. CASE TomorrowOk
  BY <1>6 DEF TomorrowOk, Published, Answered, ticker, days
<1>7. CASE TomorrowFails
  BY <1>7 DEF TomorrowFails, Answered, memory, ticker, days
<1>8. CASE CheckNoon
  BY <1>8 DEF CheckNoon, Check, Ask, memory, days
<1>9. CASE Swap
  BY <1>9 DEF Swap, Check, Midnight, days
<1>10. CASE Fallback
  BY <1>10 DEF Fallback, Check, Midnight, Ask
<1>11. CASE CheckNothing
  BY <1>11 DEF CheckNothing, Check, Midnight, memory, days
<1>12. CASE Summary
  BY <1>12 DEF Summary, ticker
<1>13. CASE Tick
  BY <1>13 DEF Tick, memory, days
<1>14. CASE Elapse
  BY <1>14 DEF Elapse, Fetching, Running, Starting, memory, days
<1>15. CASE UNCHANGED vars
  BY <1>15 DEF vars, memory, ticker, days
<1> QED
  BY <1>1, <1>2, <1>3, <1>4, <1>5, <1>6, <1>7, <1>8, <1>9, <1>10, <1>11, <1>12, <1>13, <1>14,
     <1>15
     DEF Next, Handle

LEMMA OnceStep == Parts /\ [Next]_vars => Marked' /\ OnceADay'
<1> SUFFICES ASSUME Parts, [Next]_vars PROVE Marked' /\ OnceADay'
  OBVIOUS
<1> USE DatesAre, MomentsAre DEF Parts, Typed, Marked, OnceADay
<1>1. CASE Start
  BY <1>1 DEF Start, Ask, memory, ticker, days
<1>2. CASE Crash
  BY <1>2 DEF Crash, Answered
<1>3. CASE TodayOk
  BY <1>3 DEF TodayOk, AfterToday, Ask, Answered, ticker, days
<1>4. CASE TodayEmpty
  BY <1>4 DEF TodayEmpty, AfterToday, Ask, Answered, ticker, days
<1>5. CASE TodayFails
  BY <1>5 DEF TodayFails, AfterToday, Ask, Answered, memory, ticker, days
<1>6. CASE TomorrowOk
  BY <1>6 DEF TomorrowOk, Published, Answered, ticker, days
<1>7. CASE TomorrowFails
  BY <1>7 DEF TomorrowFails, Answered, memory, ticker, days
<1>8. CASE CheckNoon
  BY <1>8 DEF CheckNoon, Check, Ask, memory, days
<1>9. CASE Swap
  BY <1>9 DEF Swap, Check, Midnight, days
<1>10. CASE Fallback
  BY <1>10 DEF Fallback, Check, Midnight, Ask
<1>11. CASE CheckNothing
  BY <1>11 DEF CheckNothing, Check, Midnight, memory, days
<1>12. CASE Summary
  BY <1>12 DEF Summary, ticker
<1>13. CASE Tick
  BY <1>13 DEF Tick, memory, days
<1>14. CASE Elapse
  BY <1>14 DEF Elapse, Fetching, Running, Starting, memory, days
<1>15. CASE UNCHANGED vars
  BY <1>15 DEF vars, memory, ticker, days
<1> QED
  BY <1>1, <1>2, <1>3, <1>4, <1>5, <1>6, <1>7, <1>8, <1>9, <1>10, <1>11, <1>12, <1>13, <1>14,
     <1>15
     DEF Next, Handle

LEMMA AfternoonStep == Parts /\ [Next]_vars => Afternoon' /\ NeverAhead'
<1> SUFFICES ASSUME Parts, [Next]_vars PROVE Afternoon' /\ NeverAhead'
  OBVIOUS
<1> USE DatesAre, MomentsAre DEF Parts, Typed, Requested, Afternoon, NeverAhead
<1>1. CASE Start
  BY <1>1 DEF Start, Ask, memory, ticker, days
<1>2. CASE Crash
  BY <1>2 DEF Crash, Answered
<1>3. CASE TodayOk
  BY <1>3 DEF TodayOk, AfterToday, Ask, Answered, ticker, days
<1>4. CASE TodayEmpty
  BY <1>4 DEF TodayEmpty, AfterToday, Ask, Answered, ticker, days
<1>5. CASE TodayFails
  BY <1>5 DEF TodayFails, AfterToday, Ask, Answered, memory, ticker, days
<1>6. CASE TomorrowOk
  BY <1>6 DEF TomorrowOk, Published, Answered, ticker, days
<1>7. CASE TomorrowFails
  BY <1>7 DEF TomorrowFails, Answered, memory, ticker, days
<1>8. CASE CheckNoon
  BY <1>8 DEF CheckNoon, Check, Ask, memory, days
<1>9. CASE Swap
  BY <1>9 DEF Swap, Check, Midnight, days
<1>10. CASE Fallback
  BY <1>10 DEF Fallback, Check, Midnight, Ask
<1>11. CASE CheckNothing
  BY <1>11 DEF CheckNothing, Check, Midnight, memory, days
<1>12. CASE Summary
  BY <1>12 DEF Summary, ticker
<1>13. CASE Tick
  BY <1>13 DEF Tick, memory, days
<1>14. CASE Elapse
  BY <1>14 DEF Elapse, Fetching, Running, Starting, memory, days
<1>15. CASE UNCHANGED vars
  BY <1>15 DEF vars, memory, ticker, days
<1> QED
  BY <1>1, <1>2, <1>3, <1>4, <1>5, <1>6, <1>7, <1>8, <1>9, <1>10, <1>11, <1>12, <1>13, <1>14,
     <1>15
     DEF Next, Handle

LEMMA TomorrowStep == Parts /\ [Next]_vars => Awaited' /\ TomorrowIsTomorrow'
<1> SUFFICES ASSUME Parts, [Next]_vars PROVE Awaited' /\ TomorrowIsTomorrow'
  OBVIOUS
<1> USE DatesAre, MomentsAre DEF Parts, Typed, Requested, Marked, Afternoon, Awaited, TomorrowIsTomorrow
<1>1. CASE Start
  BY <1>1 DEF Start, Ask, memory, ticker, days
<1>2. CASE Crash
  BY <1>2 DEF Crash, Answered
<1>3. CASE TodayOk
  BY <1>3 DEF TodayOk, AfterToday, Ask, Answered, ticker, days
<1>4. CASE TodayEmpty
  BY <1>4 DEF TodayEmpty, AfterToday, Ask, Answered, ticker, days
<1>5. CASE TodayFails
  BY <1>5 DEF TodayFails, AfterToday, Ask, Answered, memory, ticker, days
<1>6. CASE TomorrowOk
  BY <1>6 DEF TomorrowOk, Published, Answered, ticker, days
<1>7. CASE TomorrowFails
  BY <1>7 DEF TomorrowFails, Answered, memory, ticker, days
<1>8. CASE CheckNoon
  BY <1>8 DEF CheckNoon, Check, Ask, memory, days
<1>9. CASE Swap
  BY <1>9 DEF Swap, Check, Midnight, days
<1>10. CASE Fallback
  BY <1>10 DEF Fallback, Check, Midnight, Ask
<1>11. CASE CheckNothing
  BY <1>11 DEF CheckNothing, Check, Midnight, memory, days
<1>12. CASE Summary
  BY <1>12 DEF Summary, ticker
<1>13. CASE Tick
  BY <1>13 DEF Tick, memory, days
<1>14. CASE Elapse
  BY <1>14 DEF Elapse, Fetching, Running, Starting, memory, days
<1>15. CASE UNCHANGED vars
  BY <1>15 DEF vars, memory, ticker, days
<1> QED
  BY <1>1, <1>2, <1>3, <1>4, <1>5, <1>6, <1>7, <1>8, <1>9, <1>10, <1>11, <1>12, <1>13, <1>14,
     <1>15
     DEF Next, Handle

(***************************************************************************)
(* Requests, prices and the once-a-day marks are dated as the calendar of  *)
(* checkPriceFetch and checkDailySummary wants them.                       *)
(***************************************************************************)
THEOREM Invariance == Spec => []IInv
<1>1. Parts /\ [Next]_vars => Parts'
  BY TypedStep, RequestedStep, OnceStep, AfternoonStep, TomorrowStep DEF Parts
<1>2. Parts => IInv
  BY DEF IInv, Parts, TypeOK, Typed
<1> QED
  BY <1>1, <1>2, InitHolds, PTL DEF Spec

(***************************************************************************)
(* Dates and moments stay within what the calendar tells apart.            *)
(***************************************************************************)
THEOREM TypeCorrect == Spec => []TypeOK
BY Invariance, PTL DEF IInv

(* The plan is never one for a day to come, however requests, midnights    *)
(* and late ticks fall together (fetchTomorrowPrices, checkPriceFetch).    *)
THEOREM NeverAheadOfTime == Spec => []NeverAhead
BY Invariance, PTL DEF IInv

(* One fallback a midnight and one summary a day, for every process.       *)
THEOREM OncePerDay == Spec => []OnceADay
BY Invariance, PTL DEF IInv

(* The prices kept for tomorrow are tomorrow's, unless a tick or the start *)
(* was late.                                                               *)
THEOREM TomorrowKept == Spec => []TomorrowIsTomorrow
BY Invariance, PTL DEF IInv
==============================================================================
