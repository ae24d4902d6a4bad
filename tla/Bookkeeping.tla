------------------------------ MODULE Bookkeeping ------------------------------
(***************************************************************************)
(* Sessions become trades, trades become sums (service/service.go, the     *)
(* session functions and checkDailySummary, over TradeHistory's sums of    *)
(* service/recorder.go), while days go by and the process dies and starts  *)
(* again.  How a session ends is TradingEngine's matter and how a file is  *)
(* written Recorder's: here both are one step.                             *)
(***************************************************************************)
EXTENDS TradeHistory

CONSTANTS
  SocDeltas,   \* how far the battery went in a session, in its direction
  MaxTrades,   \* bound: trades recorded
  LastDay      \* bound: the day the clock stops at

ASSUME BookkeepingAssumption ==
  /\ SocDeltas \subseteq Int /\ MaxTrades \in Nat /\ LastDay \in Days
  /\ \A d \in SocDeltas : d > 0 => d \in Energies
  /\ {0} \subseteq Energies /\ 0 \notin Days

VARIABLES
  file,             \* the trades of trades.json
  up,               \* the process runs
  session,          \* what is kept of the session that is on, or NoSession
  lastChargePrice,  \* Service.lastChargePrice
  day, evening,     \* the clock: the day, and whether it is 23:59
  lastSummary,      \* day of lastDailySummary, 0: none
  sent,             \* history: days this process has sent the summary of
  reported,         \* history: the profit those summaries showed
  late              \* history: places of the trades recorded too late for theirs

process == <<trades, file, up, session, lastChargePrice>>
summary == <<lastSummary, sent, reported, late>>
vars    == <<process, day, evening, summary>>

NoSession == [day |-> 0, action |-> "none", price |-> 0]

SessionPrices(action) == IF action = "solar_charge" THEN {0} ELSE PricesEur

Sessions ==
  {s \in [day : Days, action : Actions, price : PricesEur \cup {0}] : s.price \in SessionPrices(s.action)}

TypeOK ==
  /\ trades \in Seq(Trades) /\ file \in Seq(Trades) /\ up \in BOOLEAN
  /\ session \in Sessions \cup {NoSession} /\ lastChargePrice \in PricesEur \cup {0}
  /\ day \in Days /\ evening \in BOOLEAN /\ lastSummary \in Days \cup {0}
  /\ sent \subseteq Days /\ reported \in Int /\ late \subseteq DOMAIN trades

Init ==
  /\ trades = <<>> /\ file = <<>> /\ up = FALSE /\ session = NoSession
  /\ lastChargePrice = 0 /\ day = Min(Days) /\ evening = FALSE
  /\ lastSummary = 0 /\ sent = {} /\ reported = 0 /\ late = {}

-----------------------------------------------------------------------------
(* The process.                                                            *)

Recorded(list) ==
  /\ trades' = list
  /\ late' = {i \in DOMAIN list : list[i].day < day}
  /\ lastChargePrice' = LastChargePrice'

\* LoadTrades, and the price of the last charge restored from what it read.
Start ==
  /\ ~up /\ up' = TRUE
  /\ Recorded(file)
  /\ UNCHANGED <<file, session, day, evening, lastSummary, sent, reported>>

\* A session that is on is not recorded.
Crash ==
  /\ up /\ up' = FALSE
  /\ trades' = <<>> /\ session' = NoSession /\ lastChargePrice' = 0
  /\ lastSummary' = 0 /\ sent' = {} /\ reported' = 0 /\ late' = {}
  /\ UNCHANGED <<file, day, evening>>

\* startChargingLocked, startDischargingLocked or startSolarChargingLocked.
StartSession ==
  /\ up /\ session = NoSession /\ Len(trades) < MaxTrades
  /\ \E s \in Sessions :
       /\ s.day = day /\ session' = s
       /\ lastChargePrice' = IF s.action = "charge" THEN s.price ELSE lastChargePrice
  /\ UNCHANGED <<trades, file, up, day, evening, summary>>

\* max(..., 0), of the charge's or discharge's difference.
Energy(delta) == IF delta < 0 THEN 0 ELSE delta

\* What stopChargingLocked may find as the average: an average of 0, computed
\* or not to be had, gives way to the price of the start.
Charged(average) == IF average = 0 THEN session.price ELSE average

\* The trade has the day its session began on.
Ended ==
  {[day |-> session.day, action |-> session.action, price |-> p, energy |-> e] :
     p \in IF session.action = "charge" THEN {Charged(a) : a \in PricesEur \cup {0}}
                                        ELSE {session.price},
     e \in {Energy(d) : d \in SocDeltas}}

\* stopChargingLocked and the like, RecordTrade with them; a save that fails
\* is only logged, and made up for by the next one.
EndSession ==
  /\ up /\ session # NoSession
  /\ \E t \in Ended :
       /\ trades' = Append(trades, t)
       /\ lastChargePrice' = IF t.action = "charge" THEN t.price ELSE lastChargePrice
       /\ file' \in {trades', file}
  /\ late' = IF session.day < day \/ lastSummary = day THEN late \cup {Len(trades')} ELSE late
  /\ session' = NoSession
  /\ UNCHANGED <<up, day, evening, lastSummary, sent, reported>>

-----------------------------------------------------------------------------
(* The clock and the daily summary.                                        *)

\* Mutant: every tick of 23:59 sends one.
SummaryAgain ==
  /\ up /\ evening
  /\ lastSummary' = day
  /\ sent' = sent \cup {day} /\ reported' = reported + PnL(day)
  /\ UNCHANGED <<process, day, evening, late>>

Summarise ==
  /\ up /\ evening /\ lastSummary # day
  /\ lastSummary' = day
  /\ sent' = sent \cup {day} /\ reported' = reported + PnL(day)
  /\ UNCHANGED <<process, day, evening, late>>

\* 23:59 may go by with the loop waiting in another handler.
Elapse ==
  /\ IF evening THEN day < LastDay /\ day + 1 \in Days /\ day' = day + 1 ELSE UNCHANGED day
  /\ evening' = ~evening
  /\ UNCHANGED <<process, summary>>

Next == Start \/ Crash \/ StartSession \/ EndSession \/ Summarise \/ Elapse

Spec == Init /\ [][Next]_vars

-----------------------------------------------------------------------------
(* Properties.                                                             *)

(* Between sessions the price of the last charge that the engine goes by   *)
(* is that of the last charge recorded, through averages that could not be *)
(* computed, saves that failed, crashes and restarts (service.go 262, 943).*)
LastChargeKnown ==
  up /\ session.action # "charge" =>
    LET charges == {i \in DOMAIN trades : trades[i].action = "charge"}
    IN  lastChargePrice = IF charges = {} THEN 0 ELSE trades[Max(charges)].price

(* The daily summaries account for the total they show beside the day's    *)
(* profit: what they reported, with the trades that came after the summary *)
(* of the day they began on (a session over 23:59) and those of days whose *)
(* summary was not sent, is the total profit.  None is reported twice.     *)
SummariesAddUp ==
  up => LET open == {i \in DOMAIN trades : i \in late \/ trades[i].day \notin sent}
        IN  reported + MapThenSumSet(LAMBDA i : Profit(trades[i]), open) = TotalPnL
==============================================================================
