----------------------------- MODULE TradeHistory -----------------------------
(***************************************************************************)
(* The sums that service/recorder.go makes of its trades: GetTotalPnL over *)
(* all of them, GetHistory by day.  Both are called between any two        *)
(* RecordTrades by the HTTP handler, the daily summary and the chat.       *)
(***************************************************************************)
EXTENDS Integers, Sequences, FiniteSetsExt, SequencesExt

CONSTANTS
  Days,        \* the days trades start on
  PricesEur,   \* prices, in cents
  Energies     \* energies, in whole units

ASSUME HistoryAssumption == Days \subseteq Nat /\ PricesEur \subseteq Int /\ Energies \subseteq Nat

VARIABLE trades   \* Recorder.trades

Actions == {"charge", "discharge", "solar_charge"}

\* A solar charge is recorded with the price 0.
Trades == {t \in [day : Days, action : Actions, price : PricesEur \cup {0}, energy : Energies] :
             t.action = "solar_charge" => t.price = 0}

-----------------------------------------------------------------------------
\* What the loop over a day's trades gathers.
Zero == [charged |-> 0, solar |-> 0, discharged |-> 0, cost |-> 0, revenue |-> 0,
         charges |-> 0, solars |-> 0, discharges |-> 0, minCharge |-> 0, maxDischarge |-> 0]

\* Mutant: the latest price is taken for all that was charged.
AddLatestPrice(sum, t) ==
  CASE t.action = "charge" ->
         [sum EXCEPT !.charged = @ + t.energy, !.cost = t.price * (sum.charged + t.energy),
                     !.minCharge = IF sum.charges = 0 \/ t.price < @ THEN t.price ELSE @,
                     !.charges = @ + 1]
    [] t.action = "solar_charge" ->
         [sum EXCEPT !.charged = @ + t.energy, !.solar = @ + t.energy,
                     !.solars = @ + 1]
    [] t.action = "discharge" ->
         [sum EXCEPT !.discharged = @ + t.energy, !.revenue = @ + t.price * t.energy,
                     !.maxDischarge = IF sum.discharges = 0 \/ t.price > @ THEN t.price ELSE @,
                     !.discharges = @ + 1]

Add(sum, t) ==
  CASE t.action = "charge" ->
         [sum EXCEPT !.charged = @ + t.energy, !.cost = @ + t.price * t.energy,
                     !.minCharge = IF sum.charges = 0 \/ t.price < @ THEN t.price ELSE @,
                     !.charges = @ + 1]
    [] t.action = "solar_charge" ->
         [sum EXCEPT !.charged = @ + t.energy, !.solar = @ + t.energy,
                     !.solars = @ + 1]
    [] t.action = "discharge" ->
         [sum EXCEPT !.discharged = @ + t.energy, !.revenue = @ + t.price * t.energy,
                     !.maxDischarge = IF sum.discharges = 0 \/ t.price > @ THEN t.price ELSE @,
                     !.discharges = @ + 1]

\* GetTodaySummary is the summary of today, or Zero when none was found.
Summary(day) ==
  LET sum[i \in 0..Len(trades)] ==
        IF i = 0 THEN Zero
        ELSE IF trades[i].day = day THEN Add(sum[i - 1], trades[i]) ELSE sum[i - 1]
  IN  sum[Len(trades)]

PnL(day) == Summary(day).revenue - Summary(day).cost

TradingDays == {trades[i].day : i \in DOMAIN trades}

HistoryPnL == MapThenSumSet(PnL, TradingDays)

Profit(t) == CASE t.action = "charge"       -> -t.price * t.energy
               [] t.action = "discharge"    -> t.price * t.energy
               [] t.action = "solar_charge" -> 0

TotalPnL ==
  LET pnl[i \in 0..Len(trades)] == IF i = 0 THEN 0 ELSE pnl[i - 1] + Profit(trades[i])
  IN  pnl[Len(trades)]

\* Mutant: the price of whatever was recorded last.
LatestPrice == IF trades = <<>> THEN 0 ELSE Last(trades).price

\* GetLastChargeTrade, from the end: the price of the last one, 0 when there is none.
LastChargePrice ==
  LET price[i \in 0..Len(trades)] ==
        IF i = 0 THEN 0 ELSE IF trades[i].action = "charge" THEN trades[i].price ELSE price[i - 1]
  IN  price[Len(trades)]

\* The exchange sort of the days, from whatever order the map gave them: each
\* place in turn takes the latest day that is behind it.
Swapped(days, i, j) == [days EXCEPT ![i] = days[j], ![j] = days[i]]

Placed(days, i) ==
  LET row[j \in i..Len(days)] ==
        IF j = i THEN days
        ELSE IF row[j - 1][j] > row[j - 1][i] THEN Swapped(row[j - 1], i, j) ELSE row[j - 1]
  IN  row[Len(days)]

Sorted(days) ==
  LET row[i \in 0..(Len(days) - 1)] == IF i = 0 THEN days ELSE Placed(row[i - 1], i)
  IN  row[Len(days) - 1]

-----------------------------------------------------------------------------
(* The two ways to the total agree: the profit of the history, summed over *)
(* its days, is the profit that the daily summary and the metrics show.    *)
TotalsAgree == HistoryPnL = TotalPnL

\* The prices of what was done on a day.
Paid(day, action) ==
  {trades[i].price : i \in {k \in DOMAIN trades : trades[k].day = day /\ trades[k].action = action}}

(* The prices a day's summary shows fit its trades and one another, also   *)
(* when prices are below zero and the sun has charged: the least price is  *)
(* one that was paid on the grid and not above the average, the highest one*)
(* that was earned and not below it.                                       *)
PricesFit ==
  \A day \in TradingDays :
    LET s == Summary(day)
    IN  /\ s.charges > 0 =>
             /\ s.minCharge \in Paid(day, "charge")
             /\ s.minCharge * (s.charged - s.solar) <= s.cost
        /\ s.discharges > 0 =>
             /\ s.maxDischarge \in Paid(day, "discharge")
             /\ s.maxDischarge * s.discharged >= s.revenue

(* The days come latest first, whatever order the map yields them in; the  *)
(* same holds with one day more, whose trades are still to come.           *)
DaysDescend ==
  \A day \in Days : \A order \in SetToSeqs(TradingDays \cup {day}) :
    \A i, j \in DOMAIN order : i < j => Sorted(order)[i] > Sorted(order)[j]

(* What GetHistory returns fits the trades and itself, in all three ways.  *)
HistoryFits == TotalsAgree /\ PricesFit /\ DaysDescend
==============================================================================
