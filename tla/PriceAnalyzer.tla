---------------------------- MODULE PriceAnalyzer ----------------------------
(***************************************************************************)
(* The trading plan of service/analyzer.go: AnalyzePrices takes, up to the *)
(* number of cycles a day, the most profitable pair of a charge window and *)
(* a later discharge window, and goes on after that discharge window.      *)
(*                                                                         *)
(* A price is a whole number of cents, a slot its place in the sorted list.*)
(* Averages are compared by cross-multiplied sums, where the code divides  *)
(* decimals (16 digits).                                                   *)
(***************************************************************************)
EXTENDS Integers, Sequences, FiniteSetsExt, SequencesExt

CONSTANTS
  Prices,            \* the prices a slot can have
  MaxSlots,          \* bound: slots in the list
  Efficiency,        \* BATTERY_EFFICIENCY, per cent
  MinSpread,         \* MIN_PRICE_SPREAD
  Usable,            \* usable capacity, Wh
  ChargePowers,      \* CHARGE_POWER_W
  DischargePowers,   \* DISCHARGE_POWER_W
  CyclesPerDay       \* MAX_CYCLES_PER_DAY

ASSUME AnalyzerAssumption ==
  /\ Prices \subseteq Int /\ MaxSlots \in Nat /\ Efficiency \in 1..100
  /\ MinSpread \in Nat /\ Usable \in Nat /\ CyclesPerDay \in Int
  /\ ChargePowers \subseteq Int /\ DischargePowers \subseteq Int

VARIABLES
  prices,          \* the list that is analyzed
  chargeSize,      \* chargeWindowSize, in slots
  dischargeSize,   \* dischargeWindowSize
  from,            \* searchStartIdx
  cycles,          \* found so far: [charge, discharge] by their first slots
  done             \* the loop is over

vars == <<prices, chargeSize, dischargeSize, from, cycles, done>>

\* calculateWindowSize: quarters of an hour for a full charge, rounded up.
WindowSize(power) ==
  IF power <= 0 THEN 8
  ELSE LET size == (4 * Usable + power - 1) \div power
       IN  IF size < 1 THEN 1 ELSE size

MaxCycles == IF CyclesPerDay <= 0 THEN 2 ELSE CyclesPerDay

\* The loop of windowAverage.
SumOf(first, size) ==
  LET sum[k \in 0..size] == IF k = 0 THEN 0 ELSE sum[k - 1] + prices[first + k - 1]
  IN  sum[size]

\* Mutant: a window is compared with the one before it.
BestWindowByNeighbour(first, size) ==
  LET at[i \in first..(Len(prices) - size + 1)] ==
        IF i > first /\ SumOf(i, size) <= SumOf(i - 1, size) THEN at[i - 1] ELSE i
  IN  at[Len(prices) - size + 1]

\* findBestWindow for the highest average: the first of the best windows that
\* start at first or later, by a sum that slides along the list.
BestWindow(first, size) ==
  LET start == SumOf(first, size)
      slide[i \in first..(Len(prices) - size + 1)] ==
        IF i = first THEN [sum |-> start, best |-> start, at |-> first]
        ELSE LET last == slide[i - 1]
                 sum  == last.sum - prices[i - 1] + prices[i + size - 1]
             IN  [sum  |-> sum,
                  best |-> IF sum > last.best THEN sum ELSE last.best,
                  at   |-> IF sum > last.best THEN i ELSE last.at]
  IN  slide[Len(prices) - size + 1].at

\* The profit of a cycle per kWh, times 100 * chargeSize * dischargeSize.
Profit(c, d) ==
  Efficiency * chargeSize * SumOf(d, dischargeSize) - 100 * dischargeSize * SumOf(c, chargeSize)

\* Above break-even, and by the spread that is asked for.
Profitable(c, d) ==
  /\ Profit(c, d) > 0
  /\ chargeSize * SumOf(d, dischargeSize) - dischargeSize * SumOf(c, chargeSize)
       >= MinSpread * chargeSize * dischargeSize

\* findBestCycle: every charge window with room for a discharge window behind.
Candidates ==
  {[charge |-> c, discharge |-> BestWindow(c + chargeSize, dischargeSize)] :
     c \in from..(Len(prices) - chargeSize - dischargeSize + 1)}

\* The first of the most profitable ones.
Best(set) ==
  CHOOSE b \in set : \A o \in set :
    \/ Profit(b.charge, b.discharge) > Profit(o.charge, o.discharge)
    \/ /\ Profit(b.charge, b.discharge) = Profit(o.charge, o.discharge)
       /\ b.charge <= o.charge

Lists == UNION {[1..n -> Prices] : n \in 0..MaxSlots}

Init ==
  /\ prices \in Lists
  /\ \E p \in ChargePowers : chargeSize = WindowSize(p)
  /\ \E p \in DischargePowers : dischargeSize = WindowSize(p)
  /\ from = 1 /\ cycles = <<>>
  /\ done = (Len(prices) < chargeSize \/ Len(prices) < dischargeSize)

\* Mutant: the next search starts after the charge window.
AfterCharge(cycle) == cycle.charge + chargeSize

\* findSlotIndex of the end of the discharge window.
After(cycle) == cycle.discharge + dischargeSize

FindCycle ==
  /\ ~done
  /\ LET paying == {k \in Candidates : Profitable(k.charge, k.discharge)}
     IN  IF paying = {}
           THEN done' = TRUE /\ UNCHANGED <<from, cycles>>
           ELSE /\ cycles' = Append(cycles, Best(paying))
                /\ from' = After(Best(paying))
                /\ done' = (Len(cycles') >= MaxCycles \/ from' > Len(prices))
  /\ UNCHANGED <<prices, chargeSize, dischargeSize>>

Next == FindCycle

Spec == Init /\ [][Next]_vars

-----------------------------------------------------------------------------
(* Properties.                                                             *)

\* The first slot that is free for cycle i.
Free(i) == IF i = 1 THEN 1 ELSE cycles[i - 1].discharge + dischargeSize

(* The windows of a plan lie in the list, do not overlap, and alternate: a *)
(* cycle discharges after it charged, and the next one charges after that. *)
(* The loop of the engine relies on it: at most one window is open at once.*)
WindowsAlternate ==
  \A i \in DOMAIN cycles :
    /\ cycles[i].charge >= Free(i)
    /\ cycles[i].discharge >= cycles[i].charge + chargeSize
    /\ cycles[i].discharge + dischargeSize - 1 <= Len(prices)

(* Every profitable pair of windows that was free when a cycle was chosen  *)
(* pays at most what that cycle pays, although only the best discharge     *)
(* window of each charge window is looked at and the tests come after it.  *)
Pairs(first) ==
  {p \in (first..Len(prices)) \X (first..Len(prices)) :
     /\ p[2] >= p[1] + chargeSize
     /\ p[2] + dischargeSize - 1 <= Len(prices)}

ChoosesBest ==
  \A i \in DOMAIN cycles :
    \A p \in Pairs(Free(i)) :
      Profitable(p[1], p[2]) =>
        Profit(p[1], p[2]) <= Profit(cycles[i].charge, cycles[i].discharge)

(* The loop stops early only when no pair that is left pays: above         *)
(* break-even and with the spread.                                         *)
NothingLeft ==
  done /\ Len(cycles) < MaxCycles =>
    \A p \in Pairs(from) : ~Profitable(p[1], p[2])

(* The best cycle of what is left is taken, for as long as there is one.   *)
GreedyToTheEnd == ChoosesBest /\ NothingLeft
==============================================================================
