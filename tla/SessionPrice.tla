----------------------------- MODULE SessionPrice -----------------------------
(***************************************************************************)
(* What a charge session cost: calculateAveragePrice of service/service.go *)
(* over the prices whose plan opened the session.  An average is kept as   *)
(* the sum and the time that the code divides.                             *)
(***************************************************************************)
EXTENDS PriceAnalyzer

CONSTANTS
  SlotUnits,   \* units of time in a slot: instants between are told apart
  Delay        \* bound: units a session goes on after its window

ASSUME SessionPriceAssumption == SlotUnits \in Nat \ {0} /\ Delay \in Nat

VARIABLE paid    \* sessions settled so far: [start, end, sum, time]

allVars == <<vars, paid>>

\* Mutant: a slot that the session leaves in the middle counts to its end.
WeightUnclipped(acc, i, start, end) ==
  LET slotStart == (i - 1) * SlotUnits
      slotEnd   == i * SlotUnits
      overlap   == slotEnd - Max({start, slotStart})
  IN  IF slotStart < end /\ slotEnd > start
        THEN [sum |-> acc.sum + prices[i] * overlap, time |-> acc.time + overlap]
        ELSE acc

\* The loop's body: slot i, weighted by its overlap with the session.
Weight(acc, i, start, end) ==
  LET slotStart == (i - 1) * SlotUnits
      slotEnd   == i * SlotUnits
      overlap   == Min({end, slotEnd}) - Max({start, slotStart})
  IN  IF slotStart < end /\ slotEnd > start
        THEN [sum |-> acc.sum + prices[i] * overlap, time |-> acc.time + overlap]
        ELSE acc

Average(start, end) ==
  LET acc[i \in 0..Len(prices)] ==
        IF i = 0 THEN [sum |-> 0, time |-> 0] ELSE Weight(acc[i - 1], i, start, end)
  IN  acc[Len(prices)]

PriceInit == Init /\ paid = {}

\* A session begins in a charge window of the plan and ends in it or later.
Settle ==
  /\ done /\ paid = {}
  /\ \E i \in DOMAIN cycles :
       LET first == (cycles[i].charge - 1) * SlotUnits
           last  == first + chargeSize * SlotUnits
       IN  \E start \in first..(last - 1), end \in (first + 1)..(last + Delay) :
             /\ start < end
             /\ paid' = {[start |-> start, end |-> end,
                          sum |-> Average(start, end).sum, time |-> Average(start, end).time]}
  /\ UNCHANGED vars

PriceNext == (FindCycle /\ UNCHANGED paid) \/ Settle

PriceSpec == PriceInit /\ [][PriceNext]_allVars

-----------------------------------------------------------------------------
(* The average weighs every instant of the session with the price of its   *)
(* slot, once, whichever slots it begins and ends in, and leaves out those *)
(* the list has no price for (service.go 222-249).                         *)
AverageIsMean ==
  \A s \in paid :
    LET priced == {u \in s.start..(s.end - 1) : u < Len(prices) * SlotUnits}
    IN  /\ s.time = Cardinality(priced)
        /\ s.sum = MapThenSumSet(LAMBDA u : prices[u \div SlotUnits + 1], priced)
==============================================================================
