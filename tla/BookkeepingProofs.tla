--------------------------- MODULE BookkeepingProofs ---------------------------
(***************************************************************************)
(* The books are right for any days, prices and energies: the price of the *)
(* last charge is known, the daily summaries add up to the total, and what *)
(* GetHistory returns fits the trades and itself.                          *)
(***************************************************************************)
EXTENDS Bookkeeping, SequenceTheorems, FiniteSetTheorems, WellFoundedInduction, TLAPS

-----------------------------------------------------------------------------
(* Induction, by the set of the numbers for which a fact holds.            *)

LEMMA Induction ==
  ASSUME NEW T, 0 \in T, \A n \in Nat : n \in T => n + 1 \in T
  PROVE  \A n \in Nat : n \in T
<1> DEFINE Others == {n \in Nat : n \notin T}
<1> SUFFICES ASSUME Others # {} PROVE FALSE
  OBVIOUS
<1>1. PICK m \in Others : \A j \in Others : ~(<<j, m>> \in OpToRel(<, Nat))
  BY NatLessThanWellFounded, WFMin
<1>2. m \in Nat /\ m \notin T /\ m # 0
  BY <1>1
<1>3. m - 1 \in Nat /\ (m - 1) + 1 = m /\ m - 1 < m
  BY <1>2
<1>4. m - 1 \notin Others
  BY <1>1, <1>2, <1>3 DEF OpToRel
<1> QED
  BY <1>2, <1>3, <1>4

-----------------------------------------------------------------------------
(* Trades and what they bring.                                             *)

LEMMA TradeTyped ==
  ASSUME NEW t \in Trades
  PROVE  /\ t.day \in Nat /\ t.day \in Days /\ t.action \in Actions
         /\ t.price \in Int /\ t.energy \in Nat /\ Profit(t) \in Int
<1>1. /\ t.day \in Nat /\ t.day \in Days /\ t.action \in Actions
      /\ t.price \in Int /\ t.energy \in Nat
  <2>1. t \in [day : Days, action : Actions, price : PricesEur \cup {0}, energy : Energies]
    BY DEF Trades
  <2>2. Days \subseteq Nat /\ PricesEur \cup {0} \subseteq Int /\ Energies \subseteq Nat
    BY HistoryAssumption
  <2>3. t.day \in Days /\ t.action \in Actions /\ t.price \in PricesEur \cup {0} /\ t.energy \in Energies
    BY <2>1
  <2> QED
    BY <2>2, <2>3
<1>2. t.price * t.energy \in Int /\ -t.price * t.energy \in Int
  BY <1>1
<1> QED
  BY <1>1, <1>2 DEF Profit, Actions

LEMMA TradesTyped ==
  ASSUME NEW list \in Seq(Trades)
  PROVE  Len(list) \in Nat /\ DOMAIN list = 1..Len(list)
         /\ \A i \in 1..Len(list) : list[i] \in Trades
BY LenProperties, ElementOfSeq

\* f holds what the first trades of set S, of up to n, brought.
Gains(f, list, S, n) ==
  f = [i \in 0..n |-> IF i = 0 THEN 0
                      ELSE f[i - 1] + (IF i \in S THEN Profit(list[i]) ELSE 0)]

\* What the first n trades brought, those of S only.
Gain(list, S, n) == (CHOOSE f : Gains(f, list, S, n))[n]

LEMMA GainsExist == ASSUME NEW list, NEW S PROVE \A n \in Nat : \E f : Gains(f, list, S, n)
<1> DEFINE T == {n \in Nat : \E f : Gains(f, list, S, n)}
<1>1. 0 \in T
  <2>1. Gains([i \in 0..0 |-> 0], list, S, 0)
    BY DEF Gains
  <2> QED
    BY <2>1
<1>2. ASSUME NEW n \in Nat, n \in T PROVE n + 1 \in T
  <2>1. PICK f : Gains(f, list, S, n)
    BY <1>2
  <2> DEFINE g == [i \in 0..(n + 1) |->
                     IF i = n + 1 THEN f[n] + (IF i \in S THEN Profit(list[i]) ELSE 0) ELSE f[i]]
  <2>2. ASSUME NEW i \in 0..(n + 1)
        PROVE  g[i] = IF i = 0 THEN 0
                      ELSE g[i - 1] + (IF i \in S THEN Profit(list[i]) ELSE 0)
    BY <2>1 DEF Gains
  <2>3. Gains(g, list, S, n + 1)
    BY <2>2 DEF Gains
  <2> QED
    BY <2>3
<1> HIDE DEF T
<1>3. \A n \in Nat : n \in T
  BY <1>1, <1>2, Induction
<1> QED
  BY <1>3 DEF T

\* Whichever function is chosen holds the same gains.
LEMMA GainsAgree ==
  ASSUME NEW list, NEW S, NEW n \in Nat, NEW f, Gains(f, list, S, n), NEW m \in Nat, NEW g, Gains(g, list, S, m)
  PROVE  \A i \in Nat : i <= n /\ i <= m => f[i] = g[i]
<1> DEFINE T == {i \in Nat : i <= n /\ i <= m => f[i] = g[i]}
<1>1. 0 \in T
  BY DEF Gains
<1>2. ASSUME NEW i \in Nat, i \in T PROVE i + 1 \in T
  <2>1. \A j : j = i + 1 /\ j <= n /\ j <= m => f[j] = g[j]
    BY <1>2 DEF Gains
  <2> QED
    BY <2>1
<1> HIDE DEF T
<1>3. \A i \in Nat : i \in T
  BY <1>1, <1>2, Induction
<1> QED
  BY <1>3 DEF T

LEMMA GainIs ==
  ASSUME NEW list, NEW S, NEW n \in Nat
  PROVE  Gains(CHOOSE f : Gains(f, list, S, n), list, S, n)
<1>1. \E f : Gains(f, list, S, n)
  BY GainsExist
<1> QED
  BY <1>1

LEMMA GainNone == ASSUME NEW list, NEW S PROVE Gain(list, S, 0) = 0
<1>1. Gains(CHOOSE f : Gains(f, list, S, 0), list, S, 0)
  BY GainIs
<1> QED
  BY <1>1 DEF Gain, Gains

LEMMA GainStep ==
  ASSUME NEW list, NEW S, NEW n \in Nat \ {0}
  PROVE  Gain(list, S, n) = Gain(list, S, n - 1) + (IF n \in S THEN Profit(list[n]) ELSE 0)
<1> DEFINE f == CHOOSE h : Gains(h, list, S, n)
           g == CHOOSE h : Gains(h, list, S, n - 1)
<1>1. Gains(f, list, S, n) /\ Gains(g, list, S, n - 1)
  BY GainIs
<1>2. Gain(list, S, n) = f[n] /\ Gain(list, S, n - 1) = g[n - 1]
  BY DEF Gain
<1> HIDE DEF f, g
<1>3. f[n] = f[n - 1] + (IF n \in S THEN Profit(list[n]) ELSE 0)
  BY <1>1 DEF Gains
<1>4. f[n - 1] = g[n - 1]
  BY <1>1, GainsAgree
<1> QED
  BY <1>2, <1>3, <1>4

LEMMA GainTyped ==
  ASSUME NEW list \in Seq(Trades), NEW S
  PROVE  \A n \in Nat : n <= Len(list) => Gain(list, S, n) \in Int
<1> DEFINE T == {n \in Nat : n <= Len(list) => Gain(list, S, n) \in Int}
<1>1. 0 \in T
  BY GainNone
<1>2. ASSUME NEW n \in Nat, n \in T PROVE n + 1 \in T
  <2> SUFFICES ASSUME n + 1 <= Len(list) PROVE Gain(list, S, n + 1) \in Int
    BY <1>2
  <2>1. \A i : i = n + 1 => Gain(list, S, i) \in Int
    <3> SUFFICES ASSUME NEW i, i = n + 1 PROVE Gain(list, S, i) \in Int
      OBVIOUS
    <3>1. i \in 1..Len(list) /\ i \in Nat \ {0} /\ i - 1 = n /\ Gain(list, S, n) \in Int
      BY <1>2, TradesTyped
    <3>2. Profit(list[i]) \in Int
      BY <3>1, TradesTyped, TradeTyped
    <3>3. Gain(list, S, i) = Gain(list, S, n) + (IF i \in S THEN Profit(list[i]) ELSE 0)
      BY <3>1, GainStep
    <3> QED
      BY <3>1, <3>2, <3>3
  <2> QED
    BY <2>1
<1> HIDE DEF T
<1>3. \A n \in Nat : n \in T
  BY <1>1, <1>2, Induction
<1> QED
  BY <1>3 DEF T

\* Two sets of trades with none in common bring what they bring together.
LEMMA GainUnion ==
  ASSUME NEW list \in Seq(Trades), NEW R, NEW S, NEW Q,
         \A i \in 1..Len(list) : (i \in Q <=> i \in R \/ i \in S) /\ ~(i \in R /\ i \in S)
  PROVE  \A n \in Nat : n <= Len(list) => Gain(list, Q, n) = Gain(list, R, n) + Gain(list, S, n)
<1> DEFINE T == {n \in Nat : n <= Len(list) => Gain(list, Q, n) = Gain(list, R, n) + Gain(list, S, n)}
<1>1. 0 \in T
  BY GainNone
<1>2. ASSUME NEW n \in Nat, n \in T PROVE n + 1 \in T
  <2> SUFFICES ASSUME n + 1 <= Len(list)
               PROVE  \A i : i = n + 1 => Gain(list, Q, i) = Gain(list, R, i) + Gain(list, S, i)
    OBVIOUS
  <2> SUFFICES ASSUME NEW i, i = n + 1 PROVE Gain(list, Q, i) = Gain(list, R, i) + Gain(list, S, i)
    OBVIOUS
  <2>1. i \in 1..Len(list) /\ i \in Nat \ {0} /\ i - 1 = n
    BY TradesTyped
  <2>2. /\ Gain(list, Q, n) = Gain(list, R, n) + Gain(list, S, n)
        /\ Gain(list, R, n) \in Int /\ Gain(list, S, n) \in Int
    BY <1>2, <2>1, TradesTyped, GainTyped
  <2>3. Profit(list[i]) \in Int
    BY <2>1, TradesTyped, TradeTyped
  <2>4. /\ Gain(list, Q, i) = Gain(list, Q, n) + (IF i \in Q THEN Profit(list[i]) ELSE 0)
        /\ Gain(list, R, i) = Gain(list, R, n) + (IF i \in R THEN Profit(list[i]) ELSE 0)
        /\ Gain(list, S, i) = Gain(list, S, n) + (IF i \in S THEN Profit(list[i]) ELSE 0)
    BY <2>1, GainStep
  <2>5. (i \in Q <=> i \in R \/ i \in S) /\ ~(i \in R /\ i \in S)
    BY <2>1
  <2> QED
    BY <2>2, <2>3, <2>4, <2>5
<1> HIDE DEF T
<1>3. \A n \in Nat : n \in T
  BY <1>1, <1>2, Induction
<1> QED
  BY <1>3 DEF T

LEMMA GainEmpty ==
  ASSUME NEW list \in Seq(Trades), NEW S, \A i \in 1..Len(list) : i \notin S
  PROVE  Gain(list, S, Len(list)) = 0
<1>1. Len(list) \in Nat /\ Gain(list, S, Len(list)) \in Int
  BY TradesTyped, GainTyped
<1>2. Gain(list, S, Len(list)) = Gain(list, S, Len(list)) + Gain(list, S, Len(list))
  BY <1>1, GainUnion
<1> QED
  BY <1>1, <1>2

\* Only the trades of the list matter.
LEMMA GainSame ==
  ASSUME NEW list \in Seq(Trades), NEW R, NEW S, \A i \in 1..Len(list) : i \in R <=> i \in S
  PROVE  Gain(list, R, Len(list)) = Gain(list, S, Len(list))
<1>1. Len(list) \in Nat /\ Gain(list, S, Len(list)) \in Int
  BY TradesTyped, GainTyped
<1>2. Gain(list, R, Len(list)) = Gain(list, S, Len(list)) + Gain(list, {}, Len(list))
  BY <1>1, GainUnion
<1>3. Gain(list, {}, Len(list)) = 0
  BY GainEmpty
<1> QED
  BY <1>1, <1>2, <1>3

\* A trade alone brings its own.
LEMMA GainOne ==
  ASSUME NEW list \in Seq(Trades), NEW x \in 1..Len(list)
  PROVE  Gain(list, {x}, Len(list)) = Profit(list[x])
<1> DEFINE Right(n) == Gain(list, {x}, n) = IF n < x THEN 0 ELSE Profit(list[x])
           T == {n \in Nat : n <= Len(list) => Right(n)}
<1>0. Len(list) \in Nat /\ x \in Nat \ {0} /\ Profit(list[x]) \in Int
  BY TradesTyped, TradeTyped
<1>1. 0 \in T
  BY <1>0, GainNone
<1>2. ASSUME NEW n \in Nat, n \in T PROVE n + 1 \in T
  <2> SUFFICES ASSUME n + 1 <= Len(list), NEW i, i = n + 1 PROVE Right(i)
    <3> HIDE DEF Right
    <3> QED
      OBVIOUS
  <2>1. i \in Nat \ {0} /\ i - 1 = n
    OBVIOUS
  <2>2. Gain(list, {x}, n) = IF n < x THEN 0 ELSE Profit(list[x])
    BY <1>0, <1>2
  <2>3. Gain(list, {x}, i) = Gain(list, {x}, n) + (IF i \in {x} THEN Profit(list[i]) ELSE 0)
    BY <2>1, GainStep
  <2>4. CASE i = x
    BY <1>0, <2>1, <2>2, <2>3, <2>4
  <2>5. CASE i # x
    BY <1>0, <2>1, <2>2, <2>3, <2>5
  <2> QED
    BY <2>4, <2>5
<1> HIDE DEF T
<1>3. \A n \in Nat : n \in T
  BY <1>1, <1>2, Induction
<1>4. Gain(list, {x}, Len(list)) = IF Len(list) < x THEN 0 ELSE Profit(list[x])
  BY <1>0, <1>3 DEF T
<1> QED
  BY <1>0, <1>4

\* A trade more leaves what was there as it is.
LEMMA GainAppend ==
  ASSUME NEW list \in Seq(Trades), NEW t \in Trades, NEW S
  PROVE  Gain(Append(list, t), S, Len(list) + 1) =
           Gain(list, S, Len(list)) + (IF Len(list) + 1 \in S THEN Profit(t) ELSE 0)
<1> DEFINE more == Append(list, t)
           T == {n \in Nat : n <= Len(list) => Gain(more, S, n) = Gain(list, S, n)}
<1>0. /\ Len(list) \in Nat /\ more[Len(list) + 1] = t
      /\ \A i \in 1..Len(list) : more[i] = list[i]
  BY TradesTyped, AppendProperties
<1> HIDE DEF more
<1>1. 0 \in T
  BY GainNone
<1>2. ASSUME NEW n \in Nat, n \in T PROVE n + 1 \in T
  <2> SUFFICES ASSUME n + 1 <= Len(list)
               PROVE  \A i : i = n + 1 => Gain(more, S, i) = Gain(list, S, i)
    OBVIOUS
  <2> SUFFICES ASSUME NEW i, i = n + 1 PROVE Gain(more, S, i) = Gain(list, S, i)
    OBVIOUS
  <2>1. i \in Nat \ {0} /\ i - 1 = n /\ i \in 1..Len(list)
    BY <1>0
  <2>2. Gain(more, S, n) = Gain(list, S, n)
    BY <1>0, <1>2
  <2>3. /\ Gain(more, S, i) = Gain(more, S, n) + (IF i \in S THEN Profit(more[i]) ELSE 0)
        /\ Gain(list, S, i) = Gain(list, S, n) + (IF i \in S THEN Profit(list[i]) ELSE 0)
    BY <2>1, GainStep
  <2>4. more[i] = list[i]
    BY <1>0, <2>1
  <2> QED
    BY <2>2, <2>3, <2>4
<1> HIDE DEF T
<1>3. \A n \in Nat : n \in T
  BY <1>1, <1>2, Induction
<1>4. Gain(more, S, Len(list)) = Gain(list, S, Len(list))
  BY <1>0, <1>3 DEF T
<1>5. \A i : i = Len(list) + 1 =>
        Gain(more, S, i) = Gain(more, S, Len(list)) + (IF i \in S THEN Profit(t) ELSE 0)
  <2> SUFFICES ASSUME NEW i, i = Len(list) + 1
               PROVE  Gain(more, S, i) =
                        Gain(more, S, Len(list)) + (IF i \in S THEN Profit(t) ELSE 0)
    OBVIOUS
  <2>1. i \in Nat \ {0} /\ i - 1 = Len(list)
    BY <1>0
  <2>2. Gain(more, S, i) = Gain(more, S, i - 1) + (IF i \in S THEN Profit(more[i]) ELSE 0)
    BY <2>1, GainStep
  <2> QED
    BY <1>0, <2>1, <2>2
<1> QED
  BY <1>4, <1>5 DEF more

\* GetTotalPnL is what all trades brought.
LEMMA TotalIsGain ==
  trades \in Seq(Trades) => TotalPnL = Gain(trades, Nat, Len(trades))
<1> SUFFICES ASSUME trades \in Seq(Trades) PROVE TotalPnL = Gain(trades, Nat, Len(trades))
  OBVIOUS
<1> DEFINE Total(f) == f = [i \in 0..Len(trades) |->
                              IF i = 0 THEN 0 ELSE f[i - 1] + Profit(trades[i])]
<1>0. Len(trades) \in Nat
  BY TradesTyped
<1>1. \A f : Total(f) <=> Gains(f, trades, Nat, Len(trades))
  <2> SUFFICES ASSUME NEW f PROVE Total(f) <=> Gains(f, trades, Nat, Len(trades))
    OBVIOUS
  <2>1. \A i \in 0..Len(trades) :
          (IF i = 0 THEN 0 ELSE f[i - 1] + (IF i \in Nat THEN Profit(trades[i]) ELSE 0))
            = (IF i = 0 THEN 0 ELSE f[i - 1] + Profit(trades[i]))
    BY <1>0
  <2>2. [i \in 0..Len(trades) |->
           IF i = 0 THEN 0 ELSE f[i - 1] + (IF i \in Nat THEN Profit(trades[i]) ELSE 0)]
          = [i \in 0..Len(trades) |-> IF i = 0 THEN 0 ELSE f[i - 1] + Profit(trades[i])]
    BY <2>1
  <2> QED
    BY <2>2 DEF Gains
<1>2. \E f : Total(f)
  BY <1>0, <1>1, GainsExist
<1>3. Total(CHOOSE f : Total(f))
  <2> HIDE DEF Total
  <2> QED
    BY <1>2
<1>4. PICK h : Total(h) /\ TotalPnL = h[Len(trades)]
  BY <1>3 DEF TotalPnL
<1> DEFINE g == CHOOSE f : Gains(f, trades, Nat, Len(trades))
<1>5. Gains(h, trades, Nat, Len(trades)) /\ Gains(g, trades, Nat, Len(trades))
  BY <1>0, <1>1, <1>4, GainIs
<1>6. Gain(trades, Nat, Len(trades)) = g[Len(trades)]
  BY DEF Gain
<1> HIDE DEF g
<1>7. h[Len(trades)] = g[Len(trades)]
  BY <1>0, <1>5, GainsAgree
<1> QED
  BY <1>4, <1>6, <1>7

-----------------------------------------------------------------------------
(* The summary of a day.                                                   *)

Sums == [charged : Nat, solar : Nat, discharged : Nat, cost : Int, revenue : Int,
         charges : Nat, solars : Nat, discharges : Nat, minCharge : Int, maxDischarge : Int]

\* What a summary is, whose charges cost prices of P and discharges earned those of Q.
Fits(s, P, Q) ==
  /\ s \in Sums
  /\ s.solar <= s.charged
  /\ s.charges = 0 => s.solar = s.charged /\ s.cost = 0
  /\ s.charges > 0 => /\ s.minCharge \in P
                      /\ s.minCharge * (s.charged - s.solar) <= s.cost
  /\ s.discharges = 0 => s.discharged = 0 /\ s.revenue = 0
  /\ s.discharges > 0 => /\ s.maxDischarge \in Q
                         /\ s.maxDischarge * s.discharged >= s.revenue

LEMMA TimesMonotone ==
  ASSUME NEW n \in Nat, NEW x \in Int, NEW y \in Int, x <= y
  PROVE  x * n \in Int /\ y * n \in Int /\ x * n <= y * n
OBVIOUS

LEMMA Distributes ==
  ASSUME NEW x \in Int, NEW m \in Int, NEW n \in Int
  PROVE  x * (m + n) = x * m + x * n /\ x * m \in Int /\ x * n \in Int
OBVIOUS

LEMMA AddCharge ==
  ASSUME NEW P \in SUBSET Int, NEW Q, NEW s, Fits(s, P, Q), NEW t \in Trades,
         t.action = "charge", t.price \in P
  PROVE  Fits(Add(s, t), P, Q) /\ Add(s, t).revenue - Add(s, t).cost = s.revenue - s.cost + Profit(t)
<1> DEFINE p == t.price
           e == t.energy
           m == IF s.charges = 0 \/ p < s.minCharge THEN p ELSE s.minCharge
<1>1. p \in Int /\ e \in Nat /\ p \in P
  BY TradeTyped
<1>2. Add(s, t) = [s EXCEPT !.charged = @ + e, !.cost = @ + p * e, !.minCharge = m, !.charges = @ + 1]
  BY DEF Add
<1>3. Profit(t) = -p * e
  BY DEF Profit
<1>4. s \in Sums
  BY DEF Fits
<1>5. /\ Add(s, t).charged = s.charged + e /\ Add(s, t).solar = s.solar
      /\ Add(s, t).discharged = s.discharged
      /\ Add(s, t).cost = s.cost + p * e /\ Add(s, t).revenue = s.revenue
      /\ Add(s, t).charges = s.charges + 1 /\ Add(s, t).discharges = s.discharges
      /\ Add(s, t).minCharge = m /\ Add(s, t).maxDischarge = s.maxDischarge
  <2> HIDE DEF m, p, e
  <2> QED
    BY <1>2, <1>4 DEF Sums
<1>6. /\ s.charged \in Nat /\ s.solar \in Nat /\ s.cost \in Int /\ s.revenue \in Int
      /\ s.charges \in Nat /\ s.minCharge \in Int /\ s.solar <= s.charged
  BY <1>4 DEF Sums, Fits
<1>7. m \in Int /\ m \in P /\ m <= p /\ (s.charges > 0 => m <= s.minCharge)
  BY <1>1, <1>6 DEF Fits
<1> HIDE DEF m, p, e
<1>8. p * e \in Int /\ -p * e = -(p * e)
  BY <1>1
<1>9. Add(s, t) \in Sums
  <2>1. s.charged + e \in Nat /\ s.cost + p * e \in Int /\ s.charges + 1 \in Nat
    BY <1>1, <1>6, <1>8
  <2> QED
    BY <1>2, <1>4, <1>7, <2>1 DEF Sums
<1>10. m * ((s.charged + e) - s.solar) <= s.cost + p * e
  <2> DEFINE c == s.charged - s.solar
  <2>1. c \in Nat /\ (s.charged + e) - s.solar = c + e
    BY <1>1, <1>6
  <2>2. m * c <= s.cost /\ m * c \in Int
    <3>1. CASE s.charges = 0
      <4>1. c = 0 /\ s.cost = 0
        BY <1>6, <3>1 DEF Fits
      <4> QED
        BY <1>7, <4>1
    <3>2. CASE s.charges > 0
      <4>1. s.minCharge * c <= s.cost
        BY <3>2 DEF Fits
      <4> HIDE DEF c
      <4>2. m * c <= s.minCharge * c /\ m * c \in Int /\ s.minCharge * c \in Int
        BY <1>6, <1>7, <2>1, <3>2, TimesMonotone
      <4> QED
        BY <1>6, <4>1, <4>2
    <3> QED
      BY <1>6, <3>1, <3>2
  <2> HIDE DEF c
  <2>3. m * e <= p * e /\ m * e \in Int
    BY <1>1, <1>7, TimesMonotone
  <2>4. m * (c + e) = m * c + m * e
    BY <1>1, <1>7, <2>1, Distributes
  <2> QED
    BY <1>6, <1>8, <2>1, <2>2, <2>3, <2>4
<1>11. Fits(Add(s, t), P, Q)
  <2>1. Add(s, t).solar <= Add(s, t).charged /\ Add(s, t).charges > 0
    BY <1>1, <1>5, <1>6
  <2>2. /\ Add(s, t).minCharge \in P
        /\ Add(s, t).minCharge * (Add(s, t).charged - Add(s, t).solar) <= Add(s, t).cost
    BY <1>5, <1>7, <1>10
  <2>3. /\ Add(s, t).discharges = 0 => Add(s, t).discharged = 0 /\ Add(s, t).revenue = 0
        /\ Add(s, t).discharges > 0 =>
             /\ Add(s, t).maxDischarge \in Q
             /\ Add(s, t).maxDischarge * Add(s, t).discharged >= Add(s, t).revenue
    BY <1>5 DEF Fits
  <2>4. Add(s, t).charges # 0
    BY <1>5, <1>6
  <2> QED
    BY <1>9, <2>1, <2>2, <2>3, <2>4 DEF Fits
<1>12. Add(s, t).revenue - Add(s, t).cost = s.revenue - s.cost + Profit(t)
  BY <1>3, <1>5, <1>6, <1>8
<1> QED
  BY <1>11, <1>12

LEMMA AddDischarge ==
  ASSUME NEW P, NEW Q \in SUBSET Int, NEW s, Fits(s, P, Q), NEW t \in Trades,
         t.action = "discharge", t.price \in Q
  PROVE  Fits(Add(s, t), P, Q) /\ Add(s, t).revenue - Add(s, t).cost = s.revenue - s.cost + Profit(t)
<1> DEFINE p == t.price
           e == t.energy
           m == IF s.discharges = 0 \/ p > s.maxDischarge THEN p ELSE s.maxDischarge
<1>1. p \in Int /\ e \in Nat /\ p \in Q
  BY TradeTyped
<1>2. Add(s, t) = [s EXCEPT !.discharged = @ + e, !.revenue = @ + p * e, !.maxDischarge = m,
                            !.discharges = @ + 1]
  BY DEF Add
<1>3. Profit(t) = p * e
  BY DEF Profit
<1>4. s \in Sums
  BY DEF Fits
<1>5. /\ Add(s, t).charged = s.charged /\ Add(s, t).solar = s.solar
      /\ Add(s, t).discharged = s.discharged + e
      /\ Add(s, t).cost = s.cost /\ Add(s, t).revenue = s.revenue + p * e
      /\ Add(s, t).charges = s.charges /\ Add(s, t).discharges = s.discharges + 1
      /\ Add(s, t).minCharge = s.minCharge /\ Add(s, t).maxDischarge = m
  <2> HIDE DEF m, p, e
  <2> QED
    BY <1>2, <1>4 DEF Sums
<1>6. /\ s.discharged \in Nat /\ s.cost \in Int /\ s.revenue \in Int
      /\ s.discharges \in Nat /\ s.maxDischarge \in Int
  BY <1>4 DEF Sums
<1>7. m \in Int /\ m \in Q /\ p <= m /\ (s.discharges > 0 => s.maxDischarge <= m)
  BY <1>1, <1>6 DEF Fits
<1> HIDE DEF m, p, e
<1>8. p * e \in Int
  BY <1>1
<1>9. Add(s, t) \in Sums
  <2>1. s.discharged + e \in Nat /\ s.revenue + p * e \in Int /\ s.discharges + 1 \in Nat
    BY <1>1, <1>6, <1>8
  <2> QED
    BY <1>2, <1>4, <1>7, <2>1 DEF Sums
<1>10. m * (s.discharged + e) >= s.revenue + p * e
  <2>1. s.revenue <= m * s.discharged /\ m * s.discharged \in Int
    <3>1. CASE s.discharges = 0
      <4>1. s.discharged = 0 /\ s.revenue = 0
        BY <3>1 DEF Fits
      <4> QED
        BY <1>7, <4>1
    <3>2. CASE s.discharges > 0
      <4>1. s.maxDischarge * s.discharged >= s.revenue
        BY <3>2 DEF Fits
      <4>2. /\ s.maxDischarge * s.discharged <= m * s.discharged
            /\ m * s.discharged \in Int /\ s.maxDischarge * s.discharged \in Int
        BY <1>6, <1>7, <3>2, TimesMonotone
      <4> QED
        BY <1>6, <4>1, <4>2
    <3> QED
      BY <1>6, <3>1, <3>2
  <2>2. p * e <= m * e /\ m * e \in Int
    BY <1>1, <1>7, TimesMonotone
  <2>3. m * (s.discharged + e) = m * s.discharged + m * e
    BY <1>1, <1>6, <1>7, Distributes
  <2> QED
    BY <1>6, <1>8, <2>1, <2>2, <2>3
<1>11. Fits(Add(s, t), P, Q)
  <2>1. /\ Add(s, t).maxDischarge \in Q
        /\ Add(s, t).maxDischarge * Add(s, t).discharged >= Add(s, t).revenue
    BY <1>5, <1>7, <1>10
  <2>2. /\ Add(s, t).solar <= Add(s, t).charged
        /\ Add(s, t).charges = 0 => Add(s, t).solar = Add(s, t).charged /\ Add(s, t).cost = 0
        /\ Add(s, t).charges > 0 =>
             /\ Add(s, t).minCharge \in P
             /\ Add(s, t).minCharge * (Add(s, t).charged - Add(s, t).solar) <= Add(s, t).cost
    BY <1>5 DEF Fits
  <2>3. Add(s, t).discharges # 0
    BY <1>5, <1>6
  <2> QED
    BY <1>9, <2>1, <2>2, <2>3 DEF Fits
<1>12. Add(s, t).revenue - Add(s, t).cost = s.revenue - s.cost + Profit(t)
  BY <1>3, <1>5, <1>6, <1>8
<1> QED
  BY <1>11, <1>12

LEMMA AddSolar ==
  ASSUME NEW P, NEW Q, NEW s, Fits(s, P, Q), NEW t \in Trades, t.action = "solar_charge"
  PROVE  Fits(Add(s, t), P, Q) /\ Add(s, t).revenue - Add(s, t).cost = s.revenue - s.cost + Profit(t)
<1> DEFINE e == t.energy
<1>1. e \in Nat
  BY TradeTyped
<1>2. Add(s, t) = [s EXCEPT !.charged = @ + e, !.solar = @ + e, !.solars = @ + 1]
  BY DEF Add
<1>3. Profit(t) = 0
  BY DEF Profit
<1> HIDE DEF e
<1>4. s \in Sums
  BY DEF Fits
<1>5. /\ Add(s, t).charged = s.charged + e /\ Add(s, t).solar = s.solar + e
      /\ Add(s, t).discharged = s.discharged
      /\ Add(s, t).cost = s.cost /\ Add(s, t).revenue = s.revenue
      /\ Add(s, t).charges = s.charges /\ Add(s, t).discharges = s.discharges
      /\ Add(s, t).minCharge = s.minCharge /\ Add(s, t).maxDischarge = s.maxDischarge
  BY <1>2, <1>4 DEF Sums
<1>6. s.charged \in Nat /\ s.solar \in Nat /\ s.cost \in Int /\ s.revenue \in Int /\ s.solars \in Nat
  BY <1>4 DEF Sums
<1>7. Add(s, t) \in Sums
  <2>1. s.charged + e \in Nat /\ s.solar + e \in Nat /\ s.solars + 1 \in Nat
    BY <1>1, <1>6
  <2> QED
    BY <1>2, <1>4, <2>1 DEF Sums
<1>8. /\ Add(s, t).charged - Add(s, t).solar = s.charged - s.solar
      /\ Add(s, t).solar <= Add(s, t).charged <=> s.solar <= s.charged
      /\ Add(s, t).solar = Add(s, t).charged <=> s.solar = s.charged
  BY <1>1, <1>5, <1>6
<1>9. Fits(Add(s, t), P, Q)
  BY <1>5, <1>7, <1>8 DEF Fits
<1>10. Add(s, t).revenue - Add(s, t).cost = s.revenue - s.cost + Profit(t)
  BY <1>3, <1>5, <1>6
<1> QED
  BY <1>9, <1>10

\* f holds the summaries of a day over up to n trades.
Summaries(f, list, d, n) ==
  f = [i \in 0..n |-> IF i = 0 THEN Zero
                      ELSE IF list[i].day = d THEN Add(f[i - 1], list[i]) ELSE f[i - 1]]

LEMMA SummariesExist ==
  ASSUME NEW list, NEW d PROVE \A n \in Nat : \E f : Summaries(f, list, d, n)
<1> DEFINE T == {n \in Nat : \E f : Summaries(f, list, d, n)}
<1>1. 0 \in T
  <2>1. Summaries([i \in 0..0 |-> Zero], list, d, 0)
    BY DEF Summaries
  <2> QED
    BY <2>1
<1>2. ASSUME NEW n \in Nat, n \in T PROVE n + 1 \in T
  <2>1. PICK f : Summaries(f, list, d, n)
    BY <1>2
  <2> DEFINE g == [i \in 0..(n + 1) |->
                     IF i = n + 1 THEN IF list[i].day = d THEN Add(f[n], list[i]) ELSE f[n]
                     ELSE f[i]]
  <2>2. ASSUME NEW i \in 0..(n + 1)
        PROVE  g[i] = IF i = 0 THEN Zero
                      ELSE IF list[i].day = d THEN Add(g[i - 1], list[i]) ELSE g[i - 1]
    BY <2>1 DEF Summaries
  <2>3. Summaries(g, list, d, n + 1)
    BY <2>2 DEF Summaries
  <2> QED
    BY <2>3
<1> HIDE DEF T
<1>3. \A n \in Nat : n \in T
  BY <1>1, <1>2, Induction
<1> QED
  BY <1>3 DEF T

\* The trades of a day, by their places.
OfDay(list, d) == {i \in 1..Len(list) : list[i].day = d}

\* A summary fits its day's trades, and its profit is what they brought.
LEMMA SummaryFits ==
  ASSUME trades \in Seq(Trades), NEW d
  PROVE  /\ Fits(Summary(d), Paid(d, "charge"), Paid(d, "discharge"))
         /\ PnL(d) = Gain(trades, OfDay(trades, d), Len(trades))
<1>0. /\ Len(trades) \in Nat /\ DOMAIN trades = 1..Len(trades)
      /\ \A i \in 1..Len(trades) : trades[i] \in Trades
  BY TradesTyped
<1>1. PICK f : Summaries(f, trades, d, Len(trades)) /\ Summary(d) = f[Len(trades)]
  <2>1. \E f : Summaries(f, trades, d, Len(trades))
    BY <1>0, SummariesExist
  <2>2. Summaries(CHOOSE f : Summaries(f, trades, d, Len(trades)), trades, d, Len(trades))
    BY <2>1
  <2>3. Summary(d) = (CHOOSE f : Summaries(f, trades, d, Len(trades)))[Len(trades)]
    BY DEF Summary, Summaries
  <2> QED
    BY <2>2, <2>3
<1> DEFINE P == Paid(d, "charge")
           Q == Paid(d, "discharge")
           D == OfDay(trades, d)
           Right(n) == Fits(f[n], P, Q) /\ f[n].revenue - f[n].cost = Gain(trades, D, n)
           T == {n \in Nat : n <= Len(trades) => Right(n)}
<1>2. P \in SUBSET Int /\ Q \in SUBSET Int
  <2> SUFFICES ASSUME NEW action PROVE Paid(d, action) \in SUBSET Int
    OBVIOUS
  <2>1. \A i \in 1..Len(trades) : trades[i].price \in Int
    BY <1>0, TradeTyped
  <2> QED
    BY <1>0, <2>1 DEF Paid
<1>3. 0 \in T
  <2>1. f[0] = Zero
    BY <1>0, <1>1 DEF Summaries
  <2>2. Fits(Zero, P, Q) /\ Zero.revenue - Zero.cost = 0
    BY DEF Fits, Zero, Sums
  <2> HIDE DEF P, Q, D
  <2>3. Right(0)
    BY <2>1, <2>2, GainNone
  <2> QED
    BY <2>3
<1>4. ASSUME NEW n \in Nat, n \in T PROVE n + 1 \in T
  <2> HIDE DEF P, Q, D
  <2> SUFFICES ASSUME n + 1 <= Len(trades), NEW i, i = n + 1 PROVE Right(i)
    <3> HIDE DEF Right
    <3> QED
      OBVIOUS
  <2>1. i \in 1..Len(trades) /\ i \in Nat \ {0} /\ i - 1 = n /\ trades[i] \in Trades
    BY <1>0
  <2>2. Fits(f[n], P, Q) /\ f[n].revenue - f[n].cost = Gain(trades, D, n)
    BY <1>0, <1>4
  <2>3. f[i] = IF trades[i].day = d THEN Add(f[n], trades[i]) ELSE f[n]
    BY <1>0, <1>1, <2>1 DEF Summaries
  <2>4. Gain(trades, D, i) = Gain(trades, D, n) + (IF i \in D THEN Profit(trades[i]) ELSE 0)
    BY <2>1, GainStep
  <2>5. i \in D <=> trades[i].day = d
    BY <2>1 DEF D, OfDay
  <2>6. Gain(trades, D, n) \in Int
    BY <1>0, <2>1, GainTyped
  <2>7. CASE trades[i].day = d
    <3>1. /\ Fits(Add(f[n], trades[i]), P, Q)
          /\ Add(f[n], trades[i]).revenue - Add(f[n], trades[i]).cost
               = f[n].revenue - f[n].cost + Profit(trades[i])
      <4>1. CASE trades[i].action = "charge"
        <5>1. trades[i].price \in P
          BY <1>0, <2>1, <2>7, <4>1 DEF P, Paid
        <5> QED
          BY <1>2, <2>1, <2>2, <4>1, <5>1, AddCharge
      <4>2. CASE trades[i].action = "discharge"
        <5>1. trades[i].price \in Q
          BY <1>0, <2>1, <2>7, <4>2 DEF Q, Paid
        <5> QED
          BY <1>2, <2>1, <2>2, <4>2, <5>1, AddDischarge
      <4>3. CASE trades[i].action = "solar_charge"
        BY <2>1, <2>2, <4>3, AddSolar
      <4>4. trades[i].action \in {"charge", "discharge", "solar_charge"}
        BY <2>1, TradeTyped DEF Actions
      <4> QED
        BY <4>1, <4>2, <4>3, <4>4
    <3> QED
      BY <2>2, <2>3, <2>4, <2>5, <2>7, <3>1
  <2>8. CASE trades[i].day # d
    <3>1. f[i] = f[n] /\ Gain(trades, D, i) = Gain(trades, D, n)
      BY <2>3, <2>4, <2>5, <2>6, <2>8
    <3> QED
      BY <2>2, <3>1
  <2> QED
    BY <2>7, <2>8
<1> HIDE DEF T
<1>5. \A n \in Nat : n \in T
  BY <1>3, <1>4, Induction
<1>6. Right(Len(trades))
  <2> HIDE DEF Right
  <2> QED
    BY <1>0, <1>5 DEF T
<1> QED
  BY <1>1, <1>6 DEF PnL

LEMMA PricesRight == trades \in Seq(Trades) => PricesFit
BY SummaryFits DEF PricesFit, Fits

-----------------------------------------------------------------------------
(* Sums over sets.                                                         *)

Some(s) == CHOOSE x \in s : TRUE

\* f holds the sums of F over the sets of D, taken apart element by element.
Adds(f, F, D) == f = [s \in D |-> IF s = {} THEN 0 ELSE F[Some(s)] + f[s \ {Some(s)}]]

\* The subsets of S of up to n elements.
UpTo(S, n) == {s \in SUBSET S : Cardinality(s) <= n}

LEMMA Smaller ==
  ASSUME NEW s, IsFiniteSet(s), s # {}
  PROVE  /\ Some(s) \in s /\ IsFiniteSet(s \ {Some(s)}) /\ Cardinality(s) \in Nat \ {0}
         /\ Cardinality(s \ {Some(s)}) = Cardinality(s) - 1
<1>1. Some(s) \in s
  BY DEF Some
<1>2. /\ IsFiniteSet(s \ {Some(s)}) /\ Cardinality(s \ {Some(s)}) = Cardinality(s) - 1
  BY <1>1, FS_RemoveElement
<1>3. Cardinality(s) \in Nat /\ Cardinality(s \ {Some(s)}) \in Nat
  BY <1>2, FS_CardinalityType
<1> QED
  BY <1>1, <1>2, <1>3

LEMMA AddsExist ==
  ASSUME NEW S, IsFiniteSet(S), NEW F
  PROVE  \E f : Adds(f, F, SUBSET S)
<1> DEFINE T == {n \in Nat : \E f : Adds(f, F, UpTo(S, n))}
<1>0. \A s \in SUBSET S : IsFiniteSet(s) /\ Cardinality(s) \in Nat
  BY FS_Subset, FS_CardinalityType
<1>1. \A s \in SUBSET S : s # {} =>
        /\ s \ {Some(s)} \in SUBSET S
        /\ Cardinality(s) \in Nat \ {0} /\ Cardinality(s \ {Some(s)}) = Cardinality(s) - 1
  <2> SUFFICES ASSUME NEW s \in SUBSET S, s # {}
               PROVE  /\ s \ {Some(s)} \in SUBSET S
                      /\ Cardinality(s) \in Nat \ {0}
                      /\ Cardinality(s \ {Some(s)}) = Cardinality(s) - 1
    OBVIOUS
  <2> QED
    BY <1>0, Smaller
<1>2. 0 \in T
  <2> DEFINE g == [s \in UpTo(S, 0) |-> 0]
  <2>1. ASSUME NEW s \in UpTo(S, 0) PROVE s = {}
    <3>1. s \in SUBSET S /\ Cardinality(s) <= 0
      BY DEF UpTo
    <3>2. CASE s # {}
      <4>1. Cardinality(s) \in Nat \ {0}
        BY <1>1, <3>1, <3>2
      <4> QED
        BY <3>1, <4>1
    <3> QED
      BY <3>2
  <2>2. Adds(g, F, UpTo(S, 0))
    BY <2>1 DEF Adds
  <2> QED
    BY <2>2
<1>3. ASSUME NEW n \in Nat, n \in T PROVE n + 1 \in T
  <2>1. PICK f : Adds(f, F, UpTo(S, n))
    BY <1>3
  <2> DEFINE D == UpTo(S, n + 1)
             g == [s \in D |-> IF s = {} THEN 0 ELSE F[Some(s)] + f[s \ {Some(s)}]]
  <2>2. \A s \in UpTo(S, n) : s \in D /\ g[s] = f[s]
    <3>1. \A s \in UpTo(S, n) : s \in D
      BY <1>0 DEF UpTo
    <3> QED
      BY <2>1, <3>1 DEF Adds
  <2>3. \A s \in D : s # {} => s \ {Some(s)} \in UpTo(S, n)
    BY <1>1 DEF UpTo
  <2> HIDE DEF D
  <2>4. Adds(g, F, D)
    BY <2>2, <2>3 DEF Adds
  <2> QED
    BY <2>4 DEF D
<1> HIDE DEF T
<1>4. \A n \in Nat : n \in T
  BY <1>2, <1>3, Induction
<1>5. UpTo(S, Cardinality(S)) = SUBSET S /\ Cardinality(S) \in Nat
  BY FS_Subset, FS_CardinalityType DEF UpTo
<1>6. \E f : Adds(f, F, UpTo(S, Cardinality(S)))
  <2>1. Cardinality(S) \in T
    BY <1>4, <1>5
  <2> QED
    BY <2>1 DEF T
<1> QED
  BY <1>5, <1>6, Zenon

\* The trades that are started on a day of s.
OnDays(list, s) == {i \in 1..Len(list) : list[i].day \in s}

LEMMA DaysFinite == ASSUME trades \in Seq(Trades) PROVE IsFiniteSet(TradingDays)
<1> DEFINE D == DOMAIN trades
           R == {trades[i].day : i \in D}
<1>1. D = 1..Len(trades) /\ Len(trades) \in Int
  BY TradesTyped
<1>2. IsFiniteSet(D)
  BY <1>1, FS_Interval
<1>3. TradingDays = R
  BY DEF TradingDays
<1> DEFINE f == [i \in D |-> trades[i].day]
<1>4. f \in Surjection(D, R)
  BY DEF Surjection
<1> HIDE DEF D, R, f
<1>5. IsFiniteSet(R)
  BY <1>2, <1>4, FS_Surjection
<1> QED
  BY <1>3, <1>5

LEMMA HistoryIsAdds ==
  ASSUME trades \in Seq(Trades)
  PROVE  \E f : /\ Adds(f, [d \in TradingDays |-> PnL(d)], SUBSET TradingDays)
                /\ HistoryPnL = f[TradingDays]
<1> DEFINE F == [d \in TradingDays |-> PnL(d)]
           Code(f) == f = [s \in SUBSET TradingDays |->
                             IF s = {} THEN 0 ELSE PnL(Some(s)) + f[s \ {Some(s)}]]
<1>0. IsFiniteSet(TradingDays)
  BY DaysFinite
<1>1. \A f : Adds(f, F, SUBSET TradingDays) <=> Code(f)
  <2> SUFFICES ASSUME NEW f PROVE Adds(f, F, SUBSET TradingDays) <=> Code(f)
    OBVIOUS
  <2>1. \A s \in SUBSET TradingDays : s # {} => F[Some(s)] = PnL(Some(s))
    BY DEF Some
  <2>2. [s \in SUBSET TradingDays |-> IF s = {} THEN 0 ELSE F[Some(s)] + f[s \ {Some(s)}]]
          = [s \in SUBSET TradingDays |-> IF s = {} THEN 0 ELSE PnL(Some(s)) + f[s \ {Some(s)}]]
    <3> HIDE DEF F
    <3> QED
      BY <2>1
  <2> QED
    BY <2>2 DEF Adds
<1>2. \E f : Code(f)
  BY <1>0, <1>1, AddsExist
<1>3. Code(CHOOSE f : Code(f))
  <2> HIDE DEF Code
  <2> QED
    BY <1>2
<1>4. HistoryPnL = (CHOOSE f : Code(f))[TradingDays]
  BY DEF HistoryPnL, MapThenSumSet, MapThenFoldSet, Some
<1> HIDE DEF Code
<1> QED
  BY <1>1, <1>3, <1>4

\* The profit of the history, day by day, is that of all trades.
LEMMA TotalsRight == trades \in Seq(Trades) => TotalsAgree
<1> SUFFICES ASSUME trades \in Seq(Trades) PROVE HistoryPnL = TotalPnL
  BY DEF TotalsAgree
<1> DEFINE F == [d \in TradingDays |-> PnL(d)]
<1>0. /\ Len(trades) \in Nat /\ DOMAIN trades = 1..Len(trades)
      /\ IsFiniteSet(TradingDays)
  BY TradesTyped, DaysFinite
<1>1. PICK f : Adds(f, F, SUBSET TradingDays) /\ HistoryPnL = f[TradingDays]
  BY HistoryIsAdds
<1>2. \A d \in TradingDays : F[d] = Gain(trades, OfDay(trades, d), Len(trades))
  BY SummaryFits
<1> HIDE DEF F
<1> DEFINE Right(s) == f[s] = Gain(trades, OnDays(trades, s), Len(trades))
           T == {n \in Nat : \A s \in SUBSET TradingDays : Cardinality(s) = n => Right(s)}
<1>3. \A s \in SUBSET TradingDays : IsFiniteSet(s) /\ Cardinality(s) \in Nat
  BY <1>0, FS_Subset, FS_CardinalityType
<1>4. 0 \in T
  <2> SUFFICES ASSUME NEW s \in SUBSET TradingDays, Cardinality(s) = 0 PROVE Right(s)
    OBVIOUS
  <2>1. s = {}
    BY <1>3, FS_EmptySet
  <2>2. f[s] = 0
    BY <1>1, <2>1 DEF Adds
  <2>3. Gain(trades, OnDays(trades, s), Len(trades)) = 0
    BY <2>1, GainEmpty DEF OnDays
  <2> QED
    BY <2>2, <2>3
<1>5. ASSUME NEW n \in Nat, n \in T PROVE n + 1 \in T
  <2> SUFFICES ASSUME NEW s \in SUBSET TradingDays, Cardinality(s) = n + 1 PROVE Right(s)
    OBVIOUS
  <2> DEFINE d == Some(s)
             r == s \ {d}
  <2>1. s # {}
    BY <1>3, FS_EmptySet
  <2>2. d \in s /\ r \in SUBSET TradingDays /\ Cardinality(r) = n
    BY <1>3, <2>1, Smaller
  <2>3. f[s] = F[d] + f[r]
    BY <1>1, <2>1 DEF Adds
  <2> HIDE DEF d
  <2>4. f[r] = Gain(trades, OnDays(trades, r), Len(trades))
    BY <1>5, <2>2
  <2>5. F[d] = Gain(trades, OfDay(trades, d), Len(trades))
    BY <1>2, <2>2
  <2>6. \A i \in 1..Len(trades) :
          /\ i \in OnDays(trades, s) <=> i \in OfDay(trades, d) \/ i \in OnDays(trades, r)
          /\ ~(i \in OfDay(trades, d) /\ i \in OnDays(trades, r))
    BY <2>2 DEF OnDays, OfDay
  <2> HIDE DEF r
  <2>7. Gain(trades, OnDays(trades, s), Len(trades)) =
          Gain(trades, OfDay(trades, d), Len(trades)) + Gain(trades, OnDays(trades, r), Len(trades))
    BY <1>0, <2>6, GainUnion
  <2> QED
    BY <2>3, <2>4, <2>5, <2>7
<1> HIDE DEF T
<1>6. \A n \in Nat : n \in T
  BY <1>4, <1>5, Induction
<1>7. f[TradingDays] = Gain(trades, OnDays(trades, TradingDays), Len(trades))
  <2>1. Cardinality(TradingDays) \in T /\ TradingDays \in SUBSET TradingDays
    BY <1>3, <1>6
  <2> QED
    BY <2>1 DEF T
<1>8. Gain(trades, OnDays(trades, TradingDays), Len(trades)) = Gain(trades, Nat, Len(trades))
  <2>1. \A i \in 1..Len(trades) : i \in OnDays(trades, TradingDays) <=> i \in Nat
    BY <1>0 DEF OnDays, TradingDays
  <2> QED
    BY <2>1, GainSame
<1> QED
  BY <1>1, <1>7, <1>8, TotalIsGain

\* What the trades of a set of places brought, added up in any order.
LEMMA OpenSum ==
  ASSUME trades \in Seq(Trades), NEW S \in SUBSET (1..Len(trades))
  PROVE  MapThenSumSet(LAMBDA i : Profit(trades[i]), S) = Gain(trades, S, Len(trades))
<1> DEFINE F == [i \in S |-> Profit(trades[i])]
           Code(f) == f = [s \in SUBSET S |->
                             IF s = {} THEN 0 ELSE Profit(trades[Some(s)]) + f[s \ {Some(s)}]]
<1>0. Len(trades) \in Nat /\ IsFiniteSet(S)
  <2>1. Len(trades) \in Nat
    BY TradesTyped
  <2>2. IsFiniteSet(1..Len(trades))
    BY <2>1, FS_Interval
  <2> QED
    BY <2>1, <2>2, FS_Subset
<1>1. \A f : Adds(f, F, SUBSET S) <=> Code(f)
  <2> SUFFICES ASSUME NEW f PROVE Adds(f, F, SUBSET S) <=> Code(f)
    OBVIOUS
  <2>1. \A s \in SUBSET S : s # {} => F[Some(s)] = Profit(trades[Some(s)])
    BY DEF Some
  <2>2. [s \in SUBSET S |-> IF s = {} THEN 0 ELSE F[Some(s)] + f[s \ {Some(s)}]]
          = [s \in SUBSET S |->
               IF s = {} THEN 0 ELSE Profit(trades[Some(s)]) + f[s \ {Some(s)}]]
    <3> HIDE DEF F
    <3> QED
      BY <2>1
  <2> QED
    BY <2>2 DEF Adds
<1>2. \E f : Code(f)
  BY <1>0, <1>1, AddsExist
<1>3. Code(CHOOSE f : Code(f))
  <2> HIDE DEF Code
  <2> QED
    BY <1>2
<1>4. MapThenSumSet(LAMBDA i : Profit(trades[i]), S) = (CHOOSE f : Code(f))[S]
  BY DEF MapThenSumSet, MapThenFoldSet, Some
<1>5. PICK f : /\ Adds(f, F, SUBSET S)
               /\ MapThenSumSet(LAMBDA i : Profit(trades[i]), S) = f[S]
  <2> HIDE DEF Code
  <2> QED
    BY <1>1, <1>3, <1>4
<1>6. \A x \in S : F[x] = Gain(trades, {x}, Len(trades))
  BY GainOne
<1> HIDE DEF F, Code
<1> DEFINE Right(s) == f[s] = Gain(trades, s, Len(trades))
           T == {n \in Nat : \A s \in SUBSET S : Cardinality(s) = n => Right(s)}
<1>7. \A s \in SUBSET S : IsFiniteSet(s) /\ Cardinality(s) \in Nat
  BY <1>0, FS_Subset, FS_CardinalityType
<1>8. 0 \in T
  <2> SUFFICES ASSUME NEW s \in SUBSET S, Cardinality(s) = 0 PROVE Right(s)
    OBVIOUS
  <2>1. s = {}
    BY <1>7, FS_EmptySet
  <2>2. f[s] = 0
    BY <1>5, <2>1 DEF Adds
  <2>3. Gain(trades, s, Len(trades)) = 0
    BY <2>1, GainEmpty
  <2> QED
    BY <2>2, <2>3
<1>9. ASSUME NEW n \in Nat, n \in T PROVE n + 1 \in T
  <2> SUFFICES ASSUME NEW s \in SUBSET S, Cardinality(s) = n + 1 PROVE Right(s)
    OBVIOUS
  <2> DEFINE x == Some(s)
             r == s \ {x}
  <2>1. s # {}
    BY <1>7, FS_EmptySet
  <2>2. x \in s /\ r \in SUBSET S /\ Cardinality(r) = n
    <3>1. IsFiniteSet(s)
      BY <1>7
    <3>2. x \in s /\ Cardinality(r) = Cardinality(s) - 1
      BY <2>1, <3>1, Smaller
    <3>3. r \in SUBSET S
      OBVIOUS
    <3> HIDE DEF r
    <3> QED
      BY <3>2, <3>3
  <2>3. f[s] = F[x] + f[r]
    BY <1>5, <2>1 DEF Adds
  <2> HIDE DEF x
  <2>4. f[r] = Gain(trades, r, Len(trades))
    BY <1>9, <2>2
  <2>5. F[x] = Gain(trades, {x}, Len(trades))
    BY <1>6, <2>2
  <2>6. \A i \in 1..Len(trades) : (i \in s <=> i \in {x} \/ i \in r) /\ ~(i \in {x} /\ i \in r)
    BY <2>2
  <2> HIDE DEF r
  <2>7. Gain(trades, s, Len(trades)) =
          Gain(trades, {x}, Len(trades)) + Gain(trades, r, Len(trades))
    BY <1>0, <2>6, GainUnion
  <2> QED
    BY <2>3, <2>4, <2>5, <2>7
<1> HIDE DEF T
<1>10. \A n \in Nat : n \in T
  BY <1>8, <1>9, Induction
<1>11. f[S] = Gain(trades, S, Len(trades))
  <2>1. Cardinality(S) \in T /\ S \in SUBSET S
    BY <1>7, <1>10
  <2> QED
    BY <2>1 DEF T
<1> QED
  BY <1>5, <1>11

-----------------------------------------------------------------------------
(* The sort of the days.                                                   *)

\* r is the n days of S in some order.
Row(r, n, S) ==
  /\ r \in [1..n -> S] /\ S \subseteq Nat
  /\ \A a, b \in 1..n : a # b => r[a] # r[b]
  /\ \A d \in S : \E a \in 1..n : r[a] = d

\* The places before i have what they should.
Ordered(r, i, n) == \A a \in 1..n : \A b \in 1..n : a < i /\ a < b => r[a] > r[b]

LEMMA RowLen == ASSUME NEW n \in Nat, NEW S, NEW r, Row(r, n, S) PROVE Len(r) = n
<1>0. r \in [1..n -> S]
  BY DEF Row
<1>1. r \in Seq(S)
  BY <1>0, SeqDef
<1>2. Len(r) \in Nat /\ DOMAIN r = 1..Len(r) /\ DOMAIN r = 1..n
  BY <1>0, <1>1, LenProperties
<1>3. ~(Len(r) < n)
  <2>1. Len(r) < n => n \in 1..n /\ n \notin 1..Len(r)
    BY <1>2
  <2> QED
    BY <1>2, <2>1
<1>4. ~(Len(r) > n)
  <2>1. Len(r) > n => Len(r) \in 1..Len(r) /\ Len(r) \notin 1..n
    BY <1>2
  <2> QED
    BY <1>2, <2>1
<1>5. Len(r) \in Int /\ n \in Int
  BY <1>2
<1> QED
  BY <1>3, <1>4, <1>5

LEMMA SwapRight ==
  ASSUME NEW n \in Nat, NEW S, NEW r, Row(r, n, S), NEW i \in 1..n, NEW j \in 1..n, i < j, Ordered(r, i, n)
  PROVE  /\ Row(Swapped(r, i, j), n, S) /\ Ordered(Swapped(r, i, j), i, n)
         /\ Swapped(r, i, j)[i] = r[j] /\ Swapped(r, i, j)[j] = r[i]
         /\ \A k \in 1..n : k # i /\ k # j => Swapped(r, i, j)[k] = r[k]
<1> DEFINE q == Swapped(r, i, j)
<1>1. r \in [1..n -> Nat] /\ r[i] \in Nat /\ r[j] \in Nat
  BY DEF Row
<1>2. /\ q \in [1..n -> Nat] /\ q[i] = r[j] /\ q[j] = r[i]
      /\ \A k \in 1..n : k # i /\ k # j => q[k] = r[k]
  BY <1>1 DEF Swapped
<1> HIDE DEF q
<1>3. Row(q, n, S)
  <2>0. r[i] \in S /\ r[j] \in S /\ \A a \in 1..n : r[a] \in S
    BY DEF Row
  <2>1. q \in [1..n -> S] /\ \A a, b \in 1..n : a # b => q[a] # q[b]
    <3>1. \A a \in 1..n : q[a] \in S
      BY <1>2, <2>0
    <3>2. \A a, b \in 1..n : a # b => r[a] # r[b]
      BY DEF Row
    <3>3. \A a, b \in 1..n : a # b => q[a] # q[b]
      BY <1>2, <3>2
    <3> QED
      BY <1>2, <3>1, <3>3
  <2>2. ASSUME NEW d \in S PROVE \E a \in 1..n : q[a] = d
    <3>1. PICK a \in 1..n : r[a] = d
      BY DEF Row
    <3> QED
      BY <1>2, <3>1
  <2> QED
    BY <2>1, <2>2 DEF Row
<1>4. Ordered(q, i, n)
  <2> SUFFICES ASSUME NEW a \in 1..n, NEW b \in 1..n, a < i, a < b PROVE q[a] > q[b]
    BY DEF Ordered
  <2>1. q[a] = r[a]
    BY <1>2
  <2>2. r[a] > r[i] /\ r[a] > r[j] /\ r[a] > r[b]
    BY DEF Ordered
  <2>3. q[b] \in {r[i], r[j], r[b]}
    BY <1>2
  <2> QED
    BY <2>1, <2>2, <2>3
<1> QED
  BY <1>2, <1>3, <1>4 DEF q

\* f holds the rows of the inner loop, up to n.
Rows(f, r, i, n) ==
  f = [j \in i..n |-> IF j = i THEN r
                      ELSE IF f[j - 1][j] > f[j - 1][i] THEN Swapped(f[j - 1], i, j) ELSE f[j - 1]]

LEMMA RowsExist ==
  ASSUME NEW r, NEW i \in Nat
  PROVE  \A k \in Nat : \E f : Rows(f, r, i, i + k)
<1> DEFINE T == {k \in Nat : \E f : Rows(f, r, i, i + k)}
<1>1. 0 \in T
  <2>1. Rows([j \in i..(i + 0) |-> r], r, i, i + 0)
    BY DEF Rows
  <2> QED
    BY <2>1
<1>2. ASSUME NEW k \in Nat, k \in T PROVE k + 1 \in T
  <2>1. PICK f : Rows(f, r, i, i + k)
    BY <1>2
  <2> SUFFICES ASSUME NEW n, n = i + (k + 1) PROVE \E g : Rows(g, r, i, n)
    OBVIOUS
  <2> DEFINE p == f[n - 1]
             last == IF p[n] > p[i] THEN Swapped(p, i, n) ELSE p
             g == [j \in i..n |-> IF j = n THEN last ELSE f[j]]
  <2>2. n \in Nat /\ n > i /\ n - 1 = i + k /\ n - 1 \in i..n
    OBVIOUS
  <2> HIDE DEF last
  <2>3. ASSUME NEW j \in i..n
        PROVE  g[j] = IF j = i THEN r
                      ELSE IF g[j - 1][j] > g[j - 1][i] THEN Swapped(g[j - 1], i, j) ELSE g[j - 1]
    <3>1. CASE j = n
      <4>1. g[j] = last /\ g[j - 1] = p /\ j # i
        BY <2>2, <3>1
      <4> HIDE DEF g, p
      <4> QED
        BY <3>1, <4>1 DEF last
    <3>2. CASE j # n
      <4>1. j \in i..(i + k) /\ g[j] = f[j] /\ (j # i => g[j - 1] = f[j - 1])
        BY <2>2, <3>2
      <4>2. f[j] = IF j = i THEN r
                   ELSE IF f[j - 1][j] > f[j - 1][i] THEN Swapped(f[j - 1], i, j) ELSE f[j - 1]
        BY <2>1, <4>1 DEF Rows
      <4> HIDE DEF g
      <4> QED
        BY <4>1, <4>2
    <3> QED
      BY <3>1, <3>2
  <2>4. Rows(g, r, i, n)
    BY <2>3 DEF Rows
  <2> QED
    BY <2>4
<1> HIDE DEF T
<1>3. \A k \in Nat : k \in T
  BY <1>1, <1>2, Induction
<1> QED
  BY <1>3 DEF T

\* The inner loop puts the latest day that is left in place i.
LEMMA PlacedRight ==
  ASSUME NEW n \in Nat, NEW S, NEW r, Row(r, n, S), NEW i \in 1..n, Ordered(r, i, n)
  PROVE  Row(Placed(r, i), n, S) /\ Ordered(Placed(r, i), i + 1, n)
<1>0. Len(r) = n /\ i \in Nat
  BY RowLen
<1>1. PICK f : Rows(f, r, i, n) /\ Placed(r, i) = f[n]
  <2>1. \E f : Rows(f, r, i, n)
    <3>1. n - i \in Nat /\ i + (n - i) = n
      BY <1>0
    <3>2. \E f : Rows(f, r, i, i + (n - i))
      BY <1>0, <3>1, RowsExist
    <3> QED
      BY <3>1, <3>2
  <2>2. Rows(CHOOSE f : Rows(f, r, i, n), r, i, n)
    BY <2>1
  <2>3. Placed(r, i) = (CHOOSE f : Rows(f, r, i, n))[n]
    BY <1>0 DEF Placed, Rows
  <2> QED
    BY <2>2, <2>3
<1> DEFINE Right(j) == /\ Row(f[j], n, S) /\ Ordered(f[j], i, n)
                       /\ \A k \in 1..n : i < k /\ k <= j => f[j][i] > f[j][k]
           T == {m \in Nat : i + m <= n => Right(i + m)}
<1>2. 0 \in T
  <2>1. f[i] = r
    BY <1>0, <1>1 DEF Rows
  <2>2. Right(i)
    BY <1>0, <2>1
  <2>3. i + 0 = i
    BY <1>0
  <2> HIDE DEF Right
  <2> QED
    BY <2>2, <2>3
<1>3. ASSUME NEW m \in Nat, m \in T PROVE m + 1 \in T
  <2> SUFFICES ASSUME i + (m + 1) <= n, NEW j, j = i + (m + 1) PROVE Right(j)
    <3> HIDE DEF Right
    <3> QED
      OBVIOUS
  <2>1. j \in 1..n /\ j - 1 = i + m /\ i < j /\ j - 1 \in i..n /\ j \in i..n
    BY <1>0
  <2> DEFINE q == f[j - 1]
  <2>2. Row(q, n, S) /\ Ordered(q, i, n) /\ \A k \in 1..n : i < k /\ k <= j - 1 => q[i] > q[k]
    <3>1. Right(j - 1)
      <4> HIDE DEF Right
      <4> QED
        BY <1>0, <1>3, <2>1
    <3> QED
      BY <3>1
  <2>3. f[j] = IF q[j] > q[i] THEN Swapped(q, i, j) ELSE q
    BY <1>1, <2>1 DEF Rows
  <2> HIDE DEF q
  <2>4. q[i] \in Nat /\ q[j] \in Nat /\ q[i] # q[j] /\ \A k \in 1..n : q[k] \in Nat
    <3>1. q \in [1..n -> S] /\ S \subseteq Nat /\ \A a, b \in 1..n : a # b => q[a] # q[b]
      BY <2>2 DEF Row
    <3>2. \A k \in 1..n : q[k] \in Nat
      BY <3>1
    <3>3. q[i] # q[j]
      BY <2>1, <3>1
    <3> QED
      BY <2>1, <3>2, <3>3
  <2>5. CASE q[j] > q[i]
    <3>1. f[j] = Swapped(q, i, j)
      BY <2>3, <2>5
    <3>2. /\ Row(f[j], n, S) /\ Ordered(f[j], i, n) /\ f[j][i] = q[j] /\ f[j][j] = q[i]
          /\ \A k \in 1..n : k # i /\ k # j => f[j][k] = q[k]
      BY <2>1, <2>2, <3>1, SwapRight
    <3>3. ASSUME NEW k \in 1..n, i < k, k <= j PROVE f[j][i] > f[j][k]
      <4>1. CASE k = j
        BY <2>5, <3>2, <4>1
      <4>2. CASE k # j
        <5>1. f[j][k] = q[k] /\ q[i] > q[k]
          BY <1>0, <2>1, <2>2, <3>2, <3>3, <4>2
        <5> QED
          BY <2>4, <2>5, <3>2, <5>1
      <4> QED
        BY <4>1, <4>2
    <3> QED
      BY <3>2, <3>3
  <2>6. CASE ~(q[j] > q[i])
    <3>1. f[j] = q /\ q[i] > q[j]
      BY <2>3, <2>4, <2>6
    <3>2. ASSUME NEW k \in 1..n, i < k, k <= j PROVE q[i] > q[k]
      <4>1. CASE k = j
        BY <3>1, <4>1
      <4>2. CASE k # j
        BY <1>0, <2>1, <2>2, <3>2, <4>2
      <4> QED
        BY <4>1, <4>2
    <3> QED
      BY <2>2, <3>1, <3>2
  <2> QED
    BY <2>5, <2>6
<1> HIDE DEF T
<1>4. \A m \in Nat : m \in T
  BY <1>2, <1>3, Induction
<1>5. Right(n)
  <2>1. n - i \in T /\ i + (n - i) = n
    BY <1>0, <1>4
  <2> HIDE DEF Right
  <2> QED
    BY <2>1 DEF T
<1>6. Ordered(f[n], i + 1, n)
  <2> SUFFICES ASSUME NEW a \in 1..n, NEW b \in 1..n, a < i + 1, a < b PROVE f[n][a] > f[n][b]
    BY DEF Ordered
  <2>1. CASE a = i
    BY <1>5, <2>1
  <2>2. CASE a # i
    <3>1. a < i
      BY <1>0, <2>2
    <3> QED
      BY <1>5, <3>1 DEF Ordered
  <2> QED
    BY <2>1, <2>2
<1> QED
  BY <1>1, <1>5, <1>6

\* f holds the rows of the outer loop, up to n.
Passes(f, days, n) == f = [i \in 0..n |-> IF i = 0 THEN days ELSE Placed(f[i - 1], i)]

LEMMA PassesExist == ASSUME NEW days PROVE \A n \in Nat : \E f : Passes(f, days, n)
<1> DEFINE T == {n \in Nat : \E f : Passes(f, days, n)}
<1>1. 0 \in T
  <2>1. Passes([i \in 0..0 |-> days], days, 0)
    BY DEF Passes
  <2> QED
    BY <2>1
<1>2. ASSUME NEW n \in Nat, n \in T PROVE n + 1 \in T
  <2>1. PICK f : Passes(f, days, n)
    BY <1>2
  <2> DEFINE g == [i \in 0..(n + 1) |-> IF i = n + 1 THEN Placed(f[n], i) ELSE f[i]]
  <2>2. ASSUME NEW i \in 0..(n + 1) PROVE g[i] = IF i = 0 THEN days ELSE Placed(g[i - 1], i)
    BY <2>1 DEF Passes
  <2>3. Passes(g, days, n + 1)
    BY <2>2 DEF Passes
  <2> QED
    BY <2>3
<1> HIDE DEF T
<1>3. \A n \in Nat : n \in T
  BY <1>1, <1>2, Induction
<1> QED
  BY <1>3 DEF T

(***************************************************************************)
(* The exchange sort of GetHistory: of any row of days it makes one of the *)
(* same days, none lost and none twice, in which the latest come first.    *)
(***************************************************************************)
THEOREM SortedRight ==
  ASSUME NEW n \in Nat \ {0}, NEW S, NEW days, Row(days, n, S)
  PROVE  /\ Row(Sorted(days), n, S)
         /\ \A a, b \in 1..n : a < b => Sorted(days)[a] > Sorted(days)[b]
<1>0. Len(days) = n /\ n - 1 \in Nat
  BY RowLen
<1>1. PICK f : Passes(f, days, n - 1) /\ Sorted(days) = f[n - 1]
  <2>1. \E f : Passes(f, days, n - 1)
    BY <1>0, PassesExist
  <2>2. Passes(CHOOSE f : Passes(f, days, n - 1), days, n - 1)
    BY <2>1
  <2>3. Sorted(days) = (CHOOSE f : Passes(f, days, n - 1))[n - 1]
    BY <1>0 DEF Sorted, Passes
  <2> QED
    BY <2>2, <2>3
<1> DEFINE Right(i) == Row(f[i], n, S) /\ Ordered(f[i], i + 1, n)
           T == {i \in Nat : i <= n - 1 => Right(i)}
<1>2. 0 \in T
  <2>1. f[0] = days
    BY <1>0, <1>1 DEF Passes
  <2>2. Ordered(days, 0 + 1, n)
    BY DEF Ordered
  <2> QED
    BY <2>1, <2>2
<1>3. ASSUME NEW m \in Nat, m \in T PROVE m + 1 \in T
  <2> SUFFICES ASSUME m + 1 <= n - 1, NEW i, i = m + 1 PROVE Right(i)
    <3> HIDE DEF Right
    <3> QED
      OBVIOUS
  <2>1. i \in 1..n /\ i \in 0..(n - 1) /\ i - 1 = m /\ i # 0
    OBVIOUS
  <2>2. Row(f[m], n, S) /\ Ordered(f[m], i, n)
    BY <1>0, <1>3
  <2>3. f[i] = Placed(f[m], i)
    BY <1>1, <2>1 DEF Passes
  <2> QED
    BY <2>1, <2>2, <2>3, PlacedRight
<1> HIDE DEF T
<1>4. \A i \in Nat : i \in T
  BY <1>2, <1>3, Induction
<1>5. Right(n - 1)
  <2> HIDE DEF Right
  <2> QED
    BY <1>0, <1>4 DEF T
<1>6. ASSUME NEW a \in 1..n, NEW b \in 1..n, a < b PROVE f[n - 1][a] > f[n - 1][b]
  <2>1. a < (n - 1) + 1
    BY <1>6
  <2> QED
    BY <1>5, <1>6, <2>1 DEF Ordered
<1>7. Row(f[n - 1], n, S)
  BY <1>5
<1> QED
  BY <1>1, <1>6, <1>7

LEMMA DescendRight == trades \in Seq(Trades) => DaysDescend
<1> SUFFICES ASSUME trades \in Seq(Trades), NEW d \in Days,
                    NEW order \in SetToSeqs(TradingDays \cup {d}),
                    NEW i \in DOMAIN order, NEW j \in DOMAIN order, i < j
             PROVE  Sorted(order)[i] > Sorted(order)[j]
  BY DEF DaysDescend
<1> DEFINE S == TradingDays \cup {d}
           n == Cardinality(S)
<1>1. S \in SUBSET Nat
  <2>1. \A k \in 1..Len(trades) : trades[k].day \in Nat
    BY TradesTyped, TradeTyped
  <2> QED
    BY <2>1, TradesTyped, HistoryAssumption DEF TradingDays
<1>2. IsFiniteSet(S) /\ S # {}
  BY DaysFinite, FS_AddElement
<1>3. n \in Nat \ {0}
  <2> HIDE DEF S
  <2> QED
    BY <1>2, FS_CardinalityType, FS_EmptySet
<1>4. order \in [1..n -> S] /\ \A a, b \in 1..n : a # b => order[a] # order[b]
  BY DEF SetToSeqs
<1> HIDE DEF S
<1>5. \A x \in S : \E a \in 1..n : order[a] = x
  <2>1. order \in Injection(1..n, S)
    BY <1>4 DEF Injection, IsInjective
  <2>2. IsFiniteSet(1..n) /\ Cardinality(1..n) = n
    <3> HIDE DEF n
    <3> QED
      BY <1>3, FS_Interval
  <2>3. order \in Surjection(1..n, S)
    BY <1>2, <2>1, <2>2, FS_Injection
  <2> QED
    BY <2>3 DEF Surjection
<1> HIDE DEF n
<1>6. Row(order, n, S) /\ DOMAIN order = 1..n
  BY <1>1, <1>4, <1>5 DEF Row
<1> QED
  BY <1>3, <1>6, SortedRight

\* What GetHistory returns fits the trades and itself.
LEMMA HistoryRight == trades \in Seq(Trades) => HistoryFits
BY TotalsRight, PricesRight, DescendRight DEF HistoryFits

-----------------------------------------------------------------------------
(* The last charge.                                                        *)

\* f holds the price of the last charge of the first trades, up to n.
Lasts(f, list, n) ==
  f = [i \in 0..n |-> IF i = 0 THEN 0
                      ELSE IF list[i].action = "charge" THEN list[i].price ELSE f[i - 1]]

LastCharge(list) == (CHOOSE f : Lasts(f, list, Len(list)))[Len(list)]

LEMMA LastsExist == ASSUME NEW list PROVE \A n \in Nat : \E f : Lasts(f, list, n)
<1> DEFINE T == {n \in Nat : \E f : Lasts(f, list, n)}
<1>1. 0 \in T
  <2>1. Lasts([i \in 0..0 |-> 0], list, 0)
    BY DEF Lasts
  <2> QED
    BY <2>1
<1>2. ASSUME NEW n \in Nat, n \in T PROVE n + 1 \in T
  <2>1. PICK f : Lasts(f, list, n)
    BY <1>2
  <2> DEFINE g == [i \in 0..(n + 1) |->
                     IF i = n + 1 THEN IF list[i].action = "charge" THEN list[i].price ELSE f[n]
                     ELSE f[i]]
  <2>2. ASSUME NEW i \in 0..(n + 1)
        PROVE  g[i] = IF i = 0 THEN 0
                      ELSE IF list[i].action = "charge" THEN list[i].price ELSE g[i - 1]
    BY <2>1 DEF Lasts
  <2>3. Lasts(g, list, n + 1)
    BY <2>2 DEF Lasts
  <2> QED
    BY <2>3
<1> HIDE DEF T
<1>3. \A n \in Nat : n \in T
  BY <1>1, <1>2, Induction
<1> QED
  BY <1>3 DEF T

Charges(list, n) == {i \in 1..n : list[i].action = "charge"}

\* GetLastChargeTrade finds the last charge of the list.
LEMMA LastChargeIs ==
  ASSUME NEW list \in Seq(Trades)
  PROVE  IF \E i \in 1..Len(list) : list[i].action = "charge"
           THEN \E i \in 1..Len(list) :
                  /\ list[i].action = "charge" /\ LastCharge(list) = list[i].price
                  /\ \A k \in 1..Len(list) : list[k].action = "charge" => k <= i
           ELSE LastCharge(list) = 0
<1>0. Len(list) \in Nat
  BY TradesTyped
<1>1. PICK f : Lasts(f, list, Len(list)) /\ LastCharge(list) = f[Len(list)]
  <2>1. \E f : Lasts(f, list, Len(list))
    BY <1>0, LastsExist
  <2>2. Lasts(CHOOSE f : Lasts(f, list, Len(list)), list, Len(list))
    BY <2>1
  <2> QED
    BY <2>2 DEF LastCharge
<1> DEFINE None(n) == Charges(list, n) = {} /\ f[n] = 0
           Found(n) == \E i \in Charges(list, n) :
                         f[n] = list[i].price /\ \A k \in Charges(list, n) : k <= i
           T == {n \in Nat : n <= Len(list) => None(n) \/ Found(n)}
<1>2. 0 \in T
  <2>1. None(0)
    BY <1>0, <1>1 DEF Lasts, Charges
  <2> HIDE DEF None, Found
  <2> QED
    BY <2>1
<1>3. ASSUME NEW n \in Nat, n \in T PROVE n + 1 \in T
  <2> SUFFICES ASSUME n + 1 <= Len(list), NEW i, i = n + 1 PROVE None(i) \/ Found(i)
    <3> HIDE DEF None, Found
    <3> QED
      OBVIOUS
  <2>1. i \in 1..Len(list) /\ i - 1 = n /\ i # 0 /\ i \in 0..Len(list) /\ i \in Nat
    BY <1>0
  <2>2. None(n) \/ Found(n)
    <3> HIDE DEF None, Found
    <3> QED
      BY <1>0, <1>3
  <2>3. f[i] = IF list[i].action = "charge" THEN list[i].price ELSE f[n]
    BY <1>1, <2>1 DEF Lasts
  <2>4. CASE list[i].action = "charge"
    <3>1. i \in Charges(list, i) /\ \A k \in Charges(list, i) : k <= i
      BY <2>1, <2>4 DEF Charges
    <3> QED
      BY <2>3, <2>4, <3>1
  <2>5. CASE list[i].action # "charge"
    <3>1. Charges(list, i) = Charges(list, n)
      BY <2>1, <2>5 DEF Charges
    <3>2. f[i] = f[n]
      BY <2>3, <2>5
    <3> QED
      BY <2>2, <3>1, <3>2
  <2> QED
    BY <2>4, <2>5
<1> HIDE DEF T
<1>4. \A n \in Nat : n \in T
  BY <1>2, <1>3, Induction
<1>5. None(Len(list)) \/ Found(Len(list))
  <2> HIDE DEF None, Found
  <2> QED
    BY <1>0, <1>4 DEF T
<1>6. CASE None(Len(list))
  BY <1>1, <1>6 DEF Charges
<1>7. CASE Found(Len(list))
  BY <1>1, <1>7 DEF Charges
<1> QED
  BY <1>5, <1>6, <1>7

LEMMA LastChargeAppend ==
  ASSUME NEW list \in Seq(Trades), NEW t \in Trades
  PROVE  LastCharge(Append(list, t)) = IF t.action = "charge" THEN t.price ELSE LastCharge(list)
<1> DEFINE more == Append(list, t)
           n == Len(list)
<1>0. /\ n \in Nat /\ more \in Seq(Trades) /\ Len(more) = n + 1 /\ more[n + 1] = t
      /\ \A i \in 1..n : more[i] = list[i]
  BY TradesTyped, AppendProperties
<1>1. IF \E i \in 1..n : list[i].action = "charge"
        THEN \E i \in 1..n :
               /\ list[i].action = "charge" /\ LastCharge(list) = list[i].price
               /\ \A k \in 1..n : list[k].action = "charge" => k <= i
        ELSE LastCharge(list) = 0
  BY LastChargeIs
<1> HIDE DEF more
<1>2. IF \E i \in 1..(n + 1) : more[i].action = "charge"
        THEN \E i \in 1..(n + 1) :
               /\ more[i].action = "charge" /\ LastCharge(more) = more[i].price
               /\ \A k \in 1..(n + 1) : more[k].action = "charge" => k <= i
        ELSE LastCharge(more) = 0
  <2>1. IF \E i \in 1..Len(more) : more[i].action = "charge"
          THEN \E i \in 1..Len(more) :
                 /\ more[i].action = "charge" /\ LastCharge(more) = more[i].price
                 /\ \A k \in 1..Len(more) : more[k].action = "charge" => k <= i
          ELSE LastCharge(more) = 0
    BY <1>0, LastChargeIs
  <2> QED
    BY <1>0, <2>1
<1> HIDE DEF n
<1>3. \A i \in 1..(n + 1) : i = n + 1 \/ i \in 1..n
  BY <1>0
<1>4. n + 1 \in 1..(n + 1) /\ \A i \in 1..n : i \in 1..(n + 1) /\ i # n + 1
  BY <1>0
<1>5. CASE t.action = "charge"
  <2>1. PICK i \in 1..(n + 1) :
          /\ more[i].action = "charge" /\ LastCharge(more) = more[i].price
          /\ \A k \in 1..(n + 1) : more[k].action = "charge" => k <= i
    BY <1>0, <1>2, <1>4, <1>5
  <2>2. n + 1 <= i
    BY <1>0, <1>4, <1>5, <2>1
  <2>3. i = n + 1
    BY <1>0, <2>1, <2>2
  <2> QED
    BY <1>0, <1>5, <2>1, <2>3 DEF more
<1>6. CASE t.action # "charge"
  <2>1. CASE \E i \in 1..n : list[i].action = "charge"
    <3>1. PICK j \in 1..n :
            /\ list[j].action = "charge" /\ LastCharge(list) = list[j].price
            /\ \A k \in 1..n : list[k].action = "charge" => k <= j
      BY <1>1, <2>1
    <3>2. more[j].action = "charge"
      BY <1>0, <3>1
    <3>3. PICK i \in 1..(n + 1) :
            /\ more[i].action = "charge" /\ LastCharge(more) = more[i].price
            /\ \A k \in 1..(n + 1) : more[k].action = "charge" => k <= i
      BY <1>2, <1>4, <3>2
    <3>4. i \in 1..n
      BY <1>0, <1>3, <1>6, <3>3
    <3>5. j <= i /\ i <= j
      BY <1>0, <1>4, <3>1, <3>2, <3>3, <3>4
    <3>6. i = j
      BY <3>1, <3>4, <3>5
    <3> QED
      BY <1>0, <1>6, <3>1, <3>3, <3>6 DEF more
  <2>2. CASE ~\E i \in 1..n : list[i].action = "charge"
    <3>1. ~\E i \in 1..(n + 1) : more[i].action = "charge"
      BY <1>0, <1>3, <1>6, <2>2
    <3> QED
      BY <1>1, <1>2, <1>6, <2>2, <3>1 DEF more
  <2> QED
    BY <2>1, <2>2
<1> QED
  BY <1>5, <1>6

LEMMA LastChargeTyped ==
  ASSUME NEW list \in Seq(Trades)
  PROVE  LastCharge(list) \in PricesEur \cup {0}
<1>1. \A i \in 1..Len(list) : list[i].price \in PricesEur \cup {0}
  BY TradesTyped DEF Trades
<1>2. LastCharge(list) = 0 \/ \E i \in 1..Len(list) : LastCharge(list) = list[i].price
  BY LastChargeIs
<1> QED
  BY <1>1, <1>2

-----------------------------------------------------------------------------
(* The inductive invariant.                                                *)

\* The places of the trades that no summary accounts for.
Open(list, after, shown) == {i \in 1..Len(list) : i \in after \/ list[i].day \notin shown}

\* Nothing happened later than today.
Dated ==
  /\ session # NoSession => session.day <= day
  /\ \A i \in 1..Len(trades) : trades[i].day <= day
  /\ \A i \in 1..Len(file) : file[i].day <= day

\* Summaries go by the days, and a trade that is late missed its own.
Shown ==
  /\ lastSummary <= day /\ \A d \in sent : d <= lastSummary
  /\ \A i \in late : trades[i].day < day \/ lastSummary = day
  /\ ~up => sent = {} /\ reported = 0

Known == up /\ session.action # "charge" => lastChargePrice = LastCharge(trades)

Balanced ==
  up => reported + Gain(trades, Open(trades, late, sent), Len(trades))
          = Gain(trades, Nat, Len(trades))

IInv == TypeOK /\ Dated /\ Shown /\ Known /\ Balanced

LEMMA SessionTyped ==
  ASSUME NEW s \in Sessions
  PROVE  /\ s.day \in Days /\ s.action \in Actions /\ s.price \in PricesEur \cup {0}
         /\ s.action # "solar_charge" => s.price \in PricesEur
         /\ s.action = "solar_charge" => s.price = 0
         /\ s # NoSession
<1>1. /\ s.day \in Days /\ s.action \in Actions /\ s.price \in PricesEur \cup {0}
      /\ s.price \in SessionPrices(s.action)
  BY DEF Sessions
<1>2. s # NoSession
  <2>1. NoSession.day = 0
    BY DEF NoSession
  <2>2. 0 \notin Days
    BY BookkeepingAssumption
  <2> QED
    BY <1>1, <2>1, <2>2
<1> QED
  BY <1>1, <1>2 DEF SessionPrices

LEMMA FirstDay == Min(Days) \in Days
<1>1. Days # {} /\ Days \subseteq Nat
  BY HistoryAssumption, BookkeepingAssumption
<1>2. PICK m \in Days : \A d \in Days : ~(<<d, m>> \in OpToRel(<, Nat))
  BY <1>1, NatLessThanWellFounded, WFMin
<1>3. \A d \in Days : m =< d
  <2> SUFFICES ASSUME NEW d \in Days PROVE m =< d
    OBVIOUS
  <2>1. ~(d < m)
    BY <1>1, <1>2 DEF OpToRel
  <2> QED
    BY <1>1, <2>1
<1>4. \E x \in Days : \A d \in Days : x =< d
  BY <1>3
<1> QED
  BY <1>4 DEF Min

LEMMA InitHolds == Init => IInv
<1> SUFFICES ASSUME Init PROVE IInv
  OBVIOUS
<1>1. /\ trades = <<>> /\ file = <<>> /\ up = FALSE /\ session = NoSession
      /\ lastChargePrice = 0 /\ day \in Days /\ evening = FALSE
      /\ lastSummary = 0 /\ sent = {} /\ reported = 0 /\ late = {}
  BY FirstDay DEF Init
<1>2. TypeOK
  <2>1. <<>> \in Seq(Trades)
    BY EmptySeq
  <2>2. up \in BOOLEAN /\ evening \in BOOLEAN
    BY <1>1
  <2>3. late \subseteq DOMAIN trades /\ reported \in Int /\ sent \subseteq Days
    BY <1>1
  <2> QED
    BY <1>1, <2>1, <2>2, <2>3 DEF TypeOK
<1>3. day \in Nat
  BY <1>1, HistoryAssumption
<1>4. Dated /\ Shown
  BY <1>1, <1>3 DEF Dated, Shown
<1>5. Known /\ Balanced
  BY <1>1 DEF Known, Balanced
<1> QED
  BY <1>2, <1>4, <1>5 DEF IInv

LEMMA Typed ==
  ASSUME TypeOK
  PROVE  /\ day \in Nat /\ day \in Days /\ lastSummary \in Nat /\ sent \subseteq Nat /\ reported \in Int
         /\ trades \in Seq(Trades) /\ file \in Seq(Trades) /\ late \subseteq 1..Len(trades)
         /\ Len(trades) \in Nat /\ DOMAIN trades = 1..Len(trades) /\ DOMAIN file = 1..Len(file)
         /\ \A i \in 1..Len(trades) : trades[i].day \in Nat
         /\ \A i \in 1..Len(file) : file[i].day \in Nat
<1>1. trades \in Seq(Trades) /\ file \in Seq(Trades)
  BY DEF TypeOK
<1>2. /\ Len(trades) \in Nat /\ DOMAIN trades = 1..Len(trades)
      /\ \A i \in 1..Len(trades) : trades[i].day \in Nat
  BY <1>1, TradesTyped, TradeTyped
<1>3. DOMAIN file = 1..Len(file) /\ \A i \in 1..Len(file) : file[i].day \in Nat
  BY <1>1, TradesTyped, TradeTyped
<1>4. day \in Nat /\ lastSummary \in Nat /\ sent \subseteq Nat
  BY HistoryAssumption DEF TypeOK
<1> QED
  BY <1>1, <1>2, <1>3, <1>4 DEF TypeOK

\* LastChargePrice, before and after a step.
LEMMA LastChargePriceIs ==
  LastChargePrice = LastCharge(trades) /\ LastChargePrice' = LastCharge(trades')
<1>1. LastChargePrice = LastCharge(trades)
  BY DEF LastChargePrice, LastCharge, Lasts
<1>2. LastChargePrice' = LastCharge(trades')
  BY DEF LastChargePrice, LastCharge, Lasts
<1> QED
  BY <1>1, <1>2

LEMMA StartStep == IInv /\ Start => IInv'
<1> SUFFICES ASSUME IInv, Start PROVE IInv'
  OBVIOUS
<1>0. /\ day \in Nat /\ day \in Days /\ trades \in Seq(Trades) /\ file \in Seq(Trades)
      /\ DOMAIN file = 1..Len(file) /\ \A i \in 1..Len(file) : file[i].day \in Nat
      /\ TypeOK /\ Dated /\ Shown
  BY Typed DEF IInv
<1>1. /\ ~up /\ up' = TRUE /\ trades' = file /\ late' = {i \in DOMAIN file : file[i].day < day}
      /\ lastChargePrice' = LastCharge(trades')
      /\ UNCHANGED <<file, session, day, evening, lastSummary, sent, reported>>
  BY LastChargePriceIs DEF Start, Recorded
<1>2. TypeOK'
  <2>1. lastChargePrice' \in PricesEur \cup {0}
    BY <1>0, <1>1, LastChargeTyped
  <2>2. late' \subseteq DOMAIN trades'
    BY <1>1
  <2> QED
    BY <1>0, <1>1, <2>1, <2>2 DEF TypeOK
<1>3. Dated'
  BY <1>0, <1>1 DEF Dated
<1>4. sent = {} /\ reported = 0 /\ sent' = {} /\ reported' = 0
  BY <1>0, <1>1 DEF Shown
<1>5. Shown'
  BY <1>0, <1>1, <1>4 DEF Shown
<1>6. Known'
  BY <1>1 DEF Known
<1>7. Balanced'
  <2>1. \A i \in 1..Len(file) : i \in Open(file, late', sent') <=> i \in Nat
    BY <1>4 DEF Open
  <2>2. Gain(file, Open(file, late', sent'), Len(file)) = Gain(file, Nat, Len(file))
    BY <1>0, <2>1, GainSame
  <2>3. Gain(file, Nat, Len(file)) \in Int
    BY <1>0, TradesTyped, GainTyped
  <2> QED
    BY <1>1, <1>4, <2>2, <2>3 DEF Balanced
<1> QED
  BY <1>2, <1>3, <1>5, <1>6, <1>7 DEF IInv

LEMMA CrashStep == IInv /\ Crash => IInv'
<1> SUFFICES ASSUME IInv, Crash PROVE IInv'
  OBVIOUS
<1>0. day \in Nat /\ TypeOK /\ Dated
  BY Typed DEF IInv
<1>1. /\ up' = FALSE /\ trades' = <<>> /\ session' = NoSession /\ lastChargePrice' = 0
      /\ lastSummary' = 0 /\ sent' = {} /\ reported' = 0 /\ late' = {}
      /\ UNCHANGED <<file, day, evening>>
  BY DEF Crash
<1>2. TypeOK'
  <2>1. <<>> \in Seq(Trades)
    BY EmptySeq
  <2>2. up' \in BOOLEAN /\ evening' \in BOOLEAN
    BY <1>0, <1>1 DEF TypeOK
  <2>3. late' \subseteq DOMAIN trades' /\ reported' \in Int /\ sent' \subseteq Days
    BY <1>1
  <2>4. file' \in Seq(Trades) /\ day' \in Days
    BY <1>0, <1>1 DEF TypeOK
  <2> QED
    BY <1>1, <2>1, <2>2, <2>3, <2>4 DEF TypeOK
<1>3. Dated'
  BY <1>0, <1>1 DEF Dated
<1>4. Shown'
  BY <1>0, <1>1 DEF Shown
<1>5. Known' /\ Balanced'
  BY <1>1 DEF Known, Balanced
<1> QED
  BY <1>2, <1>3, <1>4, <1>5 DEF IInv

LEMMA StartSessionStep == IInv /\ StartSession => IInv'
<1> SUFFICES ASSUME IInv, StartSession PROVE IInv'
  OBVIOUS
<1>0. day \in Nat /\ TypeOK /\ Dated /\ Shown /\ Known /\ Balanced
  BY Typed DEF IInv
<1>1. PICK s \in Sessions :
        /\ s.day = day /\ session' = s
        /\ lastChargePrice' = IF s.action = "charge" THEN s.price ELSE lastChargePrice
  BY DEF StartSession
<1>2. up /\ session = NoSession
      /\ UNCHANGED <<trades, file, up, day, evening, lastSummary, sent, reported, late>>
  BY DEF StartSession, summary
<1>3. TypeOK'
  <2>1. lastChargePrice' \in PricesEur \cup {0}
    BY <1>0, <1>1, SessionTyped DEF TypeOK
  <2> QED
    BY <1>0, <1>1, <1>2, <2>1 DEF TypeOK
<1>4. Dated'
  BY <1>0, <1>1, <1>2 DEF Dated
<1>5. Shown'
  BY <1>0, <1>2 DEF Shown
<1>6. Known'
  <2>1. lastChargePrice = LastCharge(trades)
    BY <1>0, <1>2 DEF Known, NoSession
  <2> QED
    BY <1>1, <1>2, <2>1 DEF Known
<1>7. Balanced'
  BY <1>0, <1>2 DEF Balanced
<1> QED
  BY <1>3, <1>4, <1>5, <1>6, <1>7 DEF IInv

LEMMA EndedTyped ==
  ASSUME session \in Sessions, NEW t \in Ended
  PROVE  t \in Trades /\ t.day = session.day /\ t.action = session.action
<1>1. PICK p \in (IF session.action = "charge" THEN {Charged(a) : a \in PricesEur \cup {0}}
                                               ELSE {session.price}),
           e \in {Energy(d) : d \in SocDeltas} :
        t = [day |-> session.day, action |-> session.action, price |-> p, energy |-> e]
  BY DEF Ended
<1>2. e \in Energies
  <2>1. PICK d \in SocDeltas : e = IF d < 0 THEN 0 ELSE d
    BY DEF Energy
  <2>2. d \in Int /\ 0 \in Energies /\ (d > 0 => d \in Energies)
    BY BookkeepingAssumption
  <2>3. CASE d < 0
    BY <2>1, <2>2, <2>3
  <2>4. CASE d = 0
    BY <2>1, <2>2, <2>4
  <2>5. CASE d > 0
    BY <2>1, <2>2, <2>5
  <2> QED
    BY <2>2, <2>3, <2>4, <2>5
<1>3. p \in PricesEur \cup {0} /\ (session.action = "solar_charge" => p = 0)
  <2>1. CASE session.action = "charge"
    <3>1. \A a \in PricesEur \cup {0} : Charged(a) \in PricesEur \cup {0}
      BY SessionTyped DEF Charged
    <3> QED
      BY <2>1, <3>1
  <2>2. CASE session.action # "charge"
    BY <2>2, SessionTyped
  <2> QED
    BY <2>1, <2>2
<1> QED
  BY <1>1, <1>2, <1>3, SessionTyped DEF Trades

LEMMA EndSessionStep == IInv /\ EndSession => IInv'
<1> SUFFICES ASSUME IInv, EndSession PROVE IInv'
  OBVIOUS
<1>0. /\ day \in Nat /\ day \in Days /\ lastSummary \in Nat /\ sent \subseteq Nat /\ reported \in Int
      /\ trades \in Seq(Trades) /\ file \in Seq(Trades) /\ late \subseteq 1..Len(trades)
      /\ Len(trades) \in Nat /\ DOMAIN trades = 1..Len(trades)
      /\ TypeOK /\ Dated /\ Shown /\ Known /\ Balanced
  BY Typed DEF IInv
<1>1. PICK t \in Ended :
        /\ trades' = Append(trades, t)
        /\ lastChargePrice' = IF t.action = "charge" THEN t.price ELSE lastChargePrice
        /\ file' \in {trades', file}
  BY DEF EndSession
<1>2. /\ up /\ session # NoSession /\ session' = NoSession
      /\ late' = IF session.day < day \/ lastSummary = day THEN late \cup {Len(trades')} ELSE late
      /\ UNCHANGED <<up, day, evening, lastSummary, sent, reported>>
  BY DEF EndSession
<1>3. t \in Trades /\ t.day = session.day /\ t.action = session.action
  <2>1. session \in Sessions
    BY <1>0, <1>2 DEF TypeOK
  <2> QED
    BY <2>1, EndedTyped
<1> DEFINE n == Len(trades)
<1>4. /\ trades' \in Seq(Trades) /\ Len(trades') = n + 1 /\ trades'[n + 1] = t
      /\ DOMAIN trades' = 1..(n + 1)
      /\ \A i \in 1..n : trades'[i] = trades[i]
  <2>1. trades' \in Seq(Trades) /\ Len(trades') = n + 1 /\ trades'[n + 1] = t
        /\ \A i \in 1..n : trades'[i] = trades[i]
    BY <1>0, <1>1, <1>3, AppendProperties
  <2> QED
    BY <2>1, TradesTyped
<1>5. t.day \in Nat /\ t.day <= day /\ t.price \in PricesEur \cup {0}
  <2>1. t.day \in Nat /\ t.price \in PricesEur \cup {0}
    BY <1>3, TradeTyped DEF Trades
  <2> QED
    BY <1>0, <1>2, <1>3, <2>1 DEF Dated
<1>6. TypeOK'
  <2>1. file' \in Seq(Trades)
    BY <1>0, <1>1, <1>4
  <2>2. late' \subseteq DOMAIN trades'
    <3>1. late \subseteq 1..(n + 1) /\ n + 1 \in 1..(n + 1)
      BY <1>0
    <3> QED
      BY <1>2, <1>4, <3>1
  <2>3. lastChargePrice' \in PricesEur \cup {0}
    BY <1>0, <1>1, <1>5 DEF TypeOK
  <2> QED
    BY <1>0, <1>2, <1>4, <2>1, <2>2, <2>3 DEF TypeOK
<1>7. Dated'
  <2>1. \A i \in 1..Len(trades') : trades'[i].day <= day
    <3> SUFFICES ASSUME NEW i \in 1..(n + 1) PROVE trades'[i].day <= day
      BY <1>4
    <3>1. CASE i = n + 1
      BY <1>4, <1>5, <3>1
    <3>2. CASE i # n + 1
      <4>1. i \in 1..n
        BY <1>0, <3>2
      <4> QED
        BY <1>0, <1>4, <4>1 DEF Dated
    <3> QED
      BY <3>1, <3>2
  <2>2. \A i \in 1..Len(file') : file'[i].day <= day
    BY <1>0, <1>1, <2>1 DEF Dated
  <2> QED
    BY <1>2, <2>1, <2>2 DEF Dated
<1>8. Shown'
  <2>1. ASSUME NEW i \in late' PROVE trades'[i].day < day \/ lastSummary = day
    <3>1. CASE i \in late
      BY <1>0, <1>4, <3>1 DEF Shown
    <3>2. CASE i \notin late
      <4>1. i = n + 1 /\ (session.day < day \/ lastSummary = day)
        BY <1>2, <1>4, <2>1, <3>2
      <4> QED
        BY <1>3, <1>4, <4>1
    <3> QED
      BY <3>1, <3>2
  <2> QED
    BY <1>0, <1>2, <2>1 DEF Shown
<1>9. Known'
  <2>1. LastCharge(trades') = IF t.action = "charge" THEN t.price ELSE LastCharge(trades)
    BY <1>0, <1>1, <1>3, LastChargeAppend
  <2>2. t.action # "charge" => lastChargePrice = LastCharge(trades)
    BY <1>0, <1>2, <1>3 DEF Known
  <2> QED
    BY <1>1, <2>1, <2>2 DEF Known
<1>10. Balanced'
  <2> DEFINE old == Open(trades, late, sent)
             new == Open(trades', late', sent')
  <2>1. n + 1 \in new
    <3>1. CASE session.day < day \/ lastSummary = day
      BY <1>0, <1>2, <1>4, <3>1 DEF Open
    <3>2. CASE ~(session.day < day \/ lastSummary = day)
      <4>1. t.day = day
        BY <1>0, <1>3, <1>5, <3>2
      <4>2. day \notin sent
        BY <1>0, <3>2 DEF Shown
      <4> QED
        BY <1>0, <1>2, <1>4, <4>1, <4>2 DEF Open
    <3> QED
      BY <3>1, <3>2
  <2>2. \A i \in 1..n : i \in new <=> i \in old
    <3> SUFFICES ASSUME NEW i \in 1..n PROVE i \in new <=> i \in old
      OBVIOUS
    <3>1. i \in late' <=> i \in late
      BY <1>0, <1>2, <1>4
    <3>2. i \in 1..(n + 1)
      BY <1>0
    <3> QED
      BY <1>2, <1>4, <3>1, <3>2 DEF Open
  <2> HIDE DEF old, new
  <2>3. Gain(trades', new, n + 1) = Gain(trades, old, n) + Profit(t)
    <3>1. Gain(trades', new, n + 1) =
            Gain(trades, new, n) + (IF n + 1 \in new THEN Profit(t) ELSE 0)
      BY <1>0, <1>1, <1>3, GainAppend
    <3>2. Gain(trades, new, n) = Gain(trades, old, n)
      BY <1>0, <2>2, GainSame
    <3> QED
      BY <2>1, <3>1, <3>2
  <2>4. Gain(trades', Nat, n + 1) = Gain(trades, Nat, n) + Profit(t)
    <3>1. Gain(trades', Nat, n + 1) =
            Gain(trades, Nat, n) + (IF n + 1 \in Nat THEN Profit(t) ELSE 0)
      BY <1>0, <1>1, <1>3, GainAppend
    <3> QED
      BY <1>0, <3>1
  <2>5. reported + Gain(trades, old, n) = Gain(trades, Nat, n)
    BY <1>0, <1>2 DEF Balanced, old
  <2>6. Gain(trades, old, n) \in Int /\ Gain(trades, Nat, n) \in Int /\ Profit(t) \in Int
    BY <1>0, <1>3, GainTyped, TradeTyped
  <2>7. reported + Gain(trades', new, n + 1) = Gain(trades', Nat, n + 1)
    BY <1>0, <2>3, <2>4, <2>5, <2>6
  <2> QED
    BY <1>2, <1>4, <2>7 DEF Balanced, new
<1> QED
  BY <1>6, <1>7, <1>8, <1>9, <1>10 DEF IInv

LEMMA SummariseStep == IInv /\ Summarise => IInv'
<1> SUFFICES ASSUME IInv, Summarise PROVE IInv'
  OBVIOUS
<1>0. /\ day \in Nat /\ day \in Days /\ lastSummary \in Nat /\ sent \subseteq Nat /\ reported \in Int
      /\ trades \in Seq(Trades) /\ late \subseteq 1..Len(trades) /\ Len(trades) \in Nat
      /\ \A i \in 1..Len(trades) : trades[i].day \in Nat
      /\ TypeOK /\ Dated /\ Shown /\ Known /\ Balanced
  BY Typed DEF IInv
<1>1. /\ up /\ lastSummary # day /\ lastSummary' = day
      /\ sent' = sent \cup {day} /\ reported' = reported + PnL(day)
      /\ UNCHANGED <<trades, file, up, session, lastChargePrice, day, evening, late>>
  BY DEF Summarise, process
<1> DEFINE n   == Len(trades)
           now == OfDay(trades, day)
           old == Open(trades, late, sent)
           new == Open(trades, late, sent \cup {day})
<1>2. PnL(day) = Gain(trades, now, n) /\ Gain(trades, now, n) \in Int
  BY <1>0, SummaryFits, GainTyped
<1>3. day \notin sent
  BY <1>0, <1>1 DEF Shown
<1>4. \A i \in 1..n : (i \in old <=> i \in new \/ i \in now) /\ ~(i \in new /\ i \in now)
  <2> SUFFICES ASSUME NEW i \in 1..n
               PROVE  (i \in old <=> i \in new \/ i \in now) /\ ~(i \in new /\ i \in now)
    OBVIOUS
  <2>1. i \in late => trades[i].day # day
    BY <1>0, <1>1 DEF Shown
  <2> QED
    BY <1>3, <2>1 DEF Open, OfDay
<1> HIDE DEF now, old, new
<1>5. Gain(trades, old, n) = Gain(trades, new, n) + Gain(trades, now, n)
  BY <1>0, <1>4, GainUnion
<1>6. Gain(trades, new, n) \in Int
  BY <1>0, GainTyped
<1>7. reported + Gain(trades, old, n) = Gain(trades, Nat, n)
  BY <1>0, <1>1 DEF Balanced, old
<1>8. Balanced'
  <2>1. reported' + Gain(trades, new, n) = Gain(trades, Nat, n)
    BY <1>0, <1>1, <1>2, <1>5, <1>6, <1>7
  <2> QED
    BY <1>1, <2>1 DEF Balanced, new
<1>9. TypeOK'
  <2>1. reported' \in Int
    BY <1>0, <1>1, <1>2
  <2> QED
    BY <1>0, <1>1, <2>1 DEF TypeOK
<1>10. Dated' /\ Known'
  BY <1>0, <1>1 DEF Dated, Known
<1>11. Shown'
  <2>1. lastSummary' <= day' /\ \A i \in late' : trades'[i].day < day' \/ lastSummary' = day'
    BY <1>0, <1>1
  <2>2. \A d \in sent' : d <= lastSummary'
    BY <1>0, <1>1 DEF Shown
  <2> QED
    BY <1>0, <1>1, <2>1, <2>2 DEF Shown
<1> QED
  BY <1>8, <1>9, <1>10, <1>11 DEF IInv

LEMMA ElapseStep == IInv /\ Elapse => IInv'
<1> SUFFICES ASSUME IInv, Elapse PROVE IInv'
  OBVIOUS
<1>0. /\ day \in Nat /\ day \in Days /\ lastSummary \in Nat /\ sent \subseteq Nat
      /\ \A i \in 1..Len(trades) : trades[i].day \in Nat
      /\ \A i \in 1..Len(file) : file[i].day \in Nat
      /\ late \subseteq 1..Len(trades)
      /\ TypeOK /\ Dated /\ Shown /\ Known /\ Balanced
  BY Typed DEF IInv
<1>1. /\ day' \in Days /\ (day' = day \/ day' = day + 1) /\ evening' \in BOOLEAN
      /\ UNCHANGED <<trades, file, up, session, lastChargePrice, lastSummary, sent, reported, late>>
  <2>1. evening' \in BOOLEAN
    BY DEF Elapse
  <2>2. day' \in Days /\ (day' = day \/ day' = day + 1)
    BY <1>0 DEF Elapse
  <2> QED
    BY <2>1, <2>2 DEF Elapse, process, summary
<1>2. TypeOK'
  BY <1>0, <1>1 DEF TypeOK
<1>3. Known' /\ Balanced'
  BY <1>0, <1>1 DEF Known, Balanced
<1>4. session # NoSession => session.day \in Nat
  BY <1>0, SessionTyped, HistoryAssumption DEF TypeOK
<1>5. Dated'
  <2>1. session # NoSession => session.day <= day'
    BY <1>0, <1>1, <1>4 DEF Dated
  <2>2. \A i \in 1..Len(trades) : trades[i].day <= day'
    BY <1>0, <1>1 DEF Dated
  <2>3. \A i \in 1..Len(file) : file[i].day <= day'
    BY <1>0, <1>1 DEF Dated
  <2> QED
    BY <1>1, <2>1, <2>2, <2>3 DEF Dated
<1>6. Shown'
  <2>1. lastSummary <= day' /\ \A d \in sent : d <= lastSummary
    BY <1>0, <1>1 DEF Shown
  <2>2. ASSUME NEW i \in late PROVE trades[i].day < day' \/ lastSummary = day'
    <3>1. trades[i].day <= day /\ trades[i].day \in Nat
      BY <1>0 DEF Dated
    <3>2. trades[i].day < day \/ lastSummary = day
      BY <1>0 DEF Shown
    <3> QED
      BY <1>0, <1>1, <3>1, <3>2
  <2> QED
    BY <1>0, <1>1, <2>1, <2>2 DEF Shown
<1> QED
  BY <1>2, <1>3, <1>5, <1>6 DEF IInv

(***************************************************************************)
(* What the books say of one another holds from one recorded session,      *)
(* failed save, restart and summary to the next.                           *)
(***************************************************************************)
THEOREM Invariance == Spec => []IInv
<1>1. IInv /\ [Next]_vars => IInv'
  <2> SUFFICES ASSUME IInv, [Next]_vars PROVE IInv'
    OBVIOUS
  <2>1. CASE Next
    BY <2>1, StartStep, CrashStep, StartSessionStep, EndSessionStep, SummariseStep, ElapseStep DEF Next
  <2>2. CASE UNCHANGED vars
    BY <2>2 DEF vars, process, summary, IInv, TypeOK, Dated, Shown, Known, Balanced
  <2> QED
    BY <2>1, <2>2
<1> QED
  BY <1>1, InitHolds, PTL DEF Spec

(***************************************************************************)
(* Type correctness: what is kept of trades, sessions and summaries stays  *)
(* of its kind.                                                            *)
(***************************************************************************)
THEOREM TypeCorrect == Spec => []TypeOK
BY Invariance, PTL DEF IInv

(***************************************************************************)
(* Between sessions the price that the engine goes by is that of the last  *)
(* charge recorded, through failed saves, crashes and restarts.            *)
(***************************************************************************)
THEOREM LastChargeRight == Spec => []LastChargeKnown
<1>1. IInv => LastChargeKnown
  <2> SUFFICES ASSUME IInv, up, session.action # "charge"
               PROVE  LET charges == {i \in DOMAIN trades : trades[i].action = "charge"}
                      IN  lastChargePrice = IF charges = {} THEN 0 ELSE trades[Max(charges)].price
    BY DEF LastChargeKnown
  <2> DEFINE charges == {i \in DOMAIN trades : trades[i].action = "charge"}
  <2>1. trades \in Seq(Trades) /\ Len(trades) \in Nat /\ DOMAIN trades = 1..Len(trades)
    BY Typed DEF IInv
  <2>2. lastChargePrice = LastCharge(trades)
    BY DEF IInv, Known
  <2>3. CASE charges = {}
    <3>1. LastCharge(trades) = 0
      BY <2>1, <2>3, LastChargeIs
    <3> QED
      BY <2>2, <2>3, <3>1
  <2>4. CASE charges # {}
    <3>1. PICK i \in 1..Len(trades) :
            /\ trades[i].action = "charge" /\ LastCharge(trades) = trades[i].price
            /\ \A k \in 1..Len(trades) : trades[k].action = "charge" => k <= i
      BY <2>1, <2>4, LastChargeIs
    <3>2. i \in charges /\ \A k \in charges : i >= k
      BY <2>1, <3>1
    <3>3. charges \subseteq Int
      BY <2>1
    <3> HIDE DEF charges
    <3>4. Max(charges) \in charges /\ \A k \in charges : Max(charges) >= k
      BY <3>2 DEF Max
    <3>5. Max(charges) = i
      <4> DEFINE m == Max(charges)
      <4>1. m \in Int /\ i \in Int /\ i >= m /\ m >= i
        BY <3>2, <3>3, <3>4
      <4> HIDE DEF m
      <4>2. m = i
        BY <4>1
      <4> QED
        BY <4>2 DEF m
    <3> QED
      BY <2>2, <2>4, <3>1, <3>5 DEF charges
  <2> QED
    BY <2>3, <2>4
<1> QED
  BY <1>1, Invariance, PTL

(***************************************************************************)
(* The daily summaries account for the total they show.                    *)
(***************************************************************************)
THEOREM SummariesRight == Spec => []SummariesAddUp
<1>1. IInv => SummariesAddUp
  <2> SUFFICES ASSUME IInv, up
               PROVE  LET open == {i \in DOMAIN trades : i \in late \/ trades[i].day \notin sent}
                      IN  reported + MapThenSumSet(LAMBDA i : Profit(trades[i]), open) = TotalPnL
    BY DEF SummariesAddUp
  <2> DEFINE open == {i \in DOMAIN trades : i \in late \/ trades[i].day \notin sent}
  <2>1. trades \in Seq(Trades) /\ DOMAIN trades = 1..Len(trades)
    BY Typed DEF IInv
  <2>2. open = Open(trades, late, sent) /\ open \in SUBSET (1..Len(trades))
    BY <2>1 DEF Open
  <2> HIDE DEF open
  <2>3. MapThenSumSet(LAMBDA i : Profit(trades[i]), open) = Gain(trades, open, Len(trades))
    BY <2>1, <2>2, OpenSum
  <2>4. reported + Gain(trades, open, Len(trades)) = TotalPnL
    BY <2>1, <2>2, TotalIsGain DEF IInv, Balanced
  <2>5. reported + MapThenSumSet(LAMBDA i : Profit(trades[i]), open) = TotalPnL
    BY <2>3, <2>4
  <2> QED
    BY <2>5 DEF open
<1> QED
  BY <1>1, Invariance, PTL

(***************************************************************************)
(* What GetHistory returns fits the trades and itself: the totals agree,   *)
(* the prices are ones that were paid, and the days descend.               *)
(***************************************************************************)
THEOREM HistoryCorrect == Spec => []HistoryFits
<1>1. IInv => HistoryFits
  BY HistoryRight DEF IInv, TypeOK
<1> QED
  BY <1>1, Invariance, PTL

===============================================================================
