-------------------------- MODULE PriceAnalyzerProofs --------------------------
(***************************************************************************)
(* The trading plan and the price of a charge session are what they are    *)
(* meant to be, for price lists of any length and any prices, any powers,  *)
(* capacity, efficiency and spread, and sessions of any length.            *)
(***************************************************************************)
EXTENDS SessionPrice, SequenceTheorems, FiniteSetTheorems, WellFoundedInduction, TLAPS

-----------------------------------------------------------------------------
(* Induction, by the set of the numbers for which a fact holds.            *)

LEMMA Induction ==
  ASSUME NEW T, 0 \in T, \A n \in Nat : n \in T => n + 1 \in T
  PROVE  \A n \in Nat : n \in T
<1> DEFINE Others == {n \in Nat : n \notin T}
<1> SUFFICES ASSUME Others # {} PROVE FALSE
  OBVIOUS
<1>1. PICK m \in Others : \A j \in Others : ~(<<j, m>> \in OpToRel(<, Nat))
  BY NatLessThanWellFounded, WFMin
<1>2. m \in Nat /\ m \notin T /\ m # 0
  BY <1>1
<1>3. m - 1 \in Nat /\ (m - 1) + 1 = m /\ m - 1 < m
  BY <1>2
<1>4. m - 1 \notin Others
  BY <1>1, <1>2, <1>3 DEF OpToRel
<1> QED
  BY <1>2, <1>3, <1>4

-----------------------------------------------------------------------------
(* Sums of windows.                                                        *)

\* f holds the sums of the windows of up to n slots that begin at first.
Sums(f, first, n) ==
  f = [k \in 0..n |-> IF k = 0 THEN 0 ELSE f[k - 1] + prices[first + k - 1]]

LEMMA SumsExist == ASSUME NEW first PROVE \A n \in Nat : \E f : Sums(f, first, n)
<1> DEFINE T == {n \in Nat : \E f : Sums(f, first, n)}
<1>1. 0 \in T
  <2>1. Sums([k \in 0..0 |-> 0], first, 0)
    BY DEF Sums
  <2> QED
    BY <2>1
<1>2. ASSUME NEW n \in Nat, n \in T PROVE n + 1 \in T
  <2>1. PICK f : Sums(f, first, n)
    BY <1>2
  <2> DEFINE g == [k \in 0..(n + 1) |-> IF k = n + 1 THEN f[n] + prices[first + k - 1] ELSE f[k]]
  <2>2. ASSUME NEW k \in 0..(n + 1)
        PROVE  g[k] = IF k = 0 THEN 0 ELSE g[k - 1] + prices[first + k - 1]
    BY <2>1 DEF Sums
  <2>3. Sums(g, first, n + 1)
    BY <2>2 DEF Sums
  <2> QED
    BY <2>3
<1> HIDE DEF T
<1>3. \A n \in Nat : n \in T
  BY <1>1, <1>2, Induction
<1> QED
  BY <1>3 DEF T

LEMMA SumOfIs ==
  ASSUME NEW first, NEW n \in Nat
  PROVE  \E f : Sums(f, first, n) /\ SumOf(first, n) = f[n]
<1>1. SumOf(first, n) = (CHOOSE f : Sums(f, first, n))[n]
  BY DEF SumOf, Sums
<1>2. Sums(CHOOSE f : Sums(f, first, n), first, n)
  BY SumsExist
<1> QED
  BY <1>1, <1>2

LEMMA SumsAgree ==
  ASSUME NEW first
  PROVE  \A k \in Nat : \A n \in Nat : \A f :
           k <= n /\ Sums(f, first, n) => f[k] = SumOf(first, k)
<1> DEFINE T == {k \in Nat : \A n \in Nat : \A f :
                   k <= n /\ Sums(f, first, n) => f[k] = SumOf(first, k)}
<1>1. 0 \in T
  <2>1. \A n \in Nat : \A f : Sums(f, first, n) => f[0] = 0
    BY DEF Sums
  <2> QED
    BY <2>1, SumOfIs
<1>2. ASSUME NEW k \in Nat, k \in T PROVE k + 1 \in T
  <2>1. ASSUME NEW n \in Nat, k + 1 <= n, NEW f, Sums(f, first, n)
        PROVE  f[k + 1] = SumOf(first, k) + prices[first + (k + 1) - 1]
    <3>1. f[k] = SumOf(first, k)
      BY <1>2, <2>1
    <3>2. f[k + 1] = f[(k + 1) - 1] + prices[first + (k + 1) - 1]
      BY <2>1 DEF Sums
    <3> QED
      BY <3>1, <3>2
  <2>2. SumOf(first, k + 1) = SumOf(first, k) + prices[first + (k + 1) - 1]
    BY <2>1, SumOfIs
  <2> QED
    BY <2>1, <2>2
<1> HIDE DEF T
<1>3. \A k \in Nat : k \in T
  BY <1>1, <1>2, Induction
<1> QED
  BY <1>3 DEF T

LEMMA SumNone == ASSUME NEW first PROVE SumOf(first, 0) = 0
<1>1. PICK f : Sums(f, first, 0) /\ SumOf(first, 0) = f[0]
  BY SumOfIs
<1> QED
  BY <1>1 DEF Sums

LEMMA SumStep ==
  ASSUME NEW first \in Nat, NEW k \in Nat
  PROVE  SumOf(first, k + 1) = SumOf(first, k) + prices[first + k]
<1>1. PICK f : Sums(f, first, k + 1) /\ SumOf(first, k + 1) = f[k + 1]
  BY SumOfIs
<1>2. f[k + 1] = f[k] + prices[first + k]
  <2>1. f[k + 1] = f[(k + 1) - 1] + prices[first + (k + 1) - 1]
    BY <1>1 DEF Sums
  <2> QED
    BY <2>1
<1>3. f[k] = SumOf(first, k)
  BY <1>1, SumsAgree
<1> QED
  BY <1>1, <1>2, <1>3

LEMMA SumTyped ==
  ASSUME prices \in Seq(Int), NEW first \in Nat \ {0}
  PROVE  \A k \in Nat : first + k <= Len(prices) + 1 => SumOf(first, k) \in Int
<1> DEFINE T == {k \in Nat : first + k <= Len(prices) + 1 => SumOf(first, k) \in Int}
<1>0. Len(prices) \in Nat
  BY LenProperties
<1>1. 0 \in T
  BY SumNone
<1>2. ASSUME NEW k \in Nat, k \in T PROVE k + 1 \in T
  <2> SUFFICES ASSUME first + (k + 1) <= Len(prices) + 1 PROVE SumOf(first, k + 1) \in Int
    OBVIOUS
  <2>1. SumOf(first, k) \in Int
    BY <1>0, <1>2
  <2>2. prices[first + k] \in Int
    <3>1. first + k \in 1..Len(prices)
      BY <1>0
    <3> QED
      BY <3>1, ElementOfSeq
  <2>3. SumOf(first, k + 1) = SumOf(first, k) + prices[first + k]
    BY SumStep
  <2> QED
    BY <2>1, <2>2, <2>3
<1> HIDE DEF T
<1>3. \A k \in Nat : k \in T
  BY <1>1, <1>2, Induction
<1> QED
  BY <1>3 DEF T

\* A window that slides loses a slot and gains one.
LEMMA SumSlides ==
  ASSUME prices \in Seq(Int), NEW first \in Nat \ {0}
  PROVE  \A k \in Nat : first + k <= Len(prices) =>
           SumOf(first + 1, k) = SumOf(first, k) - prices[first] + prices[first + k]
<1> DEFINE T == {k \in Nat : first + k <= Len(prices) =>
                   SumOf(first + 1, k) = SumOf(first, k) - prices[first] + prices[first + k]}
<1>0. Len(prices) \in Nat /\ \A i \in 1..Len(prices) : prices[i] \in Int
  BY LenProperties, ElementOfSeq
<1>1. 0 \in T
  <2> SUFFICES ASSUME first <= Len(prices)
               PROVE  SumOf(first + 1, 0) = SumOf(first, 0) - prices[first] + prices[first + 0]
    OBVIOUS
  <2>1. SumOf(first + 1, 0) = 0 /\ SumOf(first, 0) = 0 /\ prices[first] \in Int
    BY <1>0, SumNone
  <2> QED
    BY <2>1
<1>2. ASSUME NEW k \in Nat, k \in T PROVE k + 1 \in T
  <2> SUFFICES ASSUME first + (k + 1) <= Len(prices)
               PROVE  SumOf(first + 1, k + 1)
                        = SumOf(first, k + 1) - prices[first] + prices[first + (k + 1)]
    OBVIOUS
  <2>1. SumOf(first + 1, k) = SumOf(first, k) - prices[first] + prices[first + k]
    BY <1>0, <1>2
  <2>2. SumOf(first, k + 1) = SumOf(first, k) + prices[first + k]
    BY SumStep
  <2>3. SumOf(first + 1, k + 1) = SumOf(first + 1, k) + prices[first + (k + 1)]
    <3>1. SumOf(first + 1, k + 1) = SumOf(first + 1, k) + prices[(first + 1) + k]
      <4>1. first + 1 \in Nat
        OBVIOUS
      <4> QED
        BY <4>1, SumStep
    <3> QED
      BY <3>1
  <2> DEFINE a == prices[first]
             b == prices[first + k]
             c == prices[first + (k + 1)]
             s == SumOf(first, k)
             s1 == SumOf(first, k + 1)
             n == SumOf(first + 1, k)
             n1 == SumOf(first + 1, k + 1)
  <2>4. a \in Int /\ b \in Int /\ c \in Int /\ s \in Int
    <3>1. first \in 1..Len(prices) /\ first + k \in 1..Len(prices)
          /\ first + (k + 1) \in 1..Len(prices)
      BY <1>0
    <3>2. SumOf(first, k) \in Int
      BY <1>0, SumTyped
    <3> QED
      BY <1>0, <3>1, <3>2
  <2>5. n = s - a + b /\ s1 = s + b /\ n1 = n + c
    BY <2>1, <2>2, <2>3
  <2>6. n1 = s1 - a + c
    <3> HIDE DEF a, b, c, s, s1, n, n1
    <3> QED
      BY <2>4, <2>5
  <2> QED
    BY <2>6
<1> HIDE DEF T
<1>3. \A k \in Nat : k \in T
  BY <1>1, <1>2, Induction
<1> QED
  BY <1>3 DEF T

-----------------------------------------------------------------------------
(* findBestWindow.                                                         *)

\* f follows the window of size slots as it slides from first to last.
Slides(f, first, size, last) ==
  f = [i \in first..last |->
         IF i = first
           THEN [sum |-> SumOf(first, size), best |-> SumOf(first, size), at |-> first]
           ELSE LET before == f[i - 1]
                    sum    == before.sum - prices[i - 1] + prices[i + size - 1]
                IN  [sum  |-> sum,
                     best |-> IF sum > before.best THEN sum ELSE before.best,
                     at   |-> IF sum > before.best THEN i ELSE before.at]]

LEMMA SlidesExist ==
  ASSUME NEW first \in Int, NEW size
  PROVE  \A n \in Nat : \E f : Slides(f, first, size, first + n)
<1> DEFINE T == {n \in Nat : \E f : Slides(f, first, size, first + n)}
<1>1. 0 \in T
  <2> DEFINE g == [i \in first..(first + 0) |->
                     [sum |-> SumOf(first, size), best |-> SumOf(first, size), at |-> first]]
  <2>1. Slides(g, first, size, first + 0)
    BY DEF Slides
  <2> QED
    BY <2>1
<1>2. ASSUME NEW n \in Nat, n \in T PROVE n + 1 \in T
  <2>1. PICK f : Slides(f, first, size, first + n)
    BY <1>2
  <2> DEFINE last == first + (n + 1)
             next == LET before == f[first + n]
                         sum    == before.sum - prices[last - 1] + prices[last + size - 1]
                     IN  [sum  |-> sum,
                          best |-> IF sum > before.best THEN sum ELSE before.best,
                          at   |-> IF sum > before.best THEN last ELSE before.at]
             g == [i \in first..last |-> IF i = last THEN next ELSE f[i]]
  <2>2. ASSUME NEW i \in first..last
        PROVE  g[i] = IF i = first
                        THEN [sum |-> SumOf(first, size), best |-> SumOf(first, size), at |-> first]
                        ELSE LET before == g[i - 1]
                                 sum    == before.sum - prices[i - 1] + prices[i + size - 1]
                             IN  [sum  |-> sum,
                                  best |-> IF sum > before.best THEN sum ELSE before.best,
                                  at   |-> IF sum > before.best THEN i ELSE before.at]
    <3>1. CASE i = last
      <4>1. i # first /\ i - 1 = first + n /\ i - 1 \in first..last /\ i - 1 # last
        BY <3>1
      <4>2. g[i] = next /\ g[i - 1] = f[first + n]
        BY <3>1, <4>1
      <4> QED
        BY <3>1, <4>1, <4>2
    <3>2. CASE i # last /\ i = first
      <4>1. i \in first..(first + n) /\ g[i] = f[i]
        BY <3>2
      <4> QED
        BY <2>1, <3>2, <4>1 DEF Slides
    <3>3. CASE i # last /\ i # first
      <4>1. i \in first..(first + n) /\ i - 1 \in first..last /\ i - 1 # last
        BY <3>3
      <4>2. g[i] = f[i] /\ g[i - 1] = f[i - 1]
        BY <3>3, <4>1
      <4> QED
        BY <2>1, <3>3, <4>1, <4>2 DEF Slides
    <3> QED
      BY <3>1, <3>2, <3>3
  <2> HIDE DEF next
  <2>3. Slides(g, first, size, last)
    BY <2>2 DEF Slides
  <2> QED
    BY <2>3
<1> HIDE DEF T
<1>3. \A n \in Nat : n \in T
  BY <1>1, <1>2, Induction
<1> QED
  BY <1>3 DEF T

(***************************************************************************)
(* findBestWindow finds the first of the windows with the greatest sum.    *)
(***************************************************************************)
THEOREM BestWindowIsBest ==
  ASSUME prices \in Seq(Int), NEW first \in Nat \ {0}, NEW size \in Nat \ {0},
         first + size <= Len(prices) + 1
  PROVE  /\ BestWindow(first, size) \in first..(Len(prices) - size + 1)
         /\ \A j \in first..(Len(prices) - size + 1) :
              SumOf(j, size) <= SumOf(BestWindow(first, size), size)
         /\ \A j \in first..(BestWindow(first, size) - 1) :
              SumOf(j, size) < SumOf(BestWindow(first, size), size)
<1> DEFINE last == Len(prices) - size + 1
<1>0. Len(prices) \in Nat /\ last \in Nat /\ first <= last
  BY LenProperties
<1>1. BestWindow(first, size) = (CHOOSE f : Slides(f, first, size, last))[last].at
  BY DEF BestWindow, Slides
<1>2. \E f : Slides(f, first, size, last)
  <2>1. last - first \in Nat /\ first + (last - first) = last
    BY <1>0
  <2> HIDE DEF last
  <2>2. \A n \in Nat : \E f : Slides(f, first, size, first + n)
    <3>1. first \in Int
      OBVIOUS
    <3> QED
      BY <3>1, SlidesExist
  <2>3. \E f : Slides(f, first, size, first + (last - first))
    BY <2>1, <2>2
  <2> QED
    BY <2>1, <2>3
<1> HIDE DEF last
<1>3. PICK f : Slides(f, first, size, last) /\ BestWindow(first, size) = f[last].at
  BY <1>1, <1>2
<1>4. \A j \in first..last : SumOf(j, size) \in Int
  <2> SUFFICES ASSUME NEW j \in first..last PROVE SumOf(j, size) \in Int
    OBVIOUS
  <2>1. j \in Nat \ {0} /\ j + size <= Len(prices) + 1
    BY <1>0 DEF last
  <2> QED
    BY <2>1, SumTyped
<1> DEFINE Good(i) ==
             /\ f[i].sum = SumOf(i, size)
             /\ f[i].at \in first..i /\ f[i].best = SumOf(f[i].at, size)
             /\ \A j \in first..i : SumOf(j, size) <= f[i].best
             /\ \A j \in first..(f[i].at - 1) : SumOf(j, size) < f[i].best
           T == {n \in Nat : first + n <= last => Good(first + n)}
<1>5. 0 \in T
  <2>1. f[first] = [sum |-> SumOf(first, size), best |-> SumOf(first, size), at |-> first]
    BY <1>0, <1>3 DEF Slides
  <2>2. first \in first..last /\ SumOf(first, size) \in Int
    BY <1>0, <1>4
  <2>3. Good(first)
    BY <2>1, <2>2
  <2> QED
    BY <2>3
<1>6. ASSUME NEW n \in Nat, n \in T PROVE n + 1 \in T
  <2> SUFFICES ASSUME first + (n + 1) <= last PROVE Good(first + (n + 1))
    OBVIOUS
  <2> DEFINE i == first + n
  <2>1. i \in first..last /\ i + 1 \in first..last /\ i + 1 # first /\ (i + 1) - 1 = i
    BY <1>0
  <2>2. Good(i)
    BY <1>0, <1>6
  <2>3. SumOf(i + 1, size) = SumOf(i, size) - prices[i] + prices[i + size]
    <3>1. i \in Nat \ {0} /\ i + size <= Len(prices)
      BY <1>0 DEF last
    <3> HIDE DEF i
    <3> QED
      BY <3>1, SumSlides
  <2>4. f[i + 1] = LET sum == f[i].sum - prices[i] + prices[i + size]
                   IN  [sum  |-> sum,
                        best |-> IF sum > f[i].best THEN sum ELSE f[i].best,
                        at   |-> IF sum > f[i].best THEN i + 1 ELSE f[i].at]
    <3>1. (i + 1) + size - 1 = i + size
      OBVIOUS
    <3> DEFINE o == i + 1
    <3>2. o \in first..last /\ o # first /\ o - 1 = i /\ o + size - 1 = i + size
      BY <2>1, <3>1
    <3> HIDE DEF i, o
    <3>3. f[o] = LET sum == f[o - 1].sum - prices[o - 1] + prices[o + size - 1]
                 IN  [sum  |-> sum,
                      best |-> IF sum > f[o - 1].best THEN sum ELSE f[o - 1].best,
                      at   |-> IF sum > f[o - 1].best THEN o ELSE f[o - 1].at]
      BY <1>3, <3>2 DEF Slides
    <3> QED
      BY <3>2, <3>3 DEF o
  <2>5. i \in Nat /\ SumOf(i, size) \in Int /\ SumOf(i + 1, size) \in Int /\ i + 1 = first + (n + 1)
    BY <1>4, <2>1
  <2> HIDE DEF i
  <2>6. /\ f[i + 1].sum = SumOf(i + 1, size)
        /\ f[i + 1].best = (IF SumOf(i + 1, size) > f[i].best THEN SumOf(i + 1, size) ELSE f[i].best)
        /\ f[i + 1].at = (IF SumOf(i + 1, size) > f[i].best THEN i + 1 ELSE f[i].at)
    BY <2>2, <2>3, <2>4
  <2>7. f[i].best \in Int /\ f[i].at \in Int
    <3>1. f[i].at \in first..i /\ f[i].best = SumOf(f[i].at, size)
      BY <2>2
    <3>2. \A j \in first..i : j \in Int /\ j \in first..last
      BY <1>0, <2>1
    <3> HIDE DEF Good
    <3> QED
      BY <1>4, <3>1, <3>2
  <2>8. /\ \A j \in first..i : SumOf(j, size) \in Int /\ SumOf(j, size) <= f[i].best
        /\ \A j \in first..(f[i].at - 1) : SumOf(j, size) < f[i].best
        /\ f[i].at \in first..i /\ f[i].best = SumOf(f[i].at, size)
    <3>1. \A j \in first..i : j \in first..last
      BY <1>0, <2>1
    <3> QED
      BY <1>4, <2>2, <3>1
  <2>9. \A j \in first..(i + 1) : j \in first..i \/ j = i + 1
    BY <2>5
  <2> HIDE DEF Good
  <2>10. Good(i + 1)
    <3>1. CASE SumOf(i + 1, size) > f[i].best
      <4>1. f[i + 1].at = i + 1 /\ f[i + 1].best = SumOf(i + 1, size) /\ (i + 1) - 1 = i
        BY <2>5, <2>6, <3>1
      <4>2. \A j \in first..i : SumOf(j, size) < SumOf(i + 1, size)
        BY <2>5, <2>7, <2>8, <3>1
      <4>3. ASSUME NEW j \in first..(i + 1) PROVE SumOf(j, size) <= SumOf(i + 1, size)
        <5>1. CASE j \in first..i
          <6>1. SumOf(j, size) \in Int /\ SumOf(j, size) < SumOf(i + 1, size)
            BY <2>8, <4>2, <5>1
          <6> QED
            BY <2>5, <6>1
        <5>2. CASE j = i + 1
          BY <2>5, <5>2
        <5> QED
          BY <2>9, <5>1, <5>2
      <4>4. i + 1 \in first..(i + 1)
        BY <2>1
      <4> QED
        BY <2>6, <4>1, <4>2, <4>3, <4>4 DEF Good
    <3>2. CASE ~(SumOf(i + 1, size) > f[i].best)
      <4>1. f[i + 1].at = f[i].at /\ f[i + 1].best = f[i].best
        BY <2>6, <3>2
      <4>2. ASSUME NEW j \in first..(i + 1) PROVE SumOf(j, size) <= f[i].best
        <5>1. CASE j \in first..i
          BY <2>8, <5>1
        <5>2. CASE j = i + 1
          BY <2>5, <2>7, <3>2, <5>2
        <5> QED
          BY <2>9, <5>1, <5>2
      <4>3. f[i].at \in first..(i + 1)
        <5>1. first..i \subseteq first..(i + 1)
          BY <2>5
        <5> QED
          BY <2>8, <5>1
      <4> QED
        BY <2>6, <2>8, <4>1, <4>2, <4>3 DEF Good
    <3> QED
      BY <3>1, <3>2
  <2> QED
    BY <2>5, <2>10
<1> HIDE DEF T
<1>7. \A n \in Nat : n \in T
  BY <1>5, <1>6, Induction
<1>8. Good(last)
  <2>1. last - first \in Nat /\ first + (last - first) = last
    BY <1>0
  <2>2. last - first \in T
    BY <1>7, <2>1
  <2> QED
    BY <1>0, <2>1, <2>2 DEF T
<1> QED
  BY <1>3, <1>8 DEF last

-----------------------------------------------------------------------------
(* findBestCycle.                                                          *)

\* What is kept, at any time.
Typed ==
  /\ prices \in Seq(Int)
  /\ chargeSize \in Nat \ {0} /\ dischargeSize \in Nat \ {0}
  /\ from \in Nat \ {0}
  /\ cycles \in Seq([charge : Nat \ {0}, discharge : Nat \ {0}])
  /\ done \in BOOLEAN

LEMMA TimesMonotone ==
  ASSUME NEW a \in Nat, NEW x \in Int, NEW y \in Int, x <= y
  PROVE  a * x \in Int /\ a * y \in Int /\ a * x <= a * y
OBVIOUS

\* A window's sum, for windows in the list.
LEMMA WindowTyped ==
  ASSUME Typed, NEW first \in Nat \ {0}, NEW size \in Nat \ {0},
         first + size - 1 <= Len(prices)
  PROVE  SumOf(first, size) \in Int
<1>1. Len(prices) \in Nat /\ prices \in Seq(Int)
  BY LenProperties DEF Typed
<1>2. size \in Nat /\ first + size <= Len(prices) + 1
  BY <1>1
<1> QED
  BY <1>1, <1>2, SumTyped

\* A pair of windows pays the more, the more its discharge window brings.
LEMMA BetterDischarge ==
  ASSUME Typed, NEW c \in Nat \ {0}, NEW d \in Nat \ {0}, NEW e \in Nat \ {0},
         c + chargeSize - 1 <= Len(prices), d + dischargeSize - 1 <= Len(prices),
         e + dischargeSize - 1 <= Len(prices),
         SumOf(d, dischargeSize) <= SumOf(e, dischargeSize)
  PROVE  /\ Profit(c, d) \in Int /\ Profit(c, e) \in Int
         /\ Profit(c, d) <= Profit(c, e)
         /\ Profitable(c, d) => Profitable(c, e)
<1> DEFINE x == SumOf(d, dischargeSize)
           y == SumOf(e, dischargeSize)
           z == SumOf(c, chargeSize)
<1>1. x \in Int /\ y \in Int /\ z \in Int /\ x <= y
  BY WindowTyped DEF Typed
<1>2. /\ chargeSize \in Nat /\ dischargeSize \in Nat /\ Efficiency \in Nat /\ MinSpread \in Nat
      /\ Efficiency * chargeSize \in Nat /\ 100 * dischargeSize \in Nat
      /\ MinSpread * chargeSize * dischargeSize \in Nat
  BY AnalyzerAssumption DEF AnalyzerAssumption, Typed
<1> HIDE DEF x, y, z
<1>3. /\ (Efficiency * chargeSize) * x \in Int /\ (Efficiency * chargeSize) * y \in Int
      /\ (Efficiency * chargeSize) * x <= (Efficiency * chargeSize) * y
  <2> DEFINE a == Efficiency * chargeSize
  <2>1. a \in Nat
    BY <1>2
  <2> HIDE DEF a
  <2>2. a * x \in Int /\ a * y \in Int /\ a * x <= a * y
    BY <1>1, <2>1, TimesMonotone
  <2> QED
    BY <2>2 DEF a
<1>4. chargeSize * x \in Int /\ chargeSize * y \in Int /\ chargeSize * x <= chargeSize * y
  BY <1>1, <1>2, TimesMonotone
<1>5. (100 * dischargeSize) * z \in Int /\ dischargeSize * z \in Int
  BY <1>1, <1>2
<1>6. /\ Profit(c, d) = (Efficiency * chargeSize) * x - (100 * dischargeSize) * z
      /\ Profit(c, e) = (Efficiency * chargeSize) * y - (100 * dischargeSize) * z
  BY DEF Profit, x, y, z
<1>7. /\ Profitable(c, d) <=>
           Profit(c, d) > 0 /\ chargeSize * x - dischargeSize * z
                                 >= MinSpread * chargeSize * dischargeSize
      /\ Profitable(c, e) <=>
           Profit(c, e) > 0 /\ chargeSize * y - dischargeSize * z
                                 >= MinSpread * chargeSize * dischargeSize
  BY DEF Profitable, x, y, z
<1>8. Profit(c, d) \in Int /\ Profit(c, e) \in Int /\ Profit(c, d) <= Profit(c, e)
  <2> DEFINE u == (Efficiency * chargeSize) * x
             v == (Efficiency * chargeSize) * y
             w == (100 * dischargeSize) * z
  <2>1. u \in Int /\ v \in Int /\ w \in Int /\ u <= v
    BY <1>3, <1>5
  <2>2. Profit(c, d) = u - w /\ Profit(c, e) = v - w
    BY <1>6
  <2> HIDE DEF u, v, w
  <2> QED
    BY <2>1, <2>2
<1>9. ASSUME chargeSize * x - dischargeSize * z >= MinSpread * chargeSize * dischargeSize
      PROVE  chargeSize * y - dischargeSize * z >= MinSpread * chargeSize * dischargeSize
  <2> DEFINE u == chargeSize * x
             v == chargeSize * y
             w == dischargeSize * z
             t == MinSpread * chargeSize * dischargeSize
  <2>1. u \in Int /\ v \in Int /\ w \in Int /\ t \in Nat /\ u <= v /\ u - w >= t
    BY <1>2, <1>4, <1>5, <1>9
  <2> HIDE DEF u, v, w, t
  <2>2. v - w >= t
    BY <2>1
  <2> QED
    BY <2>2 DEF v, w, t
<1>10. ASSUME Profit(c, d) > 0 PROVE Profit(c, e) > 0
  BY <1>8, <1>10
<1> QED
  BY <1>7, <1>8, <1>9, <1>10

\* Where the windows of a candidate lie.
LEMMA CandidateTyped ==
  ASSUME Typed, NEW k \in Candidates
  PROVE  /\ k.charge \in Nat \ {0} /\ k.discharge \in Nat \ {0}
         /\ k.charge >= from /\ k.discharge >= k.charge + chargeSize
         /\ k.charge + chargeSize - 1 <= Len(prices)
         /\ k.discharge + dischargeSize - 1 <= Len(prices)
         /\ k = [charge |-> k.charge, discharge |-> k.discharge]
         /\ k.discharge = BestWindow(k.charge + chargeSize, dischargeSize)
         /\ Profit(k.charge, k.discharge) \in Int
<1>1. PICK c \in from..(Len(prices) - chargeSize - dischargeSize + 1) :
        k = [charge |-> c, discharge |-> BestWindow(c + chargeSize, dischargeSize)]
  BY DEF Candidates
<1>2. Len(prices) \in Nat /\ prices \in Seq(Int)
  BY LenProperties DEF Typed
<1>3. /\ c \in Nat \ {0} /\ c >= from /\ c + chargeSize \in Nat \ {0}
      /\ (c + chargeSize) + dischargeSize <= Len(prices) + 1 /\ dischargeSize \in Nat \ {0}
  BY <1>2 DEF Typed
<1>4. k.discharge \in (c + chargeSize)..(Len(prices) - dischargeSize + 1)
  <2> DEFINE first == c + chargeSize
  <2>1. first \in Nat \ {0} /\ first + dischargeSize <= Len(prices) + 1
    BY <1>3
  <2> HIDE DEF first
  <2>2. BestWindow(first, dischargeSize) \in first..(Len(prices) - dischargeSize + 1)
    BY <1>2, <1>3, <2>1, BestWindowIsBest
  <2> QED
    BY <1>1, <2>2 DEF first
<1>5. /\ k.charge \in Nat \ {0} /\ k.discharge \in Nat \ {0}
      /\ k.charge >= from /\ k.discharge >= k.charge + chargeSize
      /\ k.charge + chargeSize - 1 <= Len(prices)
      /\ k.discharge + dischargeSize - 1 <= Len(prices)
  <2>1. k.charge = c
    BY <1>1
  <2>2. chargeSize \in Nat \ {0} /\ dischargeSize \in Nat \ {0}
    BY DEF Typed
  <2>3. \A d \in (c + chargeSize)..(Len(prices) - dischargeSize + 1) :
          d \in Nat \ {0} /\ d >= c + chargeSize /\ d + dischargeSize - 1 <= Len(prices)
    BY <1>2, <1>3, <2>2
  <2>4. c + chargeSize - 1 <= Len(prices)
    BY <1>2, <1>3, <2>2
  <2> QED
    BY <1>3, <1>4, <2>1, <2>3, <2>4
<1>6. SumOf(k.discharge, dischargeSize) <= SumOf(k.discharge, dischargeSize)
  <2> DEFINE d == k.discharge
  <2>1. d \in Nat \ {0} /\ d + dischargeSize - 1 <= Len(prices)
    BY <1>5
  <2> HIDE DEF d
  <2>2. SumOf(d, dischargeSize) \in Int
    BY <1>3, <2>1, WindowTyped
  <2> QED
    BY <2>2 DEF d
<1>7. Profit(k.charge, k.discharge) \in Int
  BY <1>5, <1>6, BetterDischarge
<1> QED
  BY <1>1, <1>5, <1>7

\* Pairs lie in the list, and their profit is a number.
LEMMA PairTyped ==
  ASSUME Typed, NEW p \in Pairs(from)
  PROVE  Profit(p[1], p[2]) \in Int
<1> DEFINE c == p[1]
           d == p[2]
<1>1. /\ c \in from..Len(prices) /\ d \in from..Len(prices)
      /\ d >= c + chargeSize /\ d + dischargeSize - 1 <= Len(prices)
  BY DEF Pairs
<1>2. /\ Len(prices) \in Nat /\ from \in Nat \ {0}
      /\ chargeSize \in Nat \ {0} /\ dischargeSize \in Nat \ {0}
  BY LenProperties DEF Typed
<1> HIDE DEF c, d
<1>3. /\ c \in Nat \ {0} /\ d \in Nat \ {0}
      /\ c + chargeSize - 1 <= Len(prices) /\ d + dischargeSize - 1 <= Len(prices)
  BY <1>1, <1>2
<1>4. SumOf(d, dischargeSize) <= SumOf(d, dischargeSize)
  <2>1. SumOf(d, dischargeSize) \in Int
    BY <1>2, <1>3, WindowTyped
  <2> QED
    BY <2>1
<1>5. Profit(c, d) \in Int
  BY <1>3, <1>4, BetterDischarge
<1> QED
  BY <1>5 DEF c, d

\* A pair that pays has a candidate that pays no less.
LEMMA PairHasCandidate ==
  ASSUME Typed, NEW p \in Pairs(from), Profitable(p[1], p[2])
  PROVE  \E k \in Candidates : /\ Profitable(k.charge, k.discharge)
                               /\ Profit(p[1], p[2]) <= Profit(k.charge, k.discharge)
<1>1. /\ Len(prices) \in Nat /\ prices \in Seq(Int) /\ from \in Nat \ {0}
      /\ chargeSize \in Nat \ {0} /\ dischargeSize \in Nat \ {0}
  BY LenProperties DEF Typed
<1>2. /\ p[1] \in from..Len(prices) /\ p[2] \in from..Len(prices)
      /\ p[2] >= p[1] + chargeSize /\ p[2] + dischargeSize - 1 <= Len(prices)
  BY DEF Pairs
<1> DEFINE c == p[1]
           d == p[2]
           first == c + chargeSize
           e == BestWindow(first, dischargeSize)
           k == [charge |-> c, discharge |-> e]
<1>3. /\ first \in Nat \ {0} /\ first + dischargeSize <= Len(prices) + 1
      /\ d \in first..(Len(prices) - dischargeSize + 1)
      /\ c \in from..(Len(prices) - chargeSize - dischargeSize + 1)
  <2>1. /\ c \in from..Len(prices) /\ d \in from..Len(prices)
        /\ d >= c + chargeSize /\ d + dischargeSize - 1 <= Len(prices)
    BY <1>2
  <2> HIDE DEF c, d
  <2> QED
    BY <1>1, <2>1
<1>4. k \in Candidates
  BY <1>3 DEF Candidates
<1> HIDE DEF first
<1>5. SumOf(d, dischargeSize) <= SumOf(e, dischargeSize)
  BY <1>1, <1>3, BestWindowIsBest
<1>6. /\ k.charge = c /\ k.discharge = e
      /\ c \in Nat \ {0} /\ d \in Nat \ {0} /\ e \in Nat \ {0}
      /\ c + chargeSize - 1 <= Len(prices) /\ d + dischargeSize - 1 <= Len(prices)
      /\ e + dischargeSize - 1 <= Len(prices)
  <2>1. k.charge = c /\ k.discharge = e
    OBVIOUS
  <2>2. c \in from..Len(prices) /\ d \in from..Len(prices)
        /\ c + chargeSize <= d /\ d + dischargeSize - 1 <= Len(prices)
    BY <1>2
  <2> HIDE DEF k, c, d, e
  <2>3. c \in Nat \ {0} /\ d \in Nat \ {0} /\ c + chargeSize - 1 <= Len(prices)
    BY <1>1, <2>2
  <2>4. e \in Nat \ {0} /\ e + dischargeSize - 1 <= Len(prices)
    BY <1>1, <1>4, <2>1, CandidateTyped
  <2> QED
    BY <2>1, <2>2, <2>3, <2>4
<1> HIDE DEF k, c, d, e
<1>7. Profit(c, d) <= Profit(c, e) /\ (Profitable(c, d) => Profitable(c, e))
  BY <1>5, <1>6, BetterDischarge
<1> QED
  BY <1>4, <1>6, <1>7 DEF c, d

\* The first of the greatest.
LEMMA FirstGreatest ==
  \A n \in Nat : \A T \in SUBSET (1..n) : \A p :
    T # {} /\ (\A x \in T : p[x] \in Int) =>
      \E b \in T : \A o \in T : p[b] > p[o] \/ (p[b] = p[o] /\ b <= o)
<1> DEFINE Has(T, p) == \E b \in T : \A o \in T : p[b] > p[o] \/ (p[b] = p[o] /\ b <= o)
           N == {n \in Nat : \A T \in SUBSET (1..n) : \A p :
                   T # {} /\ (\A x \in T : p[x] \in Int) => Has(T, p)}
<1>1. 0 \in N
  <2>1. \A T \in SUBSET (1..0) : T = {}
    OBVIOUS
  <2> QED
    BY <2>1
<1>2. ASSUME NEW n \in Nat, n \in N PROVE n + 1 \in N
  <2> SUFFICES ASSUME NEW T \in SUBSET (1..(n + 1)), NEW p, T # {}, \A x \in T : p[x] \in Int
               PROVE  Has(T, p)
    OBVIOUS
  <2> DEFINE U == T \ {n + 1}
  <2>1. U \in SUBSET (1..n) /\ \A x \in U : p[x] \in Int
    OBVIOUS
  <2>2. CASE U = {}
    <3>1. T = {n + 1} /\ p[n + 1] \in Int
      BY <2>2
    <3> QED
      BY <3>1
  <2>3. CASE U # {}
    <3>1. Has(U, p)
      BY <1>2, <2>1, <2>3
    <3>2. PICK b \in U : \A o \in U : p[b] > p[o] \/ (p[b] = p[o] /\ b <= o)
      BY <3>1
    <3>3. b \in 1..n /\ p[b] \in Int /\ b \in T
      BY <2>1
    <3>4. CASE n + 1 \notin T \/ p[b] >= p[n + 1]
      <4>1. ASSUME NEW o \in T PROVE p[b] > p[o] \/ (p[b] = p[o] /\ b <= o)
        <5>1. o \in U \/ (o = n + 1 /\ p[o] \in Int)
          OBVIOUS
        <5> QED
          BY <3>2, <3>3, <3>4, <5>1
      <4> QED
        BY <3>3, <4>1
    <3>5. CASE n + 1 \in T /\ p[n + 1] > p[b]
      <4>1. ASSUME NEW o \in T PROVE p[n + 1] > p[o] \/ (p[n + 1] = p[o] /\ n + 1 <= o)
        <5>1. (o \in U /\ p[o] \in Int /\ p[n + 1] \in Int) \/ o = n + 1
          BY <3>5
        <5> QED
          BY <3>2, <3>3, <3>5, <5>1
      <4> QED
        BY <3>5, <4>1
    <3> QED
      BY <3>3, <3>4, <3>5
  <2> QED
    BY <2>2, <2>3
<1> HIDE DEF N
<1>3. \A n \in Nat : n \in N
  BY <1>1, <1>2, Induction
<1> QED
  BY <1>3 DEF N

LEMMA BestIsBest ==
  ASSUME Typed, NEW S \in SUBSET Candidates, S # {}
  PROVE  /\ Best(S) \in S
         /\ \A o \in S : Profit(o.charge, o.discharge)
                           <= Profit(Best(S).charge, Best(S).discharge)
<1> DEFINE T == {k.charge : k \in S}
           p == [c \in T |-> Profit(c, BestWindow(c + chargeSize, dischargeSize))]
<1>1. Len(prices) \in Nat
  BY LenProperties DEF Typed
<1>2. \A k \in S : /\ k.charge \in 1..Len(prices) /\ k.charge \in T
                   /\ p[k.charge] = Profit(k.charge, k.discharge) /\ p[k.charge] \in Int
  <2> SUFFICES ASSUME NEW k \in S
               PROVE  /\ k.charge \in 1..Len(prices) /\ k.charge \in T
                      /\ p[k.charge] = Profit(k.charge, k.discharge) /\ p[k.charge] \in Int
    OBVIOUS
  <2>1. /\ k.charge \in Nat \ {0} /\ k.charge + chargeSize - 1 <= Len(prices)
        /\ k.discharge = BestWindow(k.charge + chargeSize, dischargeSize)
        /\ Profit(k.charge, k.discharge) \in Int
    BY CandidateTyped
  <2>2. k.charge \in 1..Len(prices)
    BY <1>1, <2>1 DEF Typed
  <2>3. k.charge \in T /\ p[k.charge] = Profit(k.charge, k.discharge)
    BY <2>1
  <2> QED
    BY <2>1, <2>2, <2>3
<1>3. T \in SUBSET (1..Len(prices)) /\ T # {} /\ \A x \in T : p[x] \in Int
  BY <1>2
<1> HIDE DEF p
<1>4. \E b \in T : \A o \in T : p[b] > p[o] \/ (p[b] = p[o] /\ b <= o)
  <2> HIDE DEF T
  <2> QED
    BY <1>1, <1>3, FirstGreatest
<1>5. \E b \in S : \A o \in S :
        \/ Profit(b.charge, b.discharge) > Profit(o.charge, o.discharge)
        \/ /\ Profit(b.charge, b.discharge) = Profit(o.charge, o.discharge)
           /\ b.charge <= o.charge
  <2>1. PICK c \in T : \A o \in T : p[c] > p[o] \/ (p[c] = p[o] /\ c <= o)
    BY <1>4
  <2>2. PICK b \in S : b.charge = c
    OBVIOUS
  <2> HIDE DEF T
  <2>3. ASSUME NEW o \in S
        PROVE  \/ Profit(b.charge, b.discharge) > Profit(o.charge, o.discharge)
               \/ /\ Profit(b.charge, b.discharge) = Profit(o.charge, o.discharge)
                  /\ b.charge <= o.charge
    <3>1. /\ o.charge \in T
          /\ p[o.charge] = Profit(o.charge, o.discharge)
          /\ p[b.charge] = Profit(b.charge, b.discharge)
      BY <1>2
    <3>2. p[c] > p[o.charge] \/ (p[c] = p[o.charge] /\ c <= o.charge)
      BY <2>1, <3>1
    <3> QED
      BY <2>2, <3>1, <3>2
  <2> QED
    BY <2>3
<1>6. /\ Best(S) \in S
      /\ \A o \in S :
           \/ Profit(Best(S).charge, Best(S).discharge) > Profit(o.charge, o.discharge)
           \/ /\ Profit(Best(S).charge, Best(S).discharge) = Profit(o.charge, o.discharge)
              /\ Best(S).charge <= o.charge
  BY <1>5 DEF Best
<1>7. \A o \in S : Profit(o.charge, o.discharge) \in Int
  BY CandidateTyped
<1> QED
  BY <1>6, <1>7

-----------------------------------------------------------------------------
(* The plan.                                                               *)

\* The search goes on behind the last cycle.
Behind == from = Free(Len(cycles) + 1)

IInv == Typed /\ Behind /\ WindowsAlternate /\ GreedyToTheEnd

LEMMA SizeTyped == \A p \in Int : WindowSize(p) \in Nat \ {0}
<1> SUFFICES ASSUME NEW p \in Int PROVE WindowSize(p) \in Nat \ {0}
  OBVIOUS
<1>1. CASE p <= 0
  BY <1>1 DEF WindowSize
<1>2. CASE p > 0
  <2> DEFINE size == (4 * Usable + p - 1) \div p
  <2>1. size \in Int
    BY <1>2, AnalyzerAssumption DEF AnalyzerAssumption
  <2>2. WindowSize(p) = IF size < 1 THEN 1 ELSE size
    BY <1>2 DEF WindowSize
  <2> HIDE DEF size
  <2> QED
    BY <2>1, <2>2
<1> QED
  BY <1>1, <1>2

LEMMA InitHolds == Init => IInv
<1> SUFFICES ASSUME Init PROVE IInv
  OBVIOUS
<1>1. prices \in Seq(Int) /\ Len(prices) \in Nat
  <2>1. PICK n \in 0..MaxSlots : prices \in [1..n -> Prices]
    BY DEF Init, Lists
  <2>2. n \in Nat /\ prices \in [1..n -> Int]
    <3>1. MaxSlots \in Nat /\ Prices \subseteq Int
      BY AnalyzerAssumption DEF AnalyzerAssumption
    <3>2. n \in Nat
      BY <3>1
    <3>3. prices \in [1..n -> Int]
      BY <2>1, <3>1
    <3> QED
      BY <3>2, <3>3
  <2>3. prices \in Seq(Int)
    BY <2>2, SeqDef
  <2> QED
    BY <2>3, LenProperties
<1>2. chargeSize \in Nat \ {0} /\ dischargeSize \in Nat \ {0}
  BY SizeTyped, AnalyzerAssumption DEF Init, AnalyzerAssumption
<1>3. from = 1 /\ cycles = <<>>
  BY DEF Init
<1>4. Typed
  <2>1. done \in BOOLEAN
    BY DEF Init
  <2>2. cycles \in Seq([charge : Nat \ {0}, discharge : Nat \ {0}])
    BY <1>3, EmptySeq
  <2> QED
    BY <1>1, <1>2, <1>3, <2>1, <2>2 DEF Typed
<1>5. Behind /\ WindowsAlternate /\ ChoosesBest
  BY <1>3 DEF Behind, Free, WindowsAlternate, ChoosesBest
<1>6. NothingLeft
  <2> SUFFICES ASSUME done, NEW p \in Pairs(from) PROVE FALSE
    BY DEF NothingLeft
  <2>1. Len(prices) < chargeSize \/ Len(prices) < dischargeSize
    BY DEF Init
  <2>2. /\ p[1] \in 1..Len(prices) /\ p[2] \in 1..Len(prices)
        /\ p[2] >= p[1] + chargeSize /\ p[2] + dischargeSize - 1 <= Len(prices)
    BY <1>3 DEF Pairs
  <2> DEFINE c == p[1]
             d == p[2]
  <2>3. /\ c \in 1..Len(prices) /\ d \in 1..Len(prices)
        /\ d >= c + chargeSize /\ d + dischargeSize - 1 <= Len(prices)
    BY <2>2
  <2> HIDE DEF c, d
  <2> QED
    BY <1>1, <1>2, <2>1, <2>3
<1> QED
  BY <1>4, <1>5, <1>6 DEF IInv, GreedyToTheEnd

\* What is said of pairs is said of the list and the sizes only.
LEMMA SamePairs ==
  ASSUME UNCHANGED <<prices, chargeSize, dischargeSize>>
  PROVE  /\ \A c, d : Profit(c, d)' = Profit(c, d) /\ (Profitable(c, d)' <=> Profitable(c, d))
         /\ \A first : Pairs(first)' = Pairs(first)
<1>1. \A c, d : Profit(c, d)' = Profit(c, d)
  BY DEF Profit, SumOf
<1>2. \A c, d : Profitable(c, d)' <=> Profitable(c, d)
  BY DEF Profitable, Profit, SumOf
<1>3. \A first : Pairs(first)' = Pairs(first)
  BY DEF Pairs
<1> QED
  BY <1>1, <1>2, <1>3

\* Nothing that pays is left where no candidate pays.
LEMMA NoneStep ==
  ASSUME IInv, \A k \in Candidates : ~Profitable(k.charge, k.discharge),
         done' = TRUE, UNCHANGED <<prices, chargeSize, dischargeSize, from, cycles>>
  PROVE  IInv'
<1>1. Typed' /\ Behind' /\ WindowsAlternate'
  BY DEF IInv, Typed, Behind, Free, WindowsAlternate
<1>2. ChoosesBest'
  BY SamePairs DEF IInv, GreedyToTheEnd, ChoosesBest, Free
<1>3. NothingLeft'
  <2>1. \A p \in Pairs(from) : ~Profitable(p[1], p[2])
    BY PairHasCandidate DEF IInv
  <2> QED
    BY <2>1, SamePairs DEF NothingLeft
<1> QED
  BY <1>1, <1>2, <1>3 DEF IInv, GreedyToTheEnd

\* The best candidate becomes the next cycle of the plan.
LEMMA TakeStep ==
  ASSUME IInv, NEW S, S = {k \in Candidates : Profitable(k.charge, k.discharge)}, S # {},
         cycles' = Append(cycles, Best(S)), from' = After(Best(S)),
         done' = (Len(cycles') >= MaxCycles \/ from' > Len(prices)),
         UNCHANGED <<prices, chargeSize, dischargeSize>>
  PROVE  IInv'
<1> DEFINE b == Best(S)
           n == Len(cycles)
<1>1. /\ b \in Candidates
      /\ \A o \in S : Profit(o.charge, o.discharge) <= Profit(b.charge, b.discharge)
  BY BestIsBest DEF IInv
<1>2. /\ b.charge \in Nat \ {0} /\ b.discharge \in Nat \ {0}
      /\ b.charge >= from /\ b.discharge >= b.charge + chargeSize
      /\ b.discharge + dischargeSize - 1 <= Len(prices)
      /\ b = [charge |-> b.charge, discharge |-> b.discharge]
      /\ Profit(b.charge, b.discharge) \in Int
  BY <1>1, CandidateTyped DEF IInv
<1>3. from' = b.discharge + dischargeSize /\ cycles' = Append(cycles, b)
  BY DEF After
<1> HIDE DEF b
<1>4. /\ Typed /\ cycles \in Seq([charge : Nat \ {0}, discharge : Nat \ {0}]) /\ n \in Nat
      /\ Len(prices) \in Nat /\ chargeSize \in Nat \ {0} /\ dischargeSize \in Nat \ {0}
      /\ from \in Nat \ {0}
  BY LenProperties DEF IInv, Typed
<1>5. b \in [charge : Nat \ {0}, discharge : Nat \ {0}]
  BY <1>2
<1>6. /\ cycles' \in Seq([charge : Nat \ {0}, discharge : Nat \ {0}])
      /\ Len(cycles') = n + 1 /\ DOMAIN cycles' = 1..(n + 1) /\ DOMAIN cycles = 1..n
      /\ cycles'[n + 1] = b /\ \A i \in 1..n : cycles'[i] = cycles[i]
  BY <1>3, <1>4, <1>5, AppendProperties, LenProperties
<1> HIDE DEF n
<1>7. Typed'
  <2>1. from' \in Nat \ {0}
    BY <1>2, <1>3, <1>4
  <2> QED
    BY <1>4, <1>6, <2>1 DEF Typed
<1>8. /\ \A i \in 1..n : Free(i)' = Free(i)
      /\ \A i : i = n + 1 => Free(i)' = from
  <2>1. ASSUME NEW i \in 1..n PROVE Free(i)' = Free(i)
    <3>1. i # 1 => i - 1 \in 1..n
      BY <1>4
    <3> QED
      BY <1>6, <3>1 DEF Free
  <2>2. ASSUME NEW i, i = n + 1 PROVE Free(i)' = Free(i)
    <3>1. CASE n = 0
      BY <2>2, <3>1 DEF Free
    <3>2. CASE n # 0
      <4>1. i # 1 /\ i - 1 = n /\ n \in 1..n
        BY <1>4, <2>2, <3>2
      <4>2. cycles'[i - 1] = cycles[i - 1]
        BY <1>6, <4>1
      <4> QED
        BY <4>1, <4>2 DEF Free
    <3> QED
      BY <3>1, <3>2
  <2>3. Free(n + 1) = from
    BY DEF IInv, Behind, n
  <2> QED
    BY <2>1, <2>2, <2>3
<1>9. Behind'
  <2>1. (n + 1) + 1 # 1 /\ ((n + 1) + 1) - 1 = n + 1
    BY <1>4
  <2> QED
    BY <1>3, <1>6, <2>1 DEF Behind, Free
<1>10. \A i \in DOMAIN cycles' : i \in 1..n \/ i = n + 1
  BY <1>4, <1>6
<1>11. WindowsAlternate'
  <2>1. ASSUME NEW i \in 1..n
        PROVE  /\ cycles'[i].charge >= Free(i)'
               /\ cycles'[i].discharge >= cycles'[i].charge + chargeSize
               /\ cycles'[i].discharge + dischargeSize - 1 <= Len(prices)
    BY <1>6, <1>8 DEF IInv, WindowsAlternate
  <2>2. /\ cycles'[n + 1].charge >= from
        /\ cycles'[n + 1].discharge >= cycles'[n + 1].charge + chargeSize
        /\ cycles'[n + 1].discharge + dischargeSize - 1 <= Len(prices)
    BY <1>2, <1>6
  <2>3. ASSUME NEW i \in DOMAIN cycles'
        PROVE  /\ cycles'[i].charge >= Free(i)'
               /\ cycles'[i].discharge >= cycles'[i].charge + chargeSize
               /\ cycles'[i].discharge + dischargeSize - 1 <= Len(prices)
    <3>1. CASE i \in 1..n
      BY <2>1, <3>1
    <3>2. CASE i = n + 1
      BY <1>8, <2>2, <3>2
    <3> QED
      BY <1>10, <3>1, <3>2
  <2> QED
    BY <2>3 DEF WindowsAlternate
<1>12. ChoosesBest'
  <2>1. ASSUME NEW i \in 1..n, NEW p \in Pairs(Free(i)), Profitable(p[1], p[2])
        PROVE  Profit(p[1], p[2]) <= Profit(cycles'[i].charge, cycles'[i].discharge)
    BY <1>6, <2>1 DEF IInv, GreedyToTheEnd, ChoosesBest
  <2>2. ASSUME NEW p \in Pairs(from), Profitable(p[1], p[2])
        PROVE  Profit(p[1], p[2]) <= Profit(b.charge, b.discharge)
    <3>1. PICK k \in Candidates : /\ Profitable(k.charge, k.discharge)
                                  /\ Profit(p[1], p[2]) <= Profit(k.charge, k.discharge)
      BY <1>4, <2>2, PairHasCandidate
    <3>2. Profit(k.charge, k.discharge) <= Profit(b.charge, b.discharge)
      BY <1>1, <3>1
    <3>3. Profit(k.charge, k.discharge) \in Int /\ Profit(p[1], p[2]) \in Int
      <4>1. Profit(k.charge, k.discharge) \in Int
        BY <1>4, CandidateTyped
      <4>2. Profit(p[1], p[2]) \in Int
        BY <1>4, PairTyped
      <4> QED
        BY <4>1, <4>2
    <3> QED
      BY <1>2, <3>1, <3>2, <3>3
  <2>3. ASSUME NEW i \in DOMAIN cycles', NEW p \in Pairs(Free(i)'), Profitable(p[1], p[2])
        PROVE  Profit(p[1], p[2]) <= Profit(cycles'[i].charge, cycles'[i].discharge)
    <3>1. CASE i \in 1..n
      BY <1>8, <2>1, <2>3, <3>1
    <3>2. CASE i = n + 1
      BY <1>6, <1>8, <2>2, <2>3, <3>2
    <3> QED
      BY <1>10, <3>1, <3>2
  <2> QED
    BY <2>3, SamePairs DEF ChoosesBest
<1>13. NothingLeft'
  <2> SUFFICES ASSUME done', ~(Len(cycles') >= MaxCycles) PROVE Pairs(from') = {}
    <3>1. Len(cycles') < MaxCycles => ~(Len(cycles') >= MaxCycles)
      BY <1>4, <1>6, AnalyzerAssumption DEF MaxCycles, AnalyzerAssumption
    <3> QED
      BY <3>1, SamePairs DEF NothingLeft
  <2>1. from' > Len(prices) /\ from' \in Nat
    BY <1>7 DEF Typed
  <2>2. from'..Len(prices) = {}
    <3> DEFINE a == from'
               l == Len(prices)
    <3>1. a > l /\ a \in Nat /\ l \in Nat
      BY <1>4, <2>1
    <3> HIDE DEF a, l
    <3>2. a..l = {}
      BY <3>1
    <3> QED
      BY <3>2 DEF a, l
  <2> QED
    BY <2>2 DEF Pairs
<1> QED
  BY <1>7, <1>9, <1>11, <1>12, <1>13 DEF IInv, GreedyToTheEnd

LEMMA InvStep == IInv /\ [Next]_vars => IInv'
<1> SUFFICES ASSUME IInv, [Next]_vars PROVE IInv'
  OBVIOUS
<1>1. CASE FindCycle
  <2> DEFINE S == {k \in Candidates : Profitable(k.charge, k.discharge)}
  <2>1. CASE S = {}
    <3>1. \A k \in Candidates : ~Profitable(k.charge, k.discharge)
      BY <2>1
    <3>2. done' = TRUE /\ UNCHANGED <<prices, chargeSize, dischargeSize, from, cycles>>
      BY <1>1, <2>1 DEF FindCycle
    <3> QED
      BY <3>1, <3>2, NoneStep
  <2>2. CASE S # {}
    <3>1. /\ cycles' = Append(cycles, Best(S)) /\ from' = After(Best(S))
          /\ done' = (Len(cycles') >= MaxCycles \/ from' > Len(prices))
          /\ UNCHANGED <<prices, chargeSize, dischargeSize>>
      BY <1>1, <2>2 DEF FindCycle
    <3> QED
      BY <2>2, <3>1, TakeStep
  <2> QED
    BY <2>1, <2>2
<1>2. CASE UNCHANGED vars
  <2>1. UNCHANGED <<prices, chargeSize, dischargeSize, from, cycles, done>>
    BY <1>2 DEF vars
  <2>2. Typed' /\ Behind' /\ WindowsAlternate'
    BY <2>1 DEF IInv, Typed, Behind, Free, WindowsAlternate
  <2>3. GreedyToTheEnd'
    BY <2>1, SamePairs DEF IInv, GreedyToTheEnd, ChoosesBest, NothingLeft, Free
  <2> QED
    BY <2>2, <2>3 DEF IInv
<1> QED
  BY <1>1, <1>2 DEF Next

(***************************************************************************)
(* Every cycle of AnalyzePrices begins behind the one before, and was the  *)
(* best pair when it was taken.                                            *)
(***************************************************************************)
THEOREM Invariance == Spec => []IInv
BY InitHolds, InvStep, PTL DEF Spec

(***************************************************************************)
(* The windows of a plan lie in the list, do not overlap, and alternate.   *)
(***************************************************************************)
THEOREM PlanAlternates == Spec => []WindowsAlternate
BY Invariance, PTL DEF IInv

(***************************************************************************)
(* The plan takes the best cycle of what is left, for as long as there is  *)
(* one that pays.                                                          *)
(***************************************************************************)
THEOREM PlanIsGreedy == Spec => []GreedyToTheEnd
BY Invariance, PTL DEF IInv
-----------------------------------------------------------------------------
(* Sums over sets of instants.                                             *)

\* The price of instant u.
Price(u) == prices[u \div SlotUnits + 1]

Cost(S) == MapThenSumSet(LAMBDA u : prices[u \div SlotUnits + 1], S)

Some(s) == CHOOSE x \in s : TRUE

\* f holds the sums over the sets of D, taken apart element by element.
Adds(f, D) == f = [s \in D |-> IF s = {} THEN 0 ELSE Price(Some(s)) + f[s \ {Some(s)}]]

LEMMA CostIs == ASSUME NEW S PROVE Cost(S) = (CHOOSE f : Adds(f, SUBSET S))[S]
BY DEF Cost, MapThenSumSet, MapThenFoldSet, Adds, Price, Some

\* The subsets of S of up to n elements.
UpTo(S, n) == {s \in SUBSET S : Cardinality(s) <= n}

LEMMA Smaller ==
  ASSUME NEW s, IsFiniteSet(s), NEW x \in s
  PROVE  /\ IsFiniteSet(s \ {x}) /\ Cardinality(s) \in Nat \ {0}
         /\ Cardinality(s \ {x}) = Cardinality(s) - 1
<1>1. IsFiniteSet(s \ {x}) /\ Cardinality(s \ {x}) = Cardinality(s) - 1
  BY FS_RemoveElement
<1>2. Cardinality(s) \in Nat /\ Cardinality(s \ {x}) \in Nat
  BY <1>1, FS_CardinalityType
<1> QED
  BY <1>1, <1>2

LEMMA AddsExist ==
  ASSUME NEW S, IsFiniteSet(S)
  PROVE  \A n \in Nat : \E f : Adds(f, UpTo(S, n))
<1> DEFINE T == {n \in Nat : \E f : Adds(f, UpTo(S, n))}
<1>0. \A s \in SUBSET S : IsFiniteSet(s) /\ Cardinality(s) \in Nat
  BY FS_Subset, FS_CardinalityType
<1>1. \A s \in SUBSET S : s # {} =>
        /\ Some(s) \in s /\ s \ {Some(s)} \in SUBSET S
        /\ Cardinality(s) \in Nat \ {0} /\ Cardinality(s \ {Some(s)}) = Cardinality(s) - 1
  <2> SUFFICES ASSUME NEW s \in SUBSET S, s # {}
               PROVE  /\ Some(s) \in s /\ s \ {Some(s)} \in SUBSET S
                      /\ Cardinality(s) \in Nat \ {0}
                      /\ Cardinality(s \ {Some(s)}) = Cardinality(s) - 1
    OBVIOUS
  <2>1. Some(s) \in s
    BY DEF Some
  <2> QED
    BY <1>0, <2>1, Smaller
<1>2. 0 \in T
  <2> DEFINE g == [s \in UpTo(S, 0) |-> 0]
  <2>1. ASSUME NEW s \in UpTo(S, 0) PROVE s = {}
    <3>1. s \in SUBSET S /\ Cardinality(s) <= 0
      BY DEF UpTo
    <3>2. CASE s # {}
      <4>1. Cardinality(s) \in Nat \ {0}
        BY <1>1, <3>1, <3>2
      <4> QED
        BY <3>1, <4>1
    <3> QED
      BY <3>2
  <2>2. Adds(g, UpTo(S, 0))
    BY <2>1 DEF Adds
  <2> QED
    BY <2>2
<1>3. ASSUME NEW n \in Nat, n \in T PROVE n + 1 \in T
  <2>1. PICK f : Adds(f, UpTo(S, n))
    BY <1>3
  <2> DEFINE D == UpTo(S, n + 1)
             g == [s \in D |-> IF s = {} THEN 0 ELSE Price(Some(s)) + f[s \ {Some(s)}]]
  <2>2. \A s \in UpTo(S, n) : s \in D /\ g[s] = f[s]
    <3>1. \A s \in UpTo(S, n) : s \in D
      BY <1>0 DEF UpTo
    <3> QED
      BY <2>1, <3>1 DEF Adds
  <2>3. \A s \in D : s # {} => s \ {Some(s)} \in UpTo(S, n)
    BY <1>1 DEF UpTo
  <2> HIDE DEF D
  <2>4. Adds(g, D)
    BY <2>2, <2>3 DEF Adds
  <2> QED
    BY <2>4 DEF D
<1> HIDE DEF T
<1>4. \A n \in Nat : n \in T
  BY <1>2, <1>3, Induction
<1> QED
  BY <1>4 DEF T

LEMMA CostHas ==
  ASSUME NEW S, IsFiniteSet(S)
  PROVE  \E f : Adds(f, SUBSET S) /\ Cost(S) = f[S]
<1>1. UpTo(S, Cardinality(S)) = SUBSET S /\ Cardinality(S) \in Nat
  BY FS_Subset, FS_CardinalityType DEF UpTo
<1>2. \E f : Adds(f, SUBSET S)
  <2>1. \E f : Adds(f, UpTo(S, Cardinality(S)))
    BY <1>1, AddsExist, Zenon
  <2> QED
    BY <1>1, <2>1, Zenon
<1>3. Adds(CHOOSE f : Adds(f, SUBSET S), SUBSET S)
  BY <1>2
<1> QED
  BY <1>3, CostIs

LEMMA AddsTyped ==
  ASSUME NEW S, IsFiniteSet(S), \A u \in S : Price(u) \in Int, NEW f, Adds(f, SUBSET S)
  PROVE  \A s \in SUBSET S : f[s] \in Int
<1> DEFINE T == {n \in Nat : \A s \in SUBSET S : Cardinality(s) = n => f[s] \in Int}
<1>0. \A s \in SUBSET S : IsFiniteSet(s) /\ Cardinality(s) \in Nat
  BY FS_Subset, FS_CardinalityType
<1>1. 0 \in T
  <2> SUFFICES ASSUME NEW s \in SUBSET S, Cardinality(s) = 0 PROVE f[s] \in Int
    OBVIOUS
  <2>1. s = {}
    BY <1>0, FS_EmptySet
  <2> QED
    BY <2>1 DEF Adds
<1>2. ASSUME NEW n \in Nat, n \in T PROVE n + 1 \in T
  <2> SUFFICES ASSUME NEW s \in SUBSET S, Cardinality(s) = n + 1 PROVE f[s] \in Int
    OBVIOUS
  <2> DEFINE y == Some(s)
  <2>1. s # {}
    BY <1>0, FS_EmptySet
  <2>2. y \in s
    BY <2>1 DEF Some
  <2>3. f[s] = Price(y) + f[s \ {y}]
    BY <2>1 DEF Adds
  <2> HIDE DEF y
  <2>4. Cardinality(s \ {y}) = n /\ s \ {y} \in SUBSET S
    BY <1>0, <2>2, Smaller
  <2>5. f[s \ {y}] \in Int
    BY <1>2, <2>4
  <2>6. Price(y) \in Int
    BY <2>2
  <2> QED
    BY <2>3, <2>5, <2>6
<1> HIDE DEF T
<1>3. \A n \in Nat : n \in T
  BY <1>1, <1>2, Induction
<1> QED
  BY <1>0, <1>3 DEF T

\* The order in which a set is taken apart does not matter.
AnyOrder(f, S) == \A s \in SUBSET S : \A x \in s : f[s] = Price(x) + f[s \ {x}]

LEMMA AddsAny ==
  ASSUME NEW S, IsFiniteSet(S), \A u \in S : Price(u) \in Int, NEW f, Adds(f, SUBSET S)
  PROVE  AnyOrder(f, S)
<1> DEFINE Right(s) == \A x \in s : f[s] = Price(x) + f[s \ {x}]
           T == {n \in Nat : \A s \in SUBSET S : Cardinality(s) = n => Right(s)}
<1>0. \A s \in SUBSET S : IsFiniteSet(s) /\ Cardinality(s) \in Nat
  BY FS_Subset, FS_CardinalityType
<1>t. \A s \in SUBSET S : f[s] \in Int
  BY AddsTyped
<1>1. 0 \in T
  <2> SUFFICES ASSUME NEW s \in SUBSET S, Cardinality(s) = 0 PROVE Right(s)
    OBVIOUS
  <2>1. s = {}
    BY <1>0, FS_EmptySet
  <2> QED
    BY <2>1
<1>2. ASSUME NEW n \in Nat, n \in T PROVE n + 1 \in T
  <2> SUFFICES ASSUME NEW s \in SUBSET S, Cardinality(s) = n + 1, NEW x \in s
               PROVE  f[s] = Price(x) + f[s \ {x}]
    OBVIOUS
  <2> DEFINE y == Some(s)
  <2>1. y \in s
    BY DEF Some
  <2>2. f[s] = Price(y) + f[s \ {y}]
    BY DEF Adds
  <2> HIDE DEF y
  <2>3. \A z \in s : Right(s \ {z}) /\ s \ {z} \in SUBSET S
    <3> SUFFICES ASSUME NEW z \in s PROVE Right(s \ {z}) /\ s \ {z} \in SUBSET S
      OBVIOUS
    <3>1. Cardinality(s \ {z}) = n /\ s \ {z} \in SUBSET S
      BY <1>0, Smaller
    <3> QED
      BY <1>2, <3>1
  <2>4. CASE x = y
    BY <2>2, <2>4
  <2>5. CASE x # y
    <3> DEFINE r == s \ {x, y}
    <3>1. (s \ {x}) \ {y} = r /\ (s \ {y}) \ {x} = r /\ r \in SUBSET S
      OBVIOUS
    <3>2. f[s \ {x}] = Price(y) + f[r]
      <4>1. y \in s \ {x} /\ Right(s \ {x})
        BY <2>1, <2>3, <2>5
      <4>2. f[s \ {x}] = Price(y) + f[(s \ {x}) \ {y}]
        BY <4>1
      <4> QED
        BY <3>1, <4>2
    <3>3. f[s \ {y}] = Price(x) + f[r]
      <4>1. x \in s \ {y} /\ Right(s \ {y})
        BY <2>1, <2>3, <2>5
      <4>2. f[s \ {y}] = Price(x) + f[(s \ {y}) \ {x}]
        BY <4>1
      <4> QED
        BY <3>1, <4>2
    <3>4. f[r] \in Int /\ Price(x) \in Int /\ Price(y) \in Int
      BY <1>t, <2>1, <3>1
    <3> HIDE DEF r
    <3> QED
      BY <2>2, <3>2, <3>3, <3>4
  <2> QED
    BY <2>4, <2>5
<1> HIDE DEF T
<1>3. \A n \in Nat : n \in T
  BY <1>1, <1>2, Induction
<1> QED
  BY <1>0, <1>3 DEF T, AnyOrder

\* The sums over the subsets of a set are those of a larger set.
Agree(f, g, S) == \A s \in SUBSET S : f[s] = g[s]

LEMMA AddsAgree ==
  ASSUME NEW R, NEW S, IsFiniteSet(R), S \subseteq R,
         NEW f, Adds(f, SUBSET S), NEW g, Adds(g, SUBSET R)
  PROVE  Agree(f, g, S)
<1> DEFINE T == {n \in Nat : \A s \in SUBSET S : Cardinality(s) = n => f[s] = g[s]}
<1>0. \A s \in SUBSET S : IsFiniteSet(s) /\ Cardinality(s) \in Nat
  BY FS_Subset, FS_CardinalityType
<1>1. 0 \in T
  <2> SUFFICES ASSUME NEW s \in SUBSET S, Cardinality(s) = 0 PROVE f[s] = g[s]
    OBVIOUS
  <2>1. s = {}
    BY <1>0, FS_EmptySet
  <2> QED
    BY <2>1 DEF Adds
<1>2. ASSUME NEW n \in Nat, n \in T PROVE n + 1 \in T
  <2> SUFFICES ASSUME NEW s \in SUBSET S, Cardinality(s) = n + 1 PROVE f[s] = g[s]
    OBVIOUS
  <2> DEFINE y == Some(s)
  <2>1. s # {}
    BY <1>0, FS_EmptySet
  <2>2. y \in s
    BY <2>1 DEF Some
  <2>3. f[s] = Price(y) + f[s \ {y}] /\ g[s] = Price(y) + g[s \ {y}]
    BY <2>1 DEF Adds
  <2> HIDE DEF y
  <2>4. Cardinality(s \ {y}) = n /\ s \ {y} \in SUBSET S
    BY <1>0, <2>2, Smaller
  <2>5. f[s \ {y}] = g[s \ {y}]
    BY <1>2, <2>4
  <2> QED
    BY <2>3, <2>5
<1> HIDE DEF T
<1>3. \A n \in Nat : n \in T
  BY <1>1, <1>2, Induction
<1> QED
  BY <1>0, <1>3 DEF T, Agree

LEMMA CostNone == Cost({}) = 0
<1>1. PICK f : Adds(f, SUBSET {}) /\ Cost({}) = f[{}]
  BY CostHas, FS_EmptySet
<1> QED
  BY <1>1 DEF Adds

LEMMA CostTyped ==
  ASSUME NEW S, IsFiniteSet(S), \A u \in S : Price(u) \in Int
  PROVE  Cost(S) \in Int
<1>1. PICK f : Adds(f, SUBSET S) /\ Cost(S) = f[S]
  BY CostHas
<1> QED
  BY <1>1, AddsTyped

\* The sums over a set and over a larger one.
LEMMA CostWithin ==
  ASSUME NEW S, NEW R, IsFiniteSet(R), S \subseteq R
  PROVE  \E g : Adds(g, SUBSET R) /\ Cost(R) = g[R] /\ Cost(S) = g[S]
<1>1. IsFiniteSet(S)
  BY FS_Subset
<1>2. PICK f : Adds(f, SUBSET S) /\ Cost(S) = f[S]
  BY <1>1, CostHas
<1>3. PICK g : Adds(g, SUBSET R) /\ Cost(R) = g[R]
  BY CostHas
<1>4. f[S] = g[S]
  <2>1. Agree(f, g, S)
    BY <1>2, <1>3, AddsAgree
  <2>2. S \in SUBSET S
    OBVIOUS
  <2> QED
    BY <2>1, <2>2 DEF Agree
<1> QED
  BY <1>2, <1>3, <1>4

\* One instant more costs its price more.
LEMMA CostAdd ==
  ASSUME NEW S, IsFiniteSet(S), \A u \in S : Price(u) \in Int,
         NEW x, x \notin S, Price(x) \in Int
  PROVE  Cost(S \cup {x}) = Cost(S) + Price(x)
<1> DEFINE R == S \cup {x}
<1>0. IsFiniteSet(R) /\ S \subseteq R /\ R \ {x} = S /\ x \in R
  BY FS_AddElement
<1>p. \A u \in R : Price(u) \in Int
  OBVIOUS
<1> HIDE DEF R
<1>1. PICK g : Adds(g, SUBSET R) /\ Cost(R) = g[R] /\ Cost(S) = g[S]
  BY <1>0, CostWithin
<1>2. g[R] = Price(x) + g[R \ {x}]
  <2>1. AnyOrder(g, R)
    BY <1>0, <1>p, <1>1, AddsAny
  <2> QED
    BY <1>0, <2>1 DEF AnyOrder
<1>3. Cost(S) \in Int
  BY CostTyped
<1>4. Cost(R) = Price(x) + Cost(S)
  BY <1>0, <1>1, <1>2, Zenon
<1>5. Cost(R) = Cost(S) + Price(x)
  BY <1>3, <1>4
<1> QED
  BY <1>5 DEF R

-----------------------------------------------------------------------------
(* What a session costs.                                                   *)

\* All instants of S have a price; the k ones from a on have the price v, and
\* are none of S.
Priced(S) == \A u \in S : Price(u) \in Int

Block(S, a, k, v) == \A u \in a..(a + k - 1) : u \notin S /\ Price(u) = v

\* k instants of the same price cost k times as much.
LEMMA CostBlock ==
  ASSUME NEW S, IsFiniteSet(S), Priced(S),
         NEW a \in Int, NEW k \in Nat, NEW v \in Int, Block(S, a, k, v)
  PROVE  /\ IsFiniteSet(S \cup a..(a + k - 1))
         /\ Cost(S \cup a..(a + k - 1)) = Cost(S) + v * k
         /\ Cardinality(S \cup a..(a + k - 1)) = Cardinality(S) + k
<1> DEFINE With(j) == S \cup a..(a + j - 1)
           Right(j) == /\ IsFiniteSet(With(j))
                       /\ Cost(With(j)) = Cost(S) + v * j
                       /\ Cardinality(With(j)) = Cardinality(S) + j
           T == {j \in Nat : j <= k => Right(j)}
<1>p. /\ \A u \in S : Price(u) \in Int
      /\ \A u \in a..(a + k - 1) : u \notin S /\ Price(u) = v
  BY DEF Priced, Block
<1>0. Cost(S) \in Int /\ Cardinality(S) \in Nat
  BY <1>p, CostTyped, FS_CardinalityType
<1>1. 0 \in T
  <2>1. With(0) = S
    OBVIOUS
  <2> HIDE DEF With
  <2>2. v * 0 = 0
    OBVIOUS
  <2> QED
    BY <1>0, <2>1, <2>2
<1>2. ASSUME NEW j \in Nat, j \in T PROVE j + 1 \in T
  <2> SUFFICES ASSUME j + 1 <= k PROVE Right(j + 1)
    <3>1. j + 1 \in Nat
      OBVIOUS
    <3> HIDE DEF Right
    <3> QED
      BY <3>1
  <2> DEFINE x == a + j
  <2>1. Right(j)
    BY <1>2
  <2>2. With(j + 1) = With(j) \cup {x} /\ x \notin With(j) /\ x \in a..(a + k - 1)
    <3>1. x \in a..(a + k - 1)
      OBVIOUS
    <3>2. x \notin S
      BY <1>p, <3>1
    <3>3. x \notin a..(a + j - 1)
      OBVIOUS
    <3>4. a..(a + (j + 1) - 1) = a..(a + j - 1) \cup {x}
      OBVIOUS
    <3> QED
      BY <3>1, <3>2, <3>3, <3>4
  <2>3. \A u \in With(j) : Price(u) \in Int
    <3>1. \A u \in a..(a + j - 1) : u \in a..(a + k - 1)
      OBVIOUS
    <3> QED
      BY <1>p, <3>1
  <2>4. Price(x) = v
    BY <1>p, <2>2
  <2> HIDE DEF With, x
  <2>5. Cost(With(j + 1)) = Cost(With(j)) + v
    BY <2>1, <2>2, <2>3, <2>4, CostAdd
  <2>6. IsFiniteSet(With(j + 1)) /\ Cardinality(With(j + 1)) = Cardinality(With(j)) + 1
    BY <2>1, <2>2, FS_AddElement
  <2>7. v * (j + 1) = v * j + v /\ v * j \in Int
    OBVIOUS
  <2>8. Cost(With(j + 1)) = Cost(S) + v * (j + 1)
    BY <1>0, <2>1, <2>5, <2>7
  <2>9. Cardinality(With(j + 1)) = Cardinality(S) + (j + 1)
    BY <1>0, <2>1, <2>6
  <2> QED
    BY <2>6, <2>8, <2>9
<1> HIDE DEF T
<1>3. \A j \in Nat : j \in T
  BY <1>1, <1>2, Induction
<1>4. k \in T
  BY <1>3
<1> QED
  BY <1>4 DEF T

LEMMA Quotient ==
  ASSUME NEW u \in Nat
  PROVE  /\ u \div SlotUnits \in Nat
         /\ (u \div SlotUnits) * SlotUnits <= u /\ u < (u \div SlotUnits + 1) * SlotUnits
BY SessionPriceAssumption

LEMMA SlotOf ==
  ASSUME NEW u \in Nat, NEW i \in Nat, i * SlotUnits <= u, u < (i + 1) * SlotUnits
  PROVE  u \div SlotUnits = i
<1>1. SlotUnits \in Nat \ {0}
  BY SessionPriceAssumption
<1> DEFINE q == u \div SlotUnits
<1>2. q \in Nat /\ q * SlotUnits <= u /\ u < (q + 1) * SlotUnits
  BY <1>1
<1> HIDE DEF q
<1>3. ~(q < i)
  <2> SUFFICES ASSUME q < i PROVE FALSE
    OBVIOUS
  <2>1. (q + 1) * SlotUnits <= i * SlotUnits
    BY <1>1, <1>2
  <2> QED
    BY <1>1, <1>2, <2>1
<1>4. ~(i < q)
  <2> SUFFICES ASSUME i < q PROVE FALSE
    OBVIOUS
  <2>1. (i + 1) * SlotUnits <= q * SlotUnits
    BY <1>1, <1>2
  <2> QED
    BY <1>1, <1>2, <2>1
<1>5. q = i
  BY <1>2, <1>3, <1>4
<1> QED
  BY <1>5 DEF q

LEMMA MaxPair ==
  ASSUME NEW a \in Int, NEW b \in Int
  PROVE  Max({a, b}) = IF a >= b THEN a ELSE b
<1>1. \E x \in {a, b} : \A y \in {a, b} : x >= y
  BY SMT
<1> QED
  BY <1>1 DEF Max

LEMMA MinPair ==
  ASSUME NEW a \in Int, NEW b \in Int
  PROVE  Min({a, b}) = IF a <= b THEN a ELSE b
<1>1. \E x \in {a, b} : \A y \in {a, b} : x =< y
  BY SMT
<1> QED
  BY <1>1 DEF Min

\* The instants of the session that lie in the first i slots.
Part(start, end, i) == {u \in start..(end - 1) : u < i * SlotUnits}

\* What they cost, and how many they are.
Spent(start, end, i) == [sum  |-> Cost(Part(start, end, i)),
                         time |-> Cardinality(Part(start, end, i))]

LEMMA WeightIs ==
  ASSUME prices \in Seq(Int), NEW start \in Nat, NEW end \in Nat, start < end,
         NEW i \in 1..Len(prices), IsFiniteSet(Part(start, end, i - 1)),
         NEW acc, acc = Spent(start, end, i - 1)
  PROVE  /\ IsFiniteSet(Part(start, end, i))
         /\ Weight(acc, i, start, end) = Spent(start, end, i)
<1> DEFINE low  == (i - 1) * SlotUnits
           high == i * SlotUnits
           a == Max({start, low})
           b == Min({end, high})
           old == Part(start, end, i - 1)
           new == Part(start, end, i)
<1>1. /\ i \in Nat \ {0} /\ i - 1 \in Nat /\ prices[i] \in Int /\ Len(prices) \in Nat
      /\ \A j \in 1..Len(prices) : prices[j] \in Int
  BY LenProperties, ElementOfSeq
<1>2. SlotUnits \in Nat \ {0}
  BY SessionPriceAssumption
<1>3. low \in Nat /\ high \in Nat /\ high = low + SlotUnits
  BY <1>1, <1>2
<1>4. /\ a = IF start >= low THEN start ELSE low
      /\ b = IF end <= high THEN end ELSE high
  <2>1. start \in Int /\ end \in Int /\ low \in Int /\ high \in Int
    BY <1>3
  <2> HIDE DEF low, high
  <2>2. Max({start, low}) = IF start >= low THEN start ELSE low
    BY <2>1, MaxPair
  <2>3. Min({end, high}) = IF end <= high THEN end ELSE high
    BY <2>1, MinPair
  <2> QED
    BY <2>2, <2>3
<1>5. /\ old = {u \in start..(end - 1) : u < low}
      /\ new = {u \in start..(end - 1) : u < high}
  BY DEF Part
<1>6. Weight(acc, i, start, end) =
        IF low < end /\ high > start
          THEN [sum |-> acc.sum + prices[i] * (b - a), time |-> acc.time + (b - a)]
          ELSE acc
  BY DEF Weight
<1>p. \A u \in old : Price(u) \in Int
  <2> SUFFICES ASSUME NEW u \in old PROVE Price(u) \in Int
    OBVIOUS
  <2>1. u \in Nat /\ u < (i - 1) * SlotUnits
    BY DEF Part
  <2> DEFINE q == u \div SlotUnits
  <2>2. q \in Nat /\ q * SlotUnits <= u
    BY <1>2, <2>1, Quotient
  <2>3. q < i - 1
    <3> HIDE DEF q
    <3> SUFFICES ASSUME i - 1 <= q PROVE FALSE
      BY <1>1, <2>2
    <3> DEFINE p == i - 1
    <3>0. p \in Nat /\ p <= q /\ u < p * SlotUnits
      BY <1>1, <2>1
    <3> HIDE DEF p
    <3>1. p * SlotUnits <= q * SlotUnits
      BY <1>2, <2>2, <3>0
    <3>2. p * SlotUnits \in Nat /\ q * SlotUnits \in Nat
      BY <1>2, <2>2, <3>0
    <3> QED
      BY <2>1, <2>2, <3>0, <3>1, <3>2
  <2>4. q + 1 \in 1..Len(prices)
    BY <1>1, <2>2, <2>3
  <2> QED
    BY <1>1, <2>4 DEF Price
<1>b. ASSUME NEW u \in Nat, low <= u, u < high PROVE Price(u) = prices[i]
  <2>1. u \div SlotUnits = i - 1
    <3>1. (i - 1) * SlotUnits <= u /\ u < ((i - 1) + 1) * SlotUnits
      BY <1>1, <1>b
    <3> QED
      BY <1>1, <3>1, SlotOf
  <2> QED
    BY <1>1, <2>1 DEF Price
<1>7. CASE low < end /\ high > start
  <2> DEFINE k == b - a
  <2>1. k \in Nat /\ a \in Nat /\ b = a + k
    BY <1>2, <1>3, <1>4, <1>7
  <2>2. new = old \cup a..(a + k - 1)
    <3> HIDE DEF low, high, a, b, old, new
    <3>1. a..(a + k - 1) = a..(b - 1)
      BY <2>1
    <3>2. \A u : u \in new <=> u \in old \/ u \in a..(b - 1)
      BY <1>2, <1>3, <1>4, <1>5, <1>7, <2>1
    <3> QED
      BY <3>1, <3>2
  <2>3. Block(old, a, k, prices[i])
    <3> SUFFICES ASSUME NEW u \in a..(a + k - 1) PROVE u \notin old /\ Price(u) = prices[i]
      BY DEF Block
    <3> HIDE DEF low, high, a, b, old, new, k
    <3>1. u \in Nat /\ low <= u /\ u < high
      BY <1>3, <1>4, <1>7, <2>1
    <3> QED
      BY <1>3, <1>5, <1>b, <3>1
  <2> HIDE DEF low, high, a, b, old, new, k
  <2>4. /\ IsFiniteSet(old \cup a..(a + k - 1))
        /\ Cost(old \cup a..(a + k - 1)) = Cost(old) + prices[i] * k
        /\ Cardinality(old \cup a..(a + k - 1)) = Cardinality(old) + k
    <3>1. IsFiniteSet(old)
      BY DEF old
    <3>2. a \in Int /\ k \in Nat /\ prices[i] \in Int
      BY <1>1, <2>1
    <3>3. Priced(old)
      BY <1>p DEF Priced
    <3> QED
      BY <2>3, <3>1, <3>2, <3>3, CostBlock
  <2>5. acc.sum = Cost(old) /\ acc.time = Cardinality(old)
    BY DEF old, Spent
  <2>6. Weight(acc, i, start, end) = [sum |-> Cost(new), time |-> Cardinality(new)]
    BY <1>6, <1>7, <2>2, <2>4, <2>5 DEF k
  <2>7. IsFiniteSet(new)
    BY <2>2, <2>4
  <2> QED
    BY <2>6, <2>7 DEF new, Spent
<1>8. CASE ~(low < end /\ high > start)
  <2>1. new = old
    <3> HIDE DEF low, high, a, b, old, new
    <3>1. \A u : u \in new <=> u \in old
      BY <1>2, <1>3, <1>5, <1>8
    <3> QED
      BY <3>1
  <2>2. Weight(acc, i, start, end) = acc
    BY <1>6, <1>8
  <2> QED
    BY <2>1, <2>2 DEF Spent
<1> QED
  BY <1>7, <1>8

\* f holds the sums over up to n slots.
Weights(f, start, end, n) ==
  f = [i \in 0..n |-> IF i = 0 THEN [sum |-> 0, time |-> 0] ELSE Weight(f[i - 1], i, start, end)]

LEMMA WeightsExist ==
  ASSUME NEW start, NEW end PROVE \A n \in Nat : \E f : Weights(f, start, end, n)
<1> DEFINE T == {n \in Nat : \E f : Weights(f, start, end, n)}
<1>1. 0 \in T
  <2>1. Weights([i \in 0..0 |-> [sum |-> 0, time |-> 0]], start, end, 0)
    BY DEF Weights
  <2> QED
    BY <2>1
<1>2. ASSUME NEW n \in Nat, n \in T PROVE n + 1 \in T
  <2>1. PICK f : Weights(f, start, end, n)
    BY <1>2
  <2> DEFINE g == [i \in 0..(n + 1) |-> IF i = n + 1 THEN Weight(f[n], i, start, end) ELSE f[i]]
  <2>2. ASSUME NEW i \in 0..(n + 1)
        PROVE  g[i] = IF i = 0 THEN [sum |-> 0, time |-> 0]
                               ELSE Weight(g[i - 1], i, start, end)
    BY <2>1 DEF Weights
  <2>3. Weights(g, start, end, n + 1)
    BY <2>2 DEF Weights
  <2> QED
    BY <2>3
<1> HIDE DEF T
<1>3. \A n \in Nat : n \in T
  BY <1>1, <1>2, Induction
<1> QED
  BY <1>3 DEF T

LEMMA AverageIs ==
  ASSUME NEW start, NEW end
  PROVE  Average(start, end) = (CHOOSE f : Weights(f, start, end, Len(prices)))[Len(prices)]
BY DEF Average, Weights

\* calculateAveragePrice adds up the priced instants of the session.
LEMMA AverageAddsUp ==
  ASSUME prices \in Seq(Int), NEW start \in Nat, NEW end \in Nat, start < end
  PROVE  Average(start, end) = Spent(start, end, Len(prices))
<1>0. Len(prices) \in Nat
  BY LenProperties
<1>1. PICK f : Weights(f, start, end, Len(prices)) /\ Average(start, end) = f[Len(prices)]
  <2>1. \E f : Weights(f, start, end, Len(prices))
    BY <1>0, WeightsExist
  <2>2. Weights(CHOOSE f : Weights(f, start, end, Len(prices)), start, end, Len(prices))
    BY <2>1
  <2> QED
    BY <2>2, AverageIs
<1> DEFINE Right(i) == IsFiniteSet(Part(start, end, i)) /\ f[i] = Spent(start, end, i)
           T == {i \in Nat : i <= Len(prices) => Right(i)}
<1>2. 0 \in T
  <2>1. Part(start, end, 0) = {}
    BY SessionPriceAssumption DEF Part
  <2>2. f[0] = [sum |-> 0, time |-> 0]
    BY <1>0, <1>1 DEF Weights
  <2>3. Right(0)
    BY <2>1, <2>2, CostNone, FS_EmptySet DEF Spent
  <2> QED
    BY <2>3
<1>3. ASSUME NEW n \in Nat, n \in T PROVE n + 1 \in T
  <2>0. ASSUME n + 1 <= Len(prices) PROVE Right(n + 1)
    <3>1. \A i : i = n + 1 => Right(i)
      <4> SUFFICES ASSUME NEW i, i = n + 1 PROVE Right(i)
        OBVIOUS
      <4>1. i \in 1..Len(prices) /\ i - 1 = n
        BY <1>0, <2>0
      <4>2. Right(i - 1)
        BY <1>0, <1>3, <2>0, <4>1
      <4>3. f[i] = Weight(f[i - 1], i, start, end)
        BY <1>0, <1>1, <4>1 DEF Weights
      <4>4. /\ IsFiniteSet(Part(start, end, i))
            /\ Weight(f[i - 1], i, start, end) = Spent(start, end, i)
        BY <4>1, <4>2, WeightIs
      <4> QED
        BY <4>3, <4>4
    <3> QED
      BY <3>1
  <2> HIDE DEF Right
  <2> QED
    BY <2>0
<1> HIDE DEF T
<1>4. \A n \in Nat : n \in T
  BY <1>2, <1>3, Induction
<1>5. Right(Len(prices))
  BY <1>0, <1>4 DEF T
<1> QED
  BY <1>1, <1>5

-----------------------------------------------------------------------------
(* Sessions.                                                               *)

\* What the properties of a settled session say, of prices.
Mean(s) ==
  /\ s.time = Cardinality(Part(s.start, s.end, Len(prices)))
  /\ s.sum = Cost(Part(s.start, s.end, Len(prices)))

PriceIInv == IInv /\ \A s \in paid : Mean(s)

LEMMA PlanStep == ASSUME PriceNext \/ UNCHANGED allVars PROVE [Next]_vars
BY DEF PriceNext, Settle, allVars, Next

LEMMA SamePrices ==
  ASSUME prices' = prices
  PROVE  \A s : Mean(s)' <=> Mean(s)
<1>1. \A S : Cost(S)' = Cost(S)
  BY DEF Cost, MapThenSumSet, MapThenFoldSet
<1>2. \A a, b, i : Part(a, b, i)' = Part(a, b, i)
  BY DEF Part
<1> QED
  BY <1>1, <1>2 DEF Mean, Part

LEMMA PriceInvStep == PriceIInv /\ [PriceNext]_allVars => PriceIInv'
<1> SUFFICES ASSUME PriceIInv, [PriceNext]_allVars PROVE PriceIInv'
  OBVIOUS
<1>1. IInv'
  BY PlanStep, InvStep DEF PriceIInv
<1>2. prices' = prices
  BY DEF PriceNext, Settle, FindCycle, vars, allVars
<1>3. CASE UNCHANGED paid
  BY <1>1, <1>2, <1>3, SamePrices DEF PriceIInv
<1>4. CASE Settle
  <2>1. PICK i \in DOMAIN cycles :
          LET first == (cycles[i].charge - 1) * SlotUnits
              last  == first + chargeSize * SlotUnits
          IN  \E start \in first..(last - 1), end \in (first + 1)..(last + Delay) :
                /\ start < end
                /\ paid' = {[start |-> start, end |-> end, sum |-> Average(start, end).sum,
                             time |-> Average(start, end).time]}
    BY <1>4 DEF Settle
  <2> DEFINE first == (cycles[i].charge - 1) * SlotUnits
             last  == first + chargeSize * SlotUnits
  <2>2. first \in Nat /\ last \in Nat
    <3>1. cycles[i].charge \in Nat \ {0} /\ chargeSize \in Nat
      <4>1. /\ cycles \in Seq([charge : Nat \ {0}, discharge : Nat \ {0}])
            /\ chargeSize \in Nat
        BY DEF PriceIInv, IInv, Typed
      <4>2. i \in 1..Len(cycles)
        BY <2>1, <4>1, LenProperties
      <4>3. cycles[i] \in [charge : Nat \ {0}, discharge : Nat \ {0}]
        BY <4>1, <4>2, ElementOfSeq
      <4> QED
        BY <4>1, <4>3
    <3>2. cycles[i].charge - 1 \in Nat /\ SlotUnits \in Nat
      BY <3>1, SessionPriceAssumption
    <3> QED
      BY <3>1, <3>2
  <2>3. PICK start \in first..(last - 1), end \in (first + 1)..(last + Delay) :
          /\ start < end
          /\ paid' = {[start |-> start, end |-> end, sum |-> Average(start, end).sum,
                       time |-> Average(start, end).time]}
    BY <2>1
  <2> HIDE DEF first, last
  <2>4. start \in Nat /\ end \in Nat
    BY <2>2, <2>3, SessionPriceAssumption
  <2>5. prices \in Seq(Int)
    BY DEF PriceIInv, IInv, Typed
  <2>6. Average(start, end) = Spent(start, end, Len(prices))
    BY <2>3, <2>4, <2>5, AverageAddsUp
  <2>7. \A s \in paid' : Mean(s)
    BY <2>3, <2>6 DEF Mean, Spent
  <2> QED
    BY <1>1, <1>2, <2>7, SamePrices DEF PriceIInv
<1> QED
  BY <1>3, <1>4 DEF PriceNext, allVars

(***************************************************************************)
(* A session costs the mean price of its instants, whichever slots it      *)
(* begins and ends in, for lists, slots and sessions of any length.        *)
(***************************************************************************)
THEOREM AveragesRight == PriceSpec => []AverageIsMean
<1>1. PriceInit => PriceIInv
  BY InitHolds DEF PriceInit, PriceIInv
<1>2. PriceIInv => AverageIsMean
  BY DEF PriceIInv, Mean, AverageIsMean, Part, Cost
<1> QED
  BY <1>1, <1>2, PriceInvStep, PTL DEF PriceSpec

(***************************************************************************)
(* The plan the sessions follow is the analyzer's.                         *)
(***************************************************************************)
THEOREM SessionsFollowPlan == PriceSpec => Spec
<1>1. PriceInit => Init
  BY DEF PriceInit
<1>2. [PriceNext]_allVars => [Next]_vars
  BY PlanStep
<1> QED
  BY <1>1, <1>2, PTL DEF PriceSpec, Spec
===============================================================================
