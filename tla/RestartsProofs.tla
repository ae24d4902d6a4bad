---------------------------- MODULE RestartsProofs ----------------------------
(***************************************************************************)
(* The trade file, for any number of trades, crashes and failed saves; then*)
(* the chat and the trade file together, for any number of updates, trades *)
(* and restarts, and answers of any size.                                  *)
(***************************************************************************)
EXTENDS Restarts, SequenceTheorems, FiniteSetTheorems, WellFoundedInduction, TLAPS

\* A list of whole trades, each once and in their order.
Ledger(list) ==
  /\ \A i \in DOMAIN list : list[i] # 0
  /\ \A i, j \in DOMAIN list : i < j => list[i] < list[j]

\* The list in memory extends the file it was read from, and ends with the
\* trade that is being saved.
Memory ==
  /\ pc \in {"down", "load"} => trades = <<>>
  /\ unread \/ pc \notin {"ready", "write", "rename"} \/ IsPrefix(file, trades)
  /\ pc \in {"write", "rename"} => trades # <<>> /\ trades[Len(trades)] = last
  /\ pc = "rename" => tmp = trades

IInv == TypeOK /\ Ledger(file) /\ Ledger(trades) /\ Memory /\ AckedOnDisk

-----------------------------------------------------------------------------
(* About lists.                                                            *)

LEMMA PrefixDef ==
  ASSUME NEW S, NEW s \in Seq(S), NEW t \in Seq(S)
  PROVE  IsPrefix(s, t) <=> Len(s) <= Len(t) /\ \A i \in 1..Len(s) : s[i] = t[i]
<1>0. Len(s) \in Nat /\ Len(t) \in Nat
  BY LenProperties
<1>1. CASE Len(s) <= Len(t)
  <2>1. SubSeq(s, 1, Len(s)) = s
    BY SubSeqFull
  <2>2. \A i \in 1..Len(s) : t[i] \in S
    BY <1>0, <1>1, ElementOfSeq
  <2>3. /\ SubSeq(t, 1, Len(s)) \in Seq(S)
        /\ Len(SubSeq(t, 1, Len(s))) = Len(s)
        /\ \A i \in 1..Len(s) : SubSeq(t, 1, Len(s))[i] = t[i]
    BY <1>0, <1>1, <2>2
  <2> QED
    BY <1>1, <2>1, <2>3, SeqEqual DEF IsPrefix
<1>2. CASE ~(Len(s) <= Len(t))
  BY <1>2 DEF IsPrefix
<1> QED
  BY <1>1, <1>2

LEMMA PrefixReflexive ==
  ASSUME NEW S, NEW s \in Seq(S)
  PROVE  IsPrefix(s, s)
BY PrefixDef, LenProperties

LEMMA PrefixAppend ==
  ASSUME NEW S, NEW s \in Seq(S), NEW t \in Seq(S), NEW e \in S, IsPrefix(s, t)
  PROVE  IsPrefix(s, Append(t, e))
<1>1. /\ Append(t, e) \in Seq(S) /\ Len(Append(t, e)) = Len(t) + 1
      /\ \A i \in 1..Len(t) : Append(t, e)[i] = t[i]
  OBVIOUS
<1>2. Len(s) \in Nat /\ Len(t) \in Nat
  BY LenProperties
<1>3. Len(s) <= Len(t) /\ \A i \in 1..Len(s) : s[i] = t[i]
  BY PrefixDef
<1>4. Len(s) <= Len(Append(t, e)) /\ \A i \in 1..Len(s) : s[i] = Append(t, e)[i]
  BY <1>1, <1>2, <1>3
<1> QED
  BY <1>1, <1>4, PrefixDef

LEMMA PrefixListed ==
  ASSUME NEW S, NEW s \in Seq(S), NEW t \in Seq(S), IsPrefix(s, t)
  PROVE  Listed(s) \subseteq Listed(t)
BY PrefixDef, LenProperties DEF Listed

\* A longer list of types stays one when a trade is numbered.
LEMMA Numbered ==
  ASSUME NEW n \in Nat, NEW low \in Nat, NEW s \in Seq(low..n)
  PROVE  s \in Seq(low..(n + 1))
<1>1. low..n \subseteq low..(n + 1)
  OBVIOUS
<1> QED
  BY <1>1, SeqMonotonic

LEMMA LedgerTyped ==
  ASSUME NEW n \in Nat, NEW s \in Seq(0..n), Ledger(s)
  PROVE  s \in Seq(1..n)
<1>1. Len(s) \in Nat /\ DOMAIN s = 1..Len(s) /\ s = [i \in 1..Len(s) |-> s[i]]
  BY LenProperties
<1>2. \A i \in 1..Len(s) : s[i] \in 1..n
  BY <1>1, ElementOfSeq DEF Ledger
<1>3. s \in [1..Len(s) -> 1..n]
  BY <1>1, <1>2
<1> QED
  BY <1>1, <1>3, SeqDef

LEMMA LedgerAppend ==
  ASSUME NEW n \in Nat, NEW s \in Seq(1..n), Ledger(s)
  PROVE  Ledger(Append(s, n + 1))
<1> DEFINE r == Append(s, n + 1)
<1>1. Len(s) \in Nat /\ DOMAIN s = 1..Len(s) /\ \A i \in 1..Len(s) : s[i] \in 1..n
  BY LenProperties, ElementOfSeq
<1>2. /\ DOMAIN r = 1..(Len(s) + 1) /\ r[Len(s) + 1] = n + 1
      /\ \A i \in 1..Len(s) : r[i] = s[i]
  BY <1>1
<1> HIDE DEF r
<1>3. \A i \in DOMAIN r : r[i] # 0
  BY <1>1, <1>2 DEF Ledger
<1>4. ASSUME NEW i \in DOMAIN r, NEW j \in DOMAIN r, i < j PROVE r[i] < r[j]
  <2>1. CASE j \in 1..Len(s)
    <3>1. i \in DOMAIN s /\ j \in DOMAIN s /\ r[i] = s[i] /\ r[j] = s[j]
      BY <1>1, <1>2, <1>4, <2>1
    <3> QED
      BY <1>4, <3>1 DEF Ledger
  <2>2. CASE j = Len(s) + 1
    <3>1. i \in 1..Len(s) /\ r[i] = s[i] /\ s[i] \in 1..n
      BY <1>1, <1>2, <1>4, <2>2
    <3> QED
      BY <1>2, <2>2, <3>1
  <2> QED
    BY <1>1, <1>2, <2>1, <2>2
<1>5. Ledger(r)
  BY <1>3, <1>4 DEF Ledger
<1> QED
  BY <1>5 DEF r

-----------------------------------------------------------------------------
(* The invariant.                                                          *)

LEMMA InitHolds == Init => IInv
<1> SUFFICES ASSUME Init PROVE IInv
  OBVIOUS
<1> USE DEF Init
<1>1. TypeOK
  <2>1. <<>> \in Seq(1..0) /\ <<>> \in Seq(0..0)
    BY EmptySeq
  <2>2. last = 0 /\ last \in 0..MaxTrades
    BY RecorderAssumption
  <2> QED
    BY <2>1, <2>2 DEF TypeOK
<1>2. Ledger(<<>>)
  BY EmptySeq DEF Ledger
<1>3. Memory /\ AckedOnDisk
  BY DEF Memory, AckedOnDisk, Listed
<1> QED
  BY <1>1, <1>2, <1>3 DEF IInv

LEMMA TypeStep == IInv /\ [Next]_vars => TypeOK'
<1> SUFFICES ASSUME IInv, [Next]_vars PROVE TypeOK'
  OBVIOUS
<1> USE DEF IInv, TypeOK
<1>0. last \in Nat /\ MaxTrades \in Nat /\ <<>> \in Seq(1..last) /\ Torn \in Seq(0..last)
      /\ <<>> \in Seq(0..last)
  BY RecorderAssumption, EmptySeq DEF Torn
<1>1. CASE Start
  BY <1>1 DEF Start
<1>2. CASE LoadOk
  BY <1>2, <1>0, LedgerTyped DEF LoadOk
<1>3. CASE LoadFails
  BY <1>3 DEF LoadFails
<1>4. CASE RecordTrade
  <2>1. /\ last' = last + 1 /\ last' \in 0..MaxTrades /\ pc' = "write"
        /\ trades' = Append(trades, last + 1)
        /\ UNCHANGED <<file, tmp, acked, unread>>
    BY <1>4, <1>0 DEF RecordTrade
  <2>2. trades \in Seq(1..(last + 1)) /\ file \in Seq(0..(last + 1)) /\ tmp \in Seq(0..(last + 1))
    BY <1>0, Numbered
  <2>3. trades' \in Seq(1..last')
    BY <1>0, <2>1, <2>2
  <2>4. acked' \subseteq 1..last'
    BY <1>0, <2>1
  <2> QED
    BY <2>1, <2>2, <2>3, <2>4
<1>5. CASE WriteOk
  <2>1. trades \in Seq(0..last)
    BY <1>0, SeqMonotonic
  <2> QED
    BY <1>5, <2>1 DEF WriteOk
<1>6. CASE WriteFails
  BY <1>6, <1>0 DEF WriteFails
<1>7. CASE RenameOk
  <2>1. last \in 1..last
    <3>1. trades # <<>> /\ trades[Len(trades)] = last
      BY <1>7 DEF RenameOk, Memory
    <3>2. Len(trades) \in 1..Len(trades)
      BY <3>1, EmptySeq, LenProperties
    <3> QED
      BY <3>1, <3>2, ElementOfSeq
  <2> QED
    BY <1>7, <1>0, <2>1 DEF RenameOk
<1>8. CASE RenameFails
  BY <1>8, <1>0 DEF RenameFails
<1>9. CASE Crash
  BY <1>9, <1>0 DEF Crash
<1>10. CASE UNCHANGED vars
  BY <1>10 DEF vars
<1> QED
  BY <1>1, <1>2, <1>3, <1>4, <1>5, <1>6, <1>7, <1>8, <1>9, <1>10 DEF Next

LEMMA LedgersStep == IInv /\ [Next]_vars => Ledger(file)' /\ Ledger(trades)'
<1> SUFFICES ASSUME IInv, [Next]_vars PROVE Ledger(file') /\ Ledger(trades')
  BY DEF Ledger
<1> USE DEF IInv
<1>0. Ledger(<<>>)
  BY EmptySeq DEF Ledger
<1>1. CASE RecordTrade
  <2>1. last \in Nat /\ trades \in Seq(1..last)
    BY DEF TypeOK
  <2> QED
    BY <1>1, <2>1, LedgerAppend DEF RecordTrade
<1>2. CASE RenameOk
  BY <1>2 DEF RenameOk, Memory
<1>3. CASE Crash
  BY <1>3, <1>0 DEF Crash
<1>4. CASE LoadOk
  BY <1>4 DEF LoadOk
<1>5. CASE UNCHANGED <<file, trades>>
  BY <1>5
<1> QED
  BY <1>1, <1>2, <1>3, <1>4, <1>5
     DEF Next, vars, Start, LoadFails, WriteOk, WriteFails, RenameFails

LEMMA MemoryStep == IInv /\ [Next]_vars => Memory'
<1> SUFFICES ASSUME IInv, [Next]_vars PROVE Memory'
  OBVIOUS
<1> USE DEF IInv, Memory
<1>0. last \in Nat /\ file \in Seq(0..last) /\ trades \in Seq(1..last) /\ trades \in Seq(0..last)
  BY SeqMonotonic DEF TypeOK
<1>1. CASE Start
  BY <1>1 DEF Start
<1>2. CASE LoadOk
  BY <1>2, <1>0, PrefixReflexive DEF LoadOk
<1>3. CASE LoadFails
  BY <1>3 DEF LoadFails
<1>4. CASE RecordTrade
  <2>1. /\ pc = "ready" /\ pc' = "write" /\ last' = last + 1
        /\ trades' = Append(trades, last + 1) /\ file' = file /\ unread' = unread
    BY <1>4 DEF RecordTrade
  <2>2. trades' # <<>> /\ trades'[Len(trades')] = last'
    <3>1. /\ Append(trades, last + 1) # <<>>
          /\ Append(trades, last + 1)[Len(Append(trades, last + 1))] = last + 1
      <4>1. trades \in Seq(0..(last + 1)) /\ last + 1 \in 0..(last + 1)
        BY <1>0, Numbered
      <4>2. /\ Append(trades, last + 1) # <<>>
            /\ Len(Append(trades, last + 1)) = Len(trades) + 1
            /\ Append(trades, last + 1)[Len(trades) + 1] = last + 1
        BY <4>1, AppendProperties
      <4> QED
        BY <4>2
    <3> QED
      BY <2>1, <3>1
  <2>3. unread' \/ IsPrefix(file', trades')
    <3>1. file \in Seq(0..(last + 1)) /\ trades \in Seq(0..(last + 1)) /\ last + 1 \in 0..(last + 1)
      BY <1>0, Numbered
    <3> QED
      BY <2>1, <3>1, PrefixAppend
  <2> QED
    BY <2>1, <2>2, <2>3
<1>5. CASE WriteOk
  BY <1>5 DEF WriteOk
<1>6. CASE WriteFails
  BY <1>6 DEF WriteFails
<1>7. CASE RenameOk
  BY <1>7, <1>0, PrefixReflexive DEF RenameOk
<1>8. CASE RenameFails
  BY <1>8 DEF RenameFails
<1>9. CASE Crash
  BY <1>9 DEF Crash
<1>10. CASE UNCHANGED vars
  BY <1>10 DEF vars
<1> QED
  BY <1>1, <1>2, <1>3, <1>4, <1>5, <1>6, <1>7, <1>8, <1>9, <1>10 DEF Next

\* A file that was read is replaced only by one that extends it.
LEMMA GrowsStep == IInv /\ [Next]_vars => unread' \/ IsPrefix(file, file')
<1> SUFFICES ASSUME IInv, [Next]_vars PROVE unread' \/ IsPrefix(file, file')
  OBVIOUS
<1>1. CASE RenameOk
  BY <1>1 DEF RenameOk, IInv, Memory
<1>2. CASE file' = file
  BY <1>2, PrefixReflexive DEF IInv, TypeOK
<1> QED
  BY <1>1, <1>2
     DEF Next, vars, Start, LoadOk, LoadFails, RecordTrade, WriteOk, WriteFails, RenameFails, Crash

LEMMA AckedStep == IInv /\ [Next]_vars => AckedOnDisk'
<1> SUFFICES ASSUME IInv, [Next]_vars PROVE AckedOnDisk'
  OBVIOUS
<1>1. CASE RenameOk
  <2>1. /\ file' = trades /\ acked' = acked \cup {last} /\ unread' = unread
        /\ trades # <<>> /\ trades[Len(trades)] = last
        /\ unread \/ IsPrefix(file, trades)
    BY <1>1 DEF RenameOk, IInv, Memory
  <2>2. trades \in Seq(0..last) /\ file \in Seq(0..last)
    BY SeqMonotonic DEF IInv, TypeOK
  <2>3. Len(trades) \in DOMAIN trades
    BY <2>1, <2>2, EmptySeq, LenProperties
  <2>4. last \in Listed(trades)
    BY <2>1, <2>3 DEF Listed
  <2>5. unread \/ Listed(file) \subseteq Listed(trades)
    BY <2>1, <2>2, PrefixListed
  <2> QED
    BY <2>1, <2>4, <2>5 DEF AckedOnDisk, IInv, Listed
<1>2. CASE UNCHANGED <<file, acked>> /\ (unread' \/ unread' = unread)
  BY <1>2 DEF IInv, AckedOnDisk, Listed
<1> QED
  BY <1>1, <1>2
     DEF Next, vars, Start, LoadOk, LoadFails, RecordTrade, WriteOk, WriteFails, RenameFails, Crash

(***************************************************************************)
(* At every place of RecordTrade's save and of a start, file, temporary    *)
(* file and list fit together, whatever fails or dies.                     *)
(***************************************************************************)
THEOREM Invariance == Spec => []IInv
<1>1. IInv /\ [Next]_vars => IInv'
  <2>1. ASSUME IInv, [Next]_vars PROVE IInv'
    <3>1. TypeOK' /\ Ledger(file)' /\ Ledger(trades)' /\ Memory' /\ AckedOnDisk'
      BY <2>1, TypeStep, LedgersStep, MemoryStep, AckedStep
    <3> QED
      BY <3>1 DEF IInv
  <2> QED
    BY <2>1
<1> QED
  BY <1>1, InitHolds, PTL DEF Spec

(***************************************************************************)
(* The file, its temporary one and the list are lists of trades, or torn.  *)
(***************************************************************************)
THEOREM TypeCorrect == Spec => []TypeOK
BY Invariance, PTL DEF IInv

(* What RecordTrade acknowledged is in the file until a start cannot read  *)
(* it, and the file holds whole trades in their order in any case          *)
(* (recorder.go 257-296).                                                  *)
THEOREM KeptFile == Spec => []FileKept
<1>1. IInv => FileKept
  BY DEF IInv, FileKept, FileIsLedger, Ledger
<1> QED
  BY <1>1, Invariance, PTL

(* The file only grows until a start cannot read it.                       *)
THEOREM GrowingFile == Spec => FileGrows
<1>1. IInv /\ [Next]_vars => [unread' \/ IsPrefix(file, file')]_vars
  BY GrowsStep
<1> QED
  BY <1>1, Invariance, PTL DEF Spec, FileGrows

-----------------------------------------------------------------------------
(* The chat beside it.                                                     *)

\* What the offset stands for: all before it were brought by some poll.
Offset ==
  /\ todo \subseteq 1..lastUpdateID
  /\ Ours(1..lastUpdateID) \subseteq tried \cup todo
  /\ triedNow \subseteq 1..lastUpdateID /\ todo \cap triedNow = {}

\* Where commands are handled, and what an answer holds.
Handling ==
  /\ (chat = "handle") <=> (todo # {})
  /\ chat = "answered" =>
       /\ lastUpdateID <= confirmed
       /\ \A id \in answer : confirmed < id /\ (confirmed + 1)..id \subseteq answer

ChatInv == ChatTyped /\ Offset /\ Handling /\ CommandNotLost

-----------------------------------------------------------------------------
(* About sets of numbers.                                                  *)

LEMMA Smallest ==
  ASSUME NEW T \in SUBSET Nat, T # {}
  PROVE  \E m \in T : \A k \in T : m <= k
<1>1. PICK m \in T : \A k \in T : ~(<<k, m>> \in OpToRel(<, Nat))
  BY NatLessThanWellFounded, WFMin
<1>2. \A k \in T : k < m => <<k, m>> \in OpToRel(<, Nat)
  BY DEF OpToRel
<1>3. \A k \in T : ~(k < m)
  BY <1>1, <1>2, Zenon
<1> QED
  BY <1>3

LEMMA MinProperty ==
  ASSUME NEW T \in SUBSET Nat, T # {}
  PROVE  Min(T) \in T /\ \A k \in T : Min(T) <= k
BY Smallest DEF Min

LEMMA MaxProperty ==
  ASSUME NEW T \in SUBSET Nat, T # {}, NEW n \in Nat, \A k \in T : k <= n
  PROVE  Max(T) \in T /\ \A k \in T : k <= Max(T)
<1> DEFINE Above == {m \in Nat : \A k \in T : k <= m}
<1>1. n \in Above
  OBVIOUS
<1>2. PICK m \in Above : \A k \in Above : m <= k
  BY <1>1, Smallest
<1>3. m \in T
  <2> SUFFICES ASSUME m \notin T PROVE FALSE
    OBVIOUS
  <2>1. m \in Nat /\ \A k \in T : k < m
    BY <1>2
  <2>2. m > 0
    <3>1. PICK k \in T : k < m
      BY <2>1
    <3> QED
      BY <2>1, <3>1
  <2>3. m - 1 \in Nat /\ \A k \in T : k <= m - 1
    BY <2>1, <2>2
  <2>4. m - 1 \in Above
    BY <2>3
  <2> QED
    BY <1>2, <2>1, <2>4
<1>4. \E x \in T : \A y \in T : x >= y
  BY <1>2, <1>3
<1> QED
  BY <1>4 DEF Max

\* The oldest of an interval are an interval that begins with it.
LEMMA OldestFirst ==
  ASSUME NEW low \in Nat, NEW high \in Nat, NEW id \in Oldest(low..high)
  PROVE  id \in low..high /\ low..id \subseteq Oldest(low..high)
<1> DEFINE Before(k) == {i \in low..high : i < k}
<1>1. id \in low..high /\ Cardinality(Before(id)) < Batch
  BY DEF Oldest
<1>2. SUFFICES ASSUME NEW k \in low..id PROVE k \in Oldest(low..high)
  BY <1>1
<1>3. k \in low..high /\ Before(k) \subseteq Before(id) /\ Before(id) \subseteq low..high
  BY <1>1
<1>4. IsFiniteSet(Before(id)) /\ IsFiniteSet(Before(k))
  <2>1. IsFiniteSet(low..high)
    BY FS_Interval
  <2>2. Before(id) \in SUBSET (low..high) /\ Before(k) \in SUBSET (low..high)
    OBVIOUS
  <2> QED
    BY <2>1, <2>2, FS_Subset
<1>5. /\ Cardinality(Before(k)) <= Cardinality(Before(id))
      /\ Cardinality(Before(k)) \in Nat /\ Cardinality(Before(id)) \in Nat
  BY <1>3, <1>4, FS_Subset, FS_CardinalityType
<1>6. Cardinality(Before(k)) < Batch
  BY <1>1, <1>5, ChatAssumption DEF ChatAssumption
<1> QED
  BY <1>3, <1>6 DEF Oldest

-----------------------------------------------------------------------------
(* The chat.                                                               *)

LEMMA ChatInitHolds == ChatInit => ChatInv
BY EmptySeq, ChatAssumption
   DEF ChatInit, ChatInv, ChatTyped, Offset, Handling, CommandNotLost, Ours, Updates, ChatAssumption

\* An update more leaves the others as they are.
LEMMA WriteStep == ChatInv /\ Write => ChatInv'
<1> SUFFICES ASSUME ChatInv, Write PROVE ChatInv'
  OBVIOUS
<1> USE DEF ChatInv
<1>1. /\ kinds \in Seq({"ours", "other"}) /\ Len(kinds) \in Nat
      /\ confirmed \in 0..Len(kinds) /\ lastUpdateID \in 0..Len(kinds)
  BY LenProperties DEF ChatTyped
<1>2. PICK kind \in {"ours", "other"} : kinds' = Append(kinds, kind)
  BY DEF Write
<1>3. /\ kinds' \in Seq({"ours", "other"}) /\ Len(kinds') = Len(kinds) + 1
      /\ \A id \in 1..Len(kinds) : kinds'[id] = kinds[id]
  BY <1>1, <1>2
<1>4. Ours(1..confirmed)' = Ours(1..confirmed) /\ Ours(1..lastUpdateID)' = Ours(1..lastUpdateID)
  BY <1>1, <1>3 DEF Ours, Write
<1>5. Ours(Updates) \subseteq Ours(Updates)' /\ Updates \subseteq Updates'
  BY <1>1, <1>3 DEF Ours, Updates
<1>6. ChatTyped'
  <2>1. /\ Len(kinds) < MaxUpdates /\ MaxUpdates \in Nat
        /\ UNCHANGED <<confirmed, lastUpdateID, chat, answer, todo, tried, triedNow>>
    BY ChatAssumption DEF Write, ChatAssumption
  <2>2. kinds' \in Seq({"ours", "other"}) /\ Len(kinds') <= MaxUpdates
    BY <1>1, <1>3, <2>1
  <2>3. confirmed' \in 0..Len(kinds') /\ lastUpdateID' \in 0..Len(kinds')
    BY <1>1, <1>3, <2>1
  <2>4. answer' \subseteq Updates' /\ todo' \subseteq Ours(Updates)' /\ tried' \subseteq Ours(Updates)'
    BY <1>5, <2>1 DEF ChatTyped
  <2> QED
    BY <2>1, <2>2, <2>3, <2>4 DEF ChatTyped
<1>7. Offset' /\ CommandNotLost'
  BY <1>4 DEF Offset, CommandNotLost, Write
<1>8. Handling'
  BY DEF Handling, Write
<1> QED
  BY <1>6, <1>7, <1>8

LEMMA AnswerStep == ChatInv /\ Answer => ChatInv'
<1> SUFFICES ASSUME ChatInv, Answer PROVE ChatInv'
  OBVIOUS
<1> USE DEF ChatInv
<1> DEFINE upTo == IF lastUpdateID > confirmed THEN lastUpdateID ELSE confirmed
<1>1. /\ Len(kinds) \in Nat /\ confirmed \in 0..Len(kinds) /\ lastUpdateID \in 0..Len(kinds)
  BY LenProperties DEF ChatTyped
<1>2. /\ chat = "asked" /\ chat' = "answered" /\ confirmed' = upTo
      /\ answer' = Oldest((upTo + 1)..Len(kinds))
      /\ UNCHANGED <<kinds, lastUpdateID, todo, tried, triedNow>>
  BY DEF Answer
<1>3. todo = {}
  BY <1>2 DEF Handling
<1>4. upTo \in 0..Len(kinds) /\ lastUpdateID <= upTo
  BY <1>1
<1>5. answer' \subseteq Updates
  BY <1>1, <1>2, <1>4 DEF Oldest, Updates
<1>6. ChatTyped'
  BY <1>2, <1>4, <1>5 DEF ChatTyped, Updates, Ours
<1>7. Offset'
  BY <1>2 DEF Offset, Ours
<1>8. Handling'
  <2>1. \A id \in answer' : upTo < id /\ (upTo + 1)..id \subseteq answer'
    BY <1>1, <1>2, <1>4, OldestFirst
  <2> QED
    BY <1>2, <1>3, <1>4, <2>1 DEF Handling
<1>9. CommandNotLost'
  <2>1. Ours(1..upTo) \subseteq tried
    BY <1>3 DEF Offset, CommandNotLost
  <2> QED
    BY <1>2, <2>1 DEF CommandNotLost, Ours
<1> QED
  BY <1>6, <1>7, <1>8, <1>9

LEMMA AcceptStep == ChatInv /\ Accept => ChatInv'
<1> SUFFICES ASSUME ChatInv, Accept PROVE ChatInv'
  OBVIOUS
<1> USE DEF ChatInv
<1>1. /\ Len(kinds) \in Nat /\ confirmed \in 0..Len(kinds) /\ lastUpdateID \in 0..Len(kinds)
      /\ answer \subseteq 1..Len(kinds)
  BY LenProperties DEF ChatTyped, Updates
<1>2. /\ chat = "answered" /\ answer' = {} /\ todo' = Ours(answer)
      /\ lastUpdateID' = IF answer = {} THEN lastUpdateID ELSE Max(answer)
      /\ chat' = IF todo' = {} THEN "idle" ELSE "handle"
      /\ UNCHANGED <<kinds, confirmed, tried, triedNow>>
  BY DEF Accept
<1>3. /\ todo = {} /\ lastUpdateID <= confirmed
      /\ \A id \in answer : confirmed < id /\ (confirmed + 1)..id \subseteq answer
  BY <1>2 DEF Handling
<1>4. /\ lastUpdateID' \in 0..Len(kinds) /\ lastUpdateID <= lastUpdateID'
      /\ \A id \in answer : id <= lastUpdateID'
      /\ answer # {} => lastUpdateID' \in answer
  <2>1. CASE answer = {}
    BY <1>1, <1>2, <2>1
  <2>2. CASE answer # {}
    <3>1. answer \in SUBSET Nat /\ \A id \in answer : id <= Len(kinds)
      BY <1>1
    <3>2. Max(answer) \in answer /\ \A id \in answer : id <= Max(answer)
      BY <1>1, <2>2, <3>1, MaxProperty
    <3>3. lastUpdateID' = Max(answer)
      BY <1>2, <2>2
    <3>4. Max(answer) \in 1..Len(kinds) /\ confirmed < Max(answer)
      BY <1>1, <1>3, <3>2
    <3> QED
      BY <1>1, <1>3, <3>2, <3>3, <3>4
  <2> QED
    BY <2>1, <2>2
<1>5. todo' \subseteq Ours(Updates)
  BY <1>1, <1>2 DEF Ours, Updates
<1>6. ChatTyped'
  BY <1>2, <1>4, <1>5 DEF ChatTyped, Ours, Updates
<1>7. Offset'
  <2>1. todo' \subseteq 1..lastUpdateID' /\ triedNow \subseteq 1..lastUpdateID'
    <3>1. todo' \subseteq answer /\ triedNow \subseteq 1..lastUpdateID
      BY <1>2 DEF Offset, Ours
    <3> QED
      BY <1>1, <1>4, <3>1
  <2>2. todo' \cap triedNow = {}
    <3>1. SUFFICES ASSUME NEW k \in todo', k \in triedNow PROVE FALSE
      OBVIOUS
    <3>2. k \in answer /\ k \in 1..lastUpdateID
      BY <1>2, <3>1 DEF Offset, Ours
    <3>3. confirmed < k
      BY <1>3, <3>2
    <3> QED
      BY <1>1, <1>3, <3>2, <3>3
  <2>3. Ours(1..lastUpdateID') \subseteq tried \cup todo'
    <3>1. SUFFICES ASSUME NEW id \in 1..lastUpdateID', kinds[id] = "ours"
                   PROVE  id \in tried \cup todo'
      BY DEF Ours
    <3>2. CASE id <= confirmed
      BY <1>1, <1>4, <3>1, <3>2 DEF CommandNotLost, Ours
    <3>3. CASE id > confirmed /\ answer = {}
      BY <1>1, <1>2, <1>3, <3>3
    <3>4. CASE id > confirmed /\ answer # {}
      <4>1. id \in (confirmed + 1)..lastUpdateID'
        BY <1>1, <1>4, <3>4
      <4>2. id \in answer
        BY <1>3, <1>4, <3>4, <4>1
      <4> QED
        BY <1>2, <3>1, <4>2 DEF Ours
    <3> QED
      BY <1>1, <1>4, <3>2, <3>3, <3>4
  <2> QED
    BY <1>2, <2>1, <2>2, <2>3 DEF Offset, Ours
<1>8. Handling' /\ CommandNotLost'
  BY <1>2 DEF Handling, CommandNotLost, Ours
<1> QED
  BY <1>6, <1>7, <1>8

LEMMA ReplyStep == ChatInv /\ Reply => ChatInv' /\ Min(todo) \notin triedNow
<1> SUFFICES ASSUME ChatInv, Reply PROVE ChatInv' /\ Min(todo) \notin triedNow
  OBVIOUS
<1> USE DEF ChatInv
<1> DEFINE id == Min(todo)
<1>1. /\ chat = "handle" /\ todo' = todo \ {id}
      /\ tried' = tried \cup {id} /\ triedNow' = triedNow \cup {id}
      /\ chat' = IF todo' = {} THEN "idle" ELSE "handle"
      /\ UNCHANGED <<kinds, confirmed, lastUpdateID, answer>>
  BY DEF Reply
<1>2. todo # {} /\ todo \in SUBSET Nat
  BY <1>1, LenProperties DEF Handling, ChatTyped, Ours, Updates
<1>3. id \in todo
  BY <1>2, MinProperty
<1>4. ChatTyped'
  BY <1>1, <1>3 DEF ChatTyped, Ours, Updates
<1>5. Offset' /\ CommandNotLost' /\ id \notin triedNow
  BY <1>1, <1>3 DEF Offset, CommandNotLost, Ours
<1>6. Handling'
  BY <1>1 DEF Handling
<1> QED
  BY <1>4, <1>5, <1>6

LEMMA ChatStep == ChatInv /\ [RestartsNext]_allVars => ChatInv'
<1> SUFFICES ASSUME ChatInv, [RestartsNext]_allVars PROVE ChatInv'
  OBVIOUS
<1>1. CASE UNCHANGED chatVars
  BY <1>1 DEF chatVars, ChatInv, ChatTyped, Offset, Handling, CommandNotLost, Ours, Updates
<1>2. CASE Poll
  BY <1>2 DEF Poll, ChatInv, ChatTyped, Offset, Handling, CommandNotLost, Ours, Updates
<1>3. CASE PollFails
  BY <1>3 DEF PollFails, ChatInv, ChatTyped, Offset, Handling, CommandNotLost, Ours, Updates
<1>4. CASE Forgotten
  <2>1. /\ lastUpdateID' = 0 /\ chat' = "idle" /\ answer' = {} /\ todo' = {} /\ triedNow' = {}
        /\ UNCHANGED <<kinds, confirmed, tried>>
    BY <1>4 DEF Forgotten
  <2>2. Len(kinds) \in Nat
    BY LenProperties DEF ChatInv, ChatTyped
  <2>3. ChatTyped'
    BY <2>1, <2>2 DEF ChatInv, ChatTyped, Ours, Updates
  <2>4. Offset' /\ Handling' /\ CommandNotLost'
    BY <2>1 DEF ChatInv, Offset, Handling, CommandNotLost, Ours
  <2> QED
    BY <2>3, <2>4 DEF ChatInv
<1> QED
  BY <1>1, <1>2, <1>3, <1>4, WriteStep, AnswerStep, AcceptStep, ReplyStep
     DEF RestartsNext, Records, Polls, Chats, Begins, Writes, Dies, allVars

(***************************************************************************)
(* The offset of PollCommands stands for updates that some poll brought,   *)
(* and an accepted answer has no gap.                                      *)
(***************************************************************************)
THEOREM ChatInvariance == RestartsSpec => []ChatInv
<1>1. RestartsInit => ChatInv
  BY ChatInitHolds DEF RestartsInit
<1> QED
  BY <1>1, ChatStep, PTL DEF RestartsSpec

(* A command that Telegram was told to forget was handled.                 *)
THEOREM NoCommandLost == RestartsSpec => []CommandNotLost
BY ChatInvariance, PTL DEF ChatInv

(* Only a restart can have a command handled again.                        *)
THEOREM OncePerProcess == RestartsSpec => HandledOnce
<1>1. ChatInv /\ [RestartsNext]_allVars => [Reply => Min(todo) \notin triedNow]_chatVars
  BY ReplyStep
<1> QED
  BY <1>1, ChatInvariance, PTL DEF RestartsSpec, HandledOnce

-----------------------------------------------------------------------------
(* Beside the chat the trade file is what it is without it.                *)

(***************************************************************************)
(* With the chat in the same goroutine the trade file keeps every          *)
(* acknowledged trade, and only grows.                                     *)
(***************************************************************************)
THEOREM RestartsKeepFile == RestartsSpec => []FileKept /\ FileGrows
<1>1. RestartsInit => Init
  BY DEF RestartsInit
<1>2. [RestartsNext]_allVars => [Next]_vars
  BY DEF RestartsNext, Records, Polls, Chats, Begins, Writes, Dies, allVars, Next
<1>3. RestartsSpec => Spec
  BY <1>1, <1>2, PTL DEF RestartsSpec, Spec
<1> QED
  BY <1>3, KeptFile, GrowingFile
==============================================================================
