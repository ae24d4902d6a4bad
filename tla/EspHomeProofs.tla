---------------------------- MODULE EspHomeProofs ----------------------------
(***************************************************************************)
(* The ESPHome client, for any powers, any number of Modbus writes waiting *)
(* at the device, and any publication cycle that the confirmation covers.  *)
(***************************************************************************)
EXTENDS EspHomeClient, Integers, SequenceTheorems, WellFoundedInduction, TLAPS

\* What goes with which place in a call.
Places ==
  /\ pc = "ready" => at = 1
  /\ pc # "ready" => answer = "error"
  /\ pc # "confirm" => waited = 0
  /\ waited > 0 => queue = <<>>

\* What the writes of the call so far will have come to.
Written ==
  ~lost /\ pc # "ready" =>
    /\ pc = "confirm" => Final(Current[1]) = Current[2]
    /\ command.mode = "stop" /\ at = 3 => Final("force") = "stop"
    /\ command.mode # "stop" /\ at > 1 => Final("rs485") = "enable"
    /\ command.mode = "charge" /\ at = 3 => Final("chargePower") = command.power
    /\ command.mode = "discharge" /\ at = 3 => Final("dischargePower") = command.power

\* The battery is stopped when write i of the queue reaches it.
StoppedBefore(i) ==
  \/ /\ battery.force = "stop"
     /\ \A k \in 1..(i - 1) : queue[k][1] # "force"
  \/ \E j \in 1..(i - 1) :
       /\ queue[j] = <<"force", "stop">>
       /\ \A k \in (j + 1)..(i - 1) : queue[k][1] # "force"

\* A write on its way that gives the control back is behind a stop.
Guarded ==
  ~lost => \A i \in 1..Len(queue) : queue[i] = <<"rs485", "disable">> => StoppedBefore(i)

\* A confirmation that has waited for longer than the last publication is old
\* has seen the cycle turn.
Published ==
  ~lost /\ pc = "confirm" /\ waited > age => shown[Current[1]] = Current[2]

IInv == TypeOK /\ Places /\ Written /\ Guarded /\ Published /\ AnswerIsFinal

-----------------------------------------------------------------------------
(* Writes and what they leave in a register.                               *)

LEMMA WriteTyped ==
  /\ \A w \in AllWrites : w = <<w[1], w[2]>> /\ w[1] \in Controls /\ w[2] \in Values[w[1]]
  /\ \A c \in Controls : \A v \in Values[c] : <<c, v>> \in AllWrites
BY DEF AllWrites

LEMMA CurrentTyped ==
  ASSUME command \in Commands, at \in 1..3
  PROVE  Current \in AllWrites /\ Len(Writes(command)) = 3
<1>1. command.mode \in Modes /\ (command.mode # "stop" => command.power \in Powers)
  BY DEF Commands, Modes
<1>2. Len(Writes(command)) = 3
  BY <1>1 DEF Writes, Modes
<1>3. \A i \in 1..3 : Writes(command)[i] \in AllWrites
  BY <1>1, WriteTyped DEF Writes, Modes, Controls, Values
<1> QED
  BY <1>2, <1>3 DEF Current

LEMMA Smallest ==
  ASSUME NEW T \in SUBSET Nat, T # {}
  PROVE  \E m \in T : \A k \in T : m <= k
<1>1. PICK m \in T : \A k \in T : ~(<<k, m>> \in OpToRel(<, Nat))
  BY NatLessThanWellFounded, WFMin
<1>2. \A k \in T : k < m => <<k, m>> \in OpToRel(<, Nat)
  BY DEF OpToRel
<1>3. \A k \in T : ~(k < m)
  BY <1>1, <1>2, Zenon
<1> QED
  BY <1>3

\* The same of the largest, by the distance to n.
LEMMA Largest ==
  ASSUME NEW n \in Nat, NEW T \in SUBSET (1..n), T # {}
  PROVE  \E m \in T : \A k \in T : k <= m
<1> DEFINE Distances == {n - k : k \in T}
<1>1. Distances \in SUBSET Nat /\ Distances # {}
  <2>1. \A k \in T : n - k \in Nat
    OBVIOUS
  <2> QED
    BY <2>1
<1>2. PICK d \in Distances : \A e \in Distances : d <= e
  BY <1>1, Smallest
<1> QED
  BY <1>2

\* Register c under the registers b and the writes q.
LastOf(q, b, c) ==
  LET mine == {i \in DOMAIN q : q[i][1] = c}
  IN  IF mine = {} THEN b[c]
      ELSE q[CHOOSE i \in mine : \A j \in mine : j <= i][2]

LEMMA FinalIsLast == ASSUME NEW c PROVE Final(c) = LastOf(queue, battery, c)
BY DEF Final, LastOf

\* No write of q is to c; write i is the last one that is.
Absent(q, c)    == \A i \in 1..Len(q) : q[i][1] # c
IsLast(q, i, c) == i \in 1..Len(q) /\ q[i][1] = c /\ \A j \in (i + 1)..Len(q) : q[j][1] # c

LEMMA LastIfNone ==
  ASSUME NEW q \in Seq(AllWrites), NEW b, NEW c, Absent(q, c)
  PROVE  LastOf(q, b, c) = b[c]
BY LenProperties DEF LastOf, Absent

LEMMA LastIfSome ==
  ASSUME NEW q \in Seq(AllWrites), NEW b, NEW c,
         NEW i, IsLast(q, i, c)
  PROVE  LastOf(q, b, c) = q[i][2]
<1> DEFINE mine == {k \in DOMAIN q : q[k][1] = c}
<1>1. DOMAIN q = 1..Len(q) /\ Len(q) \in Nat
  BY LenProperties
<1>2. i \in mine /\ \A j \in mine : j <= i
  BY <1>1 DEF IsLast
<1>3. i = CHOOSE k \in mine : \A j \in mine : j <= k
  <2>1. \A k \in mine : (\A j \in mine : j <= k) => k = i
    BY <1>1, <1>2
  <2> QED
    BY <1>2, <2>1
<1> QED
  BY <1>2, <1>3 DEF LastOf

LEMMA LastCases ==
  ASSUME NEW q \in Seq(AllWrites), NEW c
  PROVE  Absent(q, c) \/ \E i : IsLast(q, i, c)
<1> DEFINE mine == {k \in 1..Len(q) : q[k][1] = c}
<1>1. Len(q) \in Nat
  BY LenProperties
<1>2. CASE mine = {}
  BY <1>2 DEF Absent
<1>3. CASE mine # {}
  <2>1. PICK i \in mine : \A k \in mine : k <= i
    BY <1>1, <1>3, Largest
  <2>2. IsLast(q, i, c)
    BY <1>1, <2>1 DEF IsLast
  <2> QED
    BY <2>2
<1> QED
  BY <1>2, <1>3

\* A write at the end decides its own register.
LEMMA LastAppend ==
  ASSUME NEW q \in Seq(AllWrites), NEW b, NEW w \in AllWrites, NEW c
  PROVE  LastOf(Append(q, w), b, c) = IF w[1] = c THEN w[2] ELSE LastOf(q, b, c)
<1> DEFINE r == Append(q, w)
<1>1. /\ r \in Seq(AllWrites) /\ Len(r) = Len(q) + 1 /\ Len(q) \in Nat
      /\ r[Len(q) + 1] = w /\ \A i \in 1..Len(q) : r[i] = q[i]
  BY AppendProperties, LenProperties
<1> HIDE DEF r
<1>2. CASE w[1] = c
  <2>1. IsLast(r, Len(r), c)
    BY <1>1, <1>2 DEF IsLast
  <2>2. LastOf(r, b, c) = r[Len(r)][2]
    BY <1>1, <2>1, LastIfSome
  <2> QED
    BY <1>1, <1>2, <2>2 DEF r
<1>3. CASE w[1] # c /\ Absent(q, c)
  <2>1. Absent(r, c)
    BY <1>1, <1>3 DEF Absent
  <2>2. LastOf(r, b, c) = b[c] /\ LastOf(q, b, c) = b[c]
    BY <1>1, <1>3, <2>1, LastIfNone
  <2> QED
    BY <1>3, <2>2 DEF r
<1>4. ASSUME w[1] # c, NEW i, IsLast(q, i, c)
      PROVE  LastOf(r, b, c) = LastOf(q, b, c)
  <2>1. IsLast(r, i, c) /\ r[i] = q[i]
    BY <1>1, <1>4 DEF IsLast
  <2>2. LastOf(r, b, c) = r[i][2]
    BY <1>1, <1>4, <2>1, LastIfSome
  <2>3. LastOf(q, b, c) = q[i][2]
    BY <1>4, LastIfSome
  <2> QED
    BY <2>1, <2>2, <2>3
<1> QED
  BY <1>2, <1>3, <1>4, LastCases DEF r

\* The first write may as well be taken into the registers.
LEMMA LastTail ==
  ASSUME NEW q \in Seq(AllWrites), q # <<>>, NEW b, NEW b2, NEW c,
         b2[c] = IF q[1][1] = c THEN q[1][2] ELSE b[c]
  PROVE  LastOf(Tail(q), b2, c) = LastOf(q, b, c)
<1> DEFINE r == Tail(q)
           w == q[1]
<1>1. /\ r \in Seq(AllWrites) /\ Len(r) = Len(q) - 1 /\ Len(q) \in Nat \ {0}
      /\ w = q[1] /\ \A i \in 1..Len(r) : r[i] = q[i + 1]
  BY HeadTailProperties, EmptySeq
<1>2. b2[c] = IF w[1] = c THEN w[2] ELSE b[c]
  OBVIOUS
<1> HIDE DEF r, w
<1>3. CASE Absent(r, c)
  <2>1. LastOf(r, b2, c) = b2[c]
    BY <1>1, <1>3, LastIfNone
  <2>2. CASE w[1] = c
    <3>1. IsLast(q, 1, c)
      <4>1. ASSUME NEW j \in (1 + 1)..Len(q) PROVE q[j][1] # c
        <5>1. j - 1 \in 1..Len(r) /\ r[j - 1] = q[j]
          BY <1>1
        <5> QED
          BY <1>3, <5>1 DEF Absent
      <4> QED
        BY <1>1, <2>2, <4>1 DEF IsLast
    <3>2. LastOf(q, b, c) = q[1][2]
      BY <3>1, LastIfSome
    <3> QED
      BY <1>1, <1>2, <2>1, <2>2, <3>2 DEF r, w
  <2>3. CASE w[1] # c
    <3>1. Absent(q, c)
      <4>1. ASSUME NEW i \in 1..Len(q), i # 1 PROVE q[i][1] # c
        <5>1. i - 1 \in 1..Len(r) /\ r[i - 1] = q[i]
          BY <1>1, <4>1
        <5> QED
          BY <1>3, <5>1 DEF Absent
      <4> QED
        BY <1>1, <2>3, <4>1 DEF Absent
    <3>2. LastOf(q, b, c) = b[c]
      BY <3>1, LastIfNone
    <3> QED
      BY <1>2, <2>1, <2>3, <3>2 DEF r, w
  <2> QED
    BY <2>2, <2>3
<1>4. ASSUME NEW i, IsLast(r, i, c)
      PROVE  LastOf(r, b2, c) = LastOf(q, b, c)
  <2>1. LastOf(r, b2, c) = r[i][2]
    BY <1>1, <1>4, LastIfSome
  <2>2. i \in 1..Len(r) /\ i + 1 \in 1..Len(q) /\ q[i + 1] = r[i]
    BY <1>1, <1>4 DEF IsLast
  <2>3. ASSUME NEW j \in ((i + 1) + 1)..Len(q) PROVE q[j][1] # c
    <3>1. j - 1 \in (i + 1)..Len(r) /\ j - 1 \in 1..Len(r) /\ r[j - 1] = q[j]
      BY <1>1, <2>2
    <3> QED
      BY <1>4, <3>1 DEF IsLast
  <2>4. IsLast(q, i + 1, c)
    BY <1>4, <2>2, <2>3 DEF IsLast
  <2>5. LastOf(q, b, c) = q[i + 1][2]
    BY <2>4, LastIfSome
  <2> QED
    BY <2>1, <2>2, <2>5
<1> QED
  BY <1>1, <1>3, <1>4, LastCases DEF r, w

LEMMA LastApply ==
  ASSUME NEW q \in Seq(AllWrites), q # <<>>, NEW b \in Registers, NEW c \in Controls
  PROVE  LastOf(Tail(q), Carry(b, Head(q)), c) = LastOf(q, b, c)
<1>1. Head(q) = q[1] /\ q[1] \in AllWrites
  BY HeadTailProperties, EmptySeq, ElementOfSeq
<1>2. Carry(b, Head(q))[c] = IF q[1][1] = c THEN q[1][2] ELSE b[c]
  BY <1>1, WriteTyped DEF Carry, Registers
<1> QED
  BY <1>2, LastTail

-----------------------------------------------------------------------------
(* The queue.                                                              *)

\* A write that is posted decides its register, and no other.
LEMMA Posted ==
  ASSUME TypeOK, NEW w \in AllWrites, queue' = Append(queue, w), UNCHANGED battery
  PROVE  /\ queue' \in Seq(AllWrites)
         /\ \A c \in Controls : Final(c)' = IF w[1] = c THEN w[2] ELSE Final(c)
<1>1. queue \in Seq(AllWrites)
  BY DEF TypeOK
<1>2. queue' \in Seq(AllWrites)
  BY <1>1, AppendProperties
<1>3. ASSUME NEW c \in Controls
      PROVE  Final(c)' = IF w[1] = c THEN w[2] ELSE Final(c)
  <2>1. Final(c)' = LastOf(Append(queue, w), battery, c)
    BY DEF Final, LastOf
  <2>2. Final(c) = LastOf(queue, battery, c)
    BY FinalIsLast
  <2> QED
    BY <1>1, <2>1, <2>2, LastAppend
<1> QED
  BY <1>2, <1>3

LEMMA Same ==
  ASSUME UNCHANGED <<queue, battery>>, NEW c
  PROVE  Final(c)' = Final(c)
BY DEF Final

\* A disable that is posted over a battery that is bound to be stopped.
LEMMA GuardedPost ==
  ASSUME TypeOK, Guarded, NEW w \in AllWrites, queue' = Append(queue, w),
         UNCHANGED <<battery, lost>>,
         ~lost /\ w = <<"rs485", "disable">> => Final("force") = "stop"
  PROVE  Guarded'
<1> SUFFICES ASSUME ~lost, NEW i \in 1..Len(queue'), queue'[i] = <<"rs485", "disable">>
             PROVE  StoppedBefore(i)'
  BY DEF Guarded
<1>1. queue \in Seq(AllWrites)
  BY DEF TypeOK
<1>2. /\ Len(queue') = Len(queue) + 1 /\ Len(queue) \in Nat
      /\ queue'[Len(queue) + 1] = w /\ \A k \in 1..Len(queue) : queue'[k] = queue[k]
  BY <1>1, AppendProperties, LenProperties
<1>3. CASE i \in 1..Len(queue)
  <2>1. StoppedBefore(i)
    BY <1>2, <1>3 DEF Guarded
  <2>2. i \in Nat /\ \A k \in 1..i : queue'[k] = queue[k]
    BY <1>2, <1>3
  <2>3. CASE battery.force = "stop" /\ \A k \in 1..(i - 1) : queue[k][1] # "force"
    BY <2>2, <2>3 DEF StoppedBefore
  <2>4. ASSUME NEW j \in 1..(i - 1), queue[j] = <<"force", "stop">>,
               \A k \in (j + 1)..(i - 1) : queue[k][1] # "force"
        PROVE  StoppedBefore(i)'
    <3>1. queue'[j] = <<"force", "stop">>
      BY <2>2, <2>4
    <3>2. \A k \in (j + 1)..(i - 1) : queue'[k][1] # "force"
      BY <2>2, <2>4
    <3> QED
      BY <3>1, <3>2 DEF StoppedBefore
  <2> QED
    BY <2>1, <2>3, <2>4 DEF StoppedBefore
<1>4. CASE i = Len(queue) + 1
  <2>1. Final("force") = "stop" /\ Final("force") = LastOf(queue, battery, "force")
    BY <1>2, <1>4, FinalIsLast
  <2>2. CASE Absent(queue, "force")
    <3>1. battery["force"] = "stop"
      BY <1>1, <2>1, <2>2, LastIfNone
    <3> QED
      BY <1>2, <1>4, <2>2, <3>1 DEF StoppedBefore, Absent
  <2>3. ASSUME NEW j, IsLast(queue, j, "force")
        PROVE  StoppedBefore(i)'
    <3>1. queue[j][2] = "stop"
      BY <1>1, <2>1, <2>3, LastIfSome
    <3>2. j \in 1..Len(queue) /\ queue[j][1] = "force"
      BY <2>3 DEF IsLast
    <3>3. queue[j] = <<"force", "stop">>
      <4>1. queue[j] \in AllWrites
        BY <1>1, <3>2, ElementOfSeq
      <4> QED
        BY <3>1, <3>2, <4>1, WriteTyped
    <3>4. j \in 1..(i - 1) /\ queue'[j] = queue[j]
          /\ \A k \in (j + 1)..(i - 1) : queue'[k][1] # "force"
      BY <1>2, <1>4, <2>3, <3>2 DEF IsLast
    <3> QED
      BY <3>3, <3>4 DEF StoppedBefore
  <2> QED
    BY <1>1, <2>2, <2>3, LastCases
<1> QED
  BY <1>2, <1>3, <1>4

\* The write that the battery gets first.
LEMMA GuardedApply ==
  ASSUME TypeOK, Guarded, Apply
  PROVE  Guarded'
<1> SUFFICES ASSUME ~lost, NEW i \in 1..Len(queue'), queue'[i] = <<"rs485", "disable">>
             PROVE  StoppedBefore(i)'
  BY DEF Guarded, Apply
<1>1. queue \in Seq(AllWrites) /\ queue # <<>> /\ queue' = Tail(queue) /\ battery \in Registers
  BY DEF TypeOK, Apply
<1>2. /\ Len(queue') = Len(queue) - 1 /\ Len(queue) \in Nat
      /\ \A k \in 1..Len(queue') : queue'[k] = queue[k + 1]
  BY <1>1, HeadTailProperties, LenProperties
<1>3. Head(queue) = queue[1] /\ queue[1] \in AllWrites
  BY <1>1, HeadTailProperties, EmptySeq, ElementOfSeq
<1>4. battery'.force = IF queue[1][1] = "force" THEN queue[1][2] ELSE battery.force
  BY <1>1, <1>3, WriteTyped DEF Apply, Carry, Registers, Controls
<1>5. i + 1 \in 1..Len(queue) /\ queue[i + 1] = <<"rs485", "disable">>
  BY <1>2
<1>6. StoppedBefore(i + 1)
  BY <1>5 DEF Guarded
<1>7. CASE battery.force = "stop" /\ \A k \in 1..i : queue[k][1] # "force"
  <2>1. i \in Nat \ {0} /\ \A k \in 1..(i - 1) : queue'[k][1] # "force"
    <3>1. i \in Nat \ {0} /\ i <= Len(queue')
      BY <1>2
    <3>2. ASSUME NEW k \in 1..(i - 1) PROVE queue'[k][1] # "force"
      <4>1. k \in 1..Len(queue') /\ k + 1 \in 1..i
        BY <1>2, <3>1
      <4> QED
        BY <1>2, <1>7, <4>1
    <3> QED
      BY <3>1, <3>2
  <2>2. battery'.force = "stop"
    BY <1>4, <1>7, <2>1
  <2> QED
    BY <2>1, <2>2 DEF StoppedBefore
<1>8. ASSUME NEW j \in 1..i, queue[j] = <<"force", "stop">>,
             \A k \in (j + 1)..i : queue[k][1] # "force"
      PROVE  StoppedBefore(i)'
  <2>1. CASE j = 1
    <3>1. battery'.force = "stop"
      BY <1>4, <1>8, <2>1
    <3>2. \A k \in 1..(i - 1) : queue'[k][1] # "force"
      BY <1>2, <1>8, <2>1
    <3> QED
      BY <3>1, <3>2 DEF StoppedBefore
  <2>2. CASE j # 1
    <3>1. j - 1 \in 1..(i - 1) /\ queue'[j - 1] = <<"force", "stop">>
      BY <1>2, <1>8, <2>2
    <3>2. \A k \in ((j - 1) + 1)..(i - 1) : queue'[k][1] # "force"
      BY <1>2, <1>8, <2>2
    <3> QED
      BY <3>1, <3>2 DEF StoppedBefore
  <2> QED
    BY <2>1, <2>2
<1>9. (i + 1) - 1 = i
  BY <1>2
<1> QED
  BY <1>6, <1>7, <1>8, <1>9 DEF StoppedBefore

-----------------------------------------------------------------------------
(* The invariant.                                                          *)

\* The three shapes of a command, write by write.
LEMMA Shapes ==
  ASSUME command \in Commands, at \in 1..3
  PROVE  /\ command.mode \in Modes
         /\ command.mode = "stop" =>
              Current = CASE at = 1 -> <<"rs485", "enable">>
                          [] at = 2 -> <<"force", "stop">>
                          [] at = 3 -> <<"rs485", "disable">>
         /\ command.mode = "charge" =>
              Current = CASE at = 1 -> <<"rs485", "enable">>
                          [] at = 2 -> <<"chargePower", command.power>>
                          [] at = 3 -> <<"force", "charge">>
         /\ command.mode = "discharge" =>
              Current = CASE at = 1 -> <<"rs485", "enable">>
                          [] at = 2 -> <<"dischargePower", command.power>>
                          [] at = 3 -> <<"force", "discharge">>
         /\ Tolerated <=> command.mode = "stop" /\ at # 2
<1>1. command.mode \in Modes
  BY DEF Commands, Modes
<1> QED
  BY <1>1 DEF Modes, Current, Writes, Tolerated

LEMMA InitHolds == Init => IInv
<1> SUFFICES ASSUME Init PROVE IInv
  OBVIOUS
<1>1. TypeOK
  <2>1. Timeout \in Nat /\ PublishEvery \in Nat /\ MaxQueued \in Nat
    BY EspAssumption DEF EspAssumption
  <2>2. queue \in Seq(AllWrites) /\ Len(queue) = 0
    BY EmptySeq DEF Init
  <2>3. at \in 1..3 /\ waited \in 0..Timeout
    <3>1. at = 1 /\ waited = 0
      BY DEF Init
    <3> QED
      BY <2>1, <3>1
  <2>4. lost \in BOOLEAN
    BY DEF Init
  <2> QED
    BY <2>1, <2>2, <2>3, <2>4 DEF Init, TypeOK
<1>2. Places /\ Written /\ Published /\ AnswerIsFinal
  BY DEF Init, Places, Written, Published, AnswerIsFinal
<1>3. Guarded
  BY EmptySeq DEF Init, Guarded
<1> QED
  BY <1>1, <1>2, <1>3 DEF IInv

LEMMA CallStep == IInv /\ Call => IInv'
<1> SUFFICES ASSUME IInv, Call PROVE IInv'
  OBVIOUS
<1> USE DEF IInv, Call
<1>1. TypeOK'
  BY DEF TypeOK
<1>2. Places' /\ Written' /\ Published' /\ AnswerIsFinal'
  BY DEF Places, Written, Published, AnswerIsFinal
<1>3. Guarded'
  <2>1. CASE ~lost
    BY <2>1 DEF Guarded, StoppedBefore
  <2>2. CASE queue = <<>>
    BY <2>2, EmptySeq DEF Guarded
  <2> QED
    BY <2>1, <2>2 DEF Guarded
<1> QED
  BY <1>1, <1>2, <1>3

\* A call goes on, or ends, over a queue in which its write has its place.
LEMMA AdvanceStep ==
  ASSUME IInv, pc # "ready", Advance, TypeOK', UNCHANGED lost, Guarded',
         ~lost => \A c \in Controls :
                    IF c = Current[1] THEN Final(c)' = Current[2] \/ Tolerated
                                      ELSE Final(c)' = Final(c)
  PROVE  IInv'
<1>1. command \in Commands /\ at \in 1..3 /\ Len(Writes(command)) = 3
  BY CurrentTyped DEF IInv, TypeOK
<1>2. CASE at = 3
  <2>1. pc' = "ready" /\ answer' = "ok" /\ at' = 1 /\ waited' = 0 /\ command' = command
    BY <1>1, <1>2 DEF Advance
  <2>2. Places' /\ Written' /\ Published'
    BY <2>1 DEF Places, Written, Published
  <2>3. AnswerIsFinal'
    <3> SUFFICES ASSUME ~lost PROVE AnswerIsFinal'
      BY DEF AnswerIsFinal
    <3>1. CASE command.mode = "stop"
      <4>1. Current[1] = "rs485" /\ Final("force") = "stop"
        BY <1>1, <1>2, <3>1, Shapes DEF IInv, Written
      <4>2. Final("force")' = Final("force")
        BY <4>1 DEF Controls
      <4> QED
        BY <2>1, <3>1, <4>1, <4>2 DEF AnswerIsFinal
    <3>2. CASE command.mode = "charge"
      <4>1. /\ Current = <<"force", "charge">> /\ ~Tolerated
            /\ Final("rs485") = "enable" /\ Final("chargePower") = command.power
        BY <1>1, <1>2, <3>2, Shapes DEF IInv, Written
      <4>2. /\ Final("force")' = "charge" /\ Final("rs485")' = Final("rs485")
            /\ Final("chargePower")' = Final("chargePower")
        BY <4>1 DEF Controls
      <4> QED
        BY <2>1, <3>2, <4>1, <4>2 DEF AnswerIsFinal
    <3>3. CASE command.mode = "discharge"
      <4>1. /\ Current = <<"force", "discharge">> /\ ~Tolerated
            /\ Final("rs485") = "enable" /\ Final("dischargePower") = command.power
        BY <1>1, <1>2, <3>3, Shapes DEF IInv, Written
      <4>2. /\ Final("force")' = "discharge" /\ Final("rs485")' = Final("rs485")
            /\ Final("dischargePower")' = Final("dischargePower")
        BY <4>1 DEF Controls
      <4> QED
        BY <2>1, <3>3, <4>1, <4>2 DEF AnswerIsFinal
    <3> QED
      BY <1>1, <3>1, <3>2, <3>3, Shapes DEF Modes
  <2> QED
    BY <2>2, <2>3 DEF IInv
<1>3. CASE at # 3
  <2>1. pc' = "post" /\ at' = at + 1 /\ answer' = answer /\ waited' = 0 /\ command' = command
    BY <1>1, <1>3 DEF Advance
  <2>2. Places' /\ Published' /\ AnswerIsFinal'
    BY <2>1 DEF Places, Published, AnswerIsFinal, IInv
  <2>3. Written'
    <3> SUFFICES ASSUME ~lost PROVE Written'
      BY DEF Written
    <3>1. CASE command.mode = "stop"
      <4>1. at = 2 => Current = <<"force", "stop">> /\ ~Tolerated
        BY <1>1, <3>1, Shapes
      <4>2. at = 2 => Final("force")' = "stop"
        BY <4>1 DEF Controls
      <4> QED
        BY <1>1, <1>3, <2>1, <3>1, <4>2 DEF Written
    <3>2. CASE command.mode # "stop"
      <4>1. CASE at = 1
        <5>1. Current = <<"rs485", "enable">> /\ ~Tolerated
          BY <1>1, <3>2, <4>1, Shapes DEF Modes
        <5>2. Final("rs485")' = "enable"
          BY <5>1 DEF Controls
        <5> QED
          BY <2>1, <3>2, <4>1, <5>2 DEF Written
      <4>2. CASE at = 2
        <5>1. Final("rs485") = "enable" /\ ~Tolerated
          BY <1>1, <3>2, <4>2, Shapes DEF IInv, Written
        <5>2. /\ command.mode = "charge" => Current = <<"chargePower", command.power>>
              /\ command.mode = "discharge" => Current = <<"dischargePower", command.power>>
              /\ command.mode \in Modes
          BY <1>1, <4>2, Shapes
        <5>3. Final("rs485")' = "enable"
          BY <3>2, <5>1, <5>2 DEF Modes, Controls
        <5>4. /\ command.mode = "charge" => Final("chargePower")' = command.power
              /\ command.mode = "discharge" => Final("dischargePower")' = command.power
          BY <5>1, <5>2 DEF Controls
        <5> QED
          BY <2>1, <3>2, <4>2, <5>3, <5>4 DEF Written
      <4> QED
        BY <1>1, <1>3, <4>1, <4>2
    <3> QED
      BY <3>1, <3>2
  <2> QED
    BY <2>2, <2>3 DEF IInv
<1> QED
  BY <1>2, <1>3

\* A call that fails and is given up promises nothing.
LEMMA GiveUpStep ==
  ASSUME IInv, Failed, ~Tolerated, TypeOK', UNCHANGED lost, Guarded'
  PROVE  IInv'
BY DEF IInv, Failed, Places, Written, Published, AnswerIsFinal

LEMMA PostOkStep == IInv /\ PostOk => IInv'
<1> SUFFICES ASSUME IInv, PostOk PROVE IInv'
  OBVIOUS
<1>1. /\ command \in Commands /\ at \in 1..3 /\ Current \in AllWrites
      /\ Len(Writes(command)) = 3
  BY CurrentTyped DEF IInv, TypeOK
<1>2. /\ pc = "post" /\ pc' = "confirm" /\ queue' = Append(queue, Current)
      /\ command' = command /\ at' = at /\ waited' = 0 /\ answer' = answer
      /\ battery' = battery /\ lost' = lost /\ Current' = Current
  BY DEF PostOk, Accepted, IInv, Places, Current
<1>3. /\ queue' \in Seq(AllWrites)
      /\ \A c \in Controls : Final(c)' = IF Current[1] = c THEN Current[2] ELSE Final(c)
  BY <1>1, <1>2, Posted DEF IInv
<1>4. TypeOK'
  <2>1. Len(queue') <= MaxQueued
    <3>1. Len(queue') = Len(queue) + 1 /\ Len(queue) \in Nat /\ MaxQueued \in Nat
      BY <1>1, <1>2, AppendProperties, LenProperties, EspAssumption DEF IInv, TypeOK, EspAssumption
    <3> QED
      BY <3>1 DEF PostOk
  <2> QED
    BY <1>2, <1>3, <2>1 DEF IInv, TypeOK, PostOk
<1>5. Places'
  BY <1>2 DEF IInv, Places
<1>6. Written'
  <2> SUFFICES ASSUME ~lost PROVE Written'
    BY <1>2 DEF Written
  <2>1. Current[1] \in Controls
    BY <1>1, WriteTyped
  <2>2. Final(Current[1])' = Current[2]
    <3>1. \A c \in Controls : c = Current[1] => Final(c)' = Current[2]
      BY <1>3
    <3> QED
      BY <1>2, <2>1, <3>1
  <2>3. command.mode = "stop" /\ at = 3 => Final("force")' = "stop"
    BY <1>1, <1>2, <1>3, Shapes DEF IInv, Written, Controls
  <2>4. command.mode # "stop" /\ at > 1 => Final("rs485")' = "enable"
    BY <1>1, <1>2, <1>3, Shapes DEF IInv, Written, Controls, Modes
  <2>5. command.mode = "charge" /\ at = 3 => Final("chargePower")' = command.power
    BY <1>1, <1>2, <1>3, Shapes DEF IInv, Written, Controls
  <2>6. command.mode = "discharge" /\ at = 3 => Final("dischargePower")' = command.power
    BY <1>1, <1>2, <1>3, Shapes DEF IInv, Written, Controls
  <2> QED
    BY <1>2, <2>2, <2>3, <2>4, <2>5, <2>6 DEF Written
<1>7. Guarded'
  <2>1. ~lost /\ Current = <<"rs485", "disable">> => Final("force") = "stop"
    BY <1>1, <1>2, Shapes DEF IInv, Written, Modes
  <2> QED
    BY <1>1, <1>2, <2>1, GuardedPost DEF IInv
<1>8. Published' /\ AnswerIsFinal'
  BY <1>2 DEF Published, AnswerIsFinal, PostOk, IInv, TypeOK
<1> QED
  BY <1>4, <1>5, <1>6, <1>7, <1>8 DEF IInv

LEMMA PostFailsStep == IInv /\ PostFails => IInv'
<1> SUFFICES ASSUME IInv, PostFails PROVE IInv'
  OBVIOUS
<1>1. /\ command \in Commands /\ at \in 1..3 /\ Current \in AllWrites
      /\ Len(Writes(command)) = 3
  BY CurrentTyped DEF IInv, TypeOK
<1>2. /\ pc = "post" /\ Failed /\ battery' = battery /\ lost' = lost
      /\ shown' = shown /\ age' = age
  BY DEF PostFails
<1>3. /\ queue' \in Seq(AllWrites) /\ Len(queue') <= MaxQueued
      /\ \A c \in Controls : c # Current[1] => Final(c)' = Final(c)
      /\ Guarded'
  <2>1. CASE UNCHANGED queue
    <3>1. \A c \in Controls : Final(c)' = Final(c)
      BY <1>2, <2>1, Same
    <3>2. Guarded'
      BY <1>2, <2>1 DEF IInv, Guarded, StoppedBefore
    <3> QED
      BY <2>1, <3>1, <3>2 DEF IInv, TypeOK
  <2>2. CASE Len(queue) < MaxQueued /\ queue' = Append(queue, Current)
    <3>1. /\ queue' \in Seq(AllWrites)
          /\ \A c \in Controls : Final(c)' = IF Current[1] = c THEN Current[2] ELSE Final(c)
      BY <1>1, <1>2, <2>2, Posted DEF IInv
    <3>2. Len(queue') <= MaxQueued
      <4>1. Len(queue') = Len(queue) + 1 /\ Len(queue) \in Nat /\ MaxQueued \in Nat
        BY <1>1, <2>2, AppendProperties, LenProperties, EspAssumption DEF IInv, TypeOK, EspAssumption
      <4> QED
        BY <2>2, <4>1
    <3>3. ~lost /\ Current = <<"rs485", "disable">> => Final("force") = "stop"
      BY <1>1, <1>2, Shapes DEF IInv, Written, Modes
    <3>4. Guarded'
      BY <1>1, <1>2, <2>2, <3>3, GuardedPost DEF IInv
    <3> QED
      BY <3>1, <3>2, <3>4
  <2> QED
    BY <2>1, <2>2 DEF PostFails, Accepted
<1>4. TypeOK'
  BY <1>1, <1>2, <1>3, EspAssumption DEF IInv, TypeOK, Failed, Advance, EspAssumption
<1>5. CASE Tolerated
  <2>1. Advance
    BY <1>2, <1>5 DEF Failed
  <2> QED
    BY <1>2, <1>3, <1>4, <1>5, <2>1, AdvanceStep
<1>6. CASE ~Tolerated
  BY <1>2, <1>3, <1>4, <1>6, GiveUpStep
<1> QED
  BY <1>5, <1>6

LEMMA ConfirmOkStep == IInv /\ ConfirmOk => IInv'
<1> SUFFICES ASSUME IInv, ConfirmOk PROVE IInv'
  OBVIOUS
<1>1. /\ command \in Commands /\ at \in 1..3 /\ Len(Writes(command)) = 3
      /\ pc = "confirm" /\ Advance /\ UNCHANGED device
  BY CurrentTyped DEF IInv, TypeOK, ConfirmOk
<1>2. TypeOK'
  BY <1>1, EspAssumption DEF IInv, TypeOK, Advance, device, EspAssumption
<1>3. Guarded'
  BY <1>1 DEF IInv, Guarded, StoppedBefore, device
<1>4. \A c \in Controls : Final(c)' = Final(c)
  BY <1>1, Same DEF device
<1>5. ~lost => Final(Current[1]) = Current[2]
  BY <1>1 DEF IInv, Written
<1>6. ~lost => \A c \in Controls :
                 IF c = Current[1] THEN Final(c)' = Current[2] \/ Tolerated
                                   ELSE Final(c)' = Final(c)
  BY <1>4, <1>5
<1> QED
  BY <1>1, <1>2, <1>3, <1>6, AdvanceStep DEF device

LEMMA ConfirmFailsStep == IInv /\ ConfirmFails => IInv'
<1> SUFFICES ASSUME IInv, ConfirmFails PROVE IInv'
  OBVIOUS
<1>1. /\ command \in Commands /\ at \in 1..3 /\ Len(Writes(command)) = 3
      /\ pc = "confirm" /\ Failed /\ UNCHANGED device
  BY CurrentTyped DEF IInv, TypeOK, ConfirmFails
<1>2. TypeOK'
  BY <1>1, EspAssumption DEF IInv, TypeOK, Failed, Advance, device, EspAssumption
<1>3. Guarded'
  BY <1>1 DEF IInv, Guarded, StoppedBefore, device
<1>4. \A c \in Controls : Final(c)' = Final(c)
  BY <1>1, Same DEF device
<1>5. CASE Tolerated
  <2>1. Advance
    BY <1>1, <1>5 DEF Failed
  <2> QED
    BY <1>1, <1>2, <1>3, <1>4, <1>5, <2>1, AdvanceStep DEF device
<1>6. CASE ~Tolerated
  BY <1>1, <1>2, <1>3, <1>6, GiveUpStep DEF device
<1> QED
  BY <1>5, <1>6

\* What the battery gets is what was on its way.
LEMMA ApplyStep == IInv /\ Apply => IInv'
<1> SUFFICES ASSUME IInv, Apply PROVE IInv'
  OBVIOUS
<1>1. /\ queue \in Seq(AllWrites) /\ queue # <<>> /\ battery \in Registers
      /\ battery' = Carry(battery, Head(queue)) /\ queue' = Tail(queue)
      /\ UNCHANGED client /\ UNCHANGED <<shown, age, lost>>
  BY DEF IInv, TypeOK, Apply
<1>2. /\ queue' \in Seq(AllWrites) /\ Len(queue') = Len(queue) - 1 /\ Len(queue) \in Nat
      /\ Head(queue) \in AllWrites
  BY <1>1, HeadTailProperties, LenProperties
<1>3. ASSUME NEW c \in Controls PROVE Final(c)' = Final(c)
  <2>1. Final(c)' = LastOf(Tail(queue), Carry(battery, Head(queue)), c)
    BY <1>1 DEF Final, LastOf
  <2>2. Final(c) = LastOf(queue, battery, c)
    BY FinalIsLast
  <2> QED
    BY <1>1, <2>1, <2>2, LastApply
<1>4. TypeOK'
  <2>1. battery' \in Registers
    BY <1>1, <1>2, WriteTyped DEF Registers, Carry
  <2>2. Len(queue') <= MaxQueued
    BY <1>2, EspAssumption DEF IInv, TypeOK, EspAssumption
  <2> QED
    BY <1>1, <1>2, <2>1, <2>2 DEF IInv, TypeOK, client
<1>5. waited = 0
  BY <1>1, EspAssumption DEF IInv, Places, TypeOK, EspAssumption
<1>6. Places'
  BY <1>1, <1>5 DEF IInv, Places, client
<1>7. Current' = Current /\ Current[1] \in Controls
  BY <1>1, CurrentTyped, WriteTyped DEF IInv, TypeOK, client, Current
<1>8. Written'
  BY <1>1, <1>3, <1>7 DEF IInv, Written, client, Controls
<1>9. Published'
  BY <1>1, <1>5, EspAssumption DEF IInv, TypeOK, Published, client, EspAssumption
<1>10. AnswerIsFinal'
  BY <1>1, <1>3 DEF IInv, AnswerIsFinal, client, Controls
<1> QED
  BY <1>4, <1>6, <1>8, <1>9, <1>10, GuardedApply DEF IInv

LEMMA LoseStep == IInv /\ Lose => IInv'
<1> SUFFICES ASSUME IInv, Lose PROVE IInv'
  OBVIOUS
<1>1. /\ queue \in Seq(AllWrites) /\ queue # <<>> /\ queue' = Tail(queue) /\ lost' = TRUE
      /\ UNCHANGED client /\ UNCHANGED <<battery, shown, age>>
  BY DEF IInv, TypeOK, Lose
<1>2. queue' \in Seq(AllWrites) /\ Len(queue') = Len(queue) - 1 /\ Len(queue) \in Nat
  BY <1>1, HeadTailProperties, LenProperties
<1>3. TypeOK'
  <2>1. Len(queue') <= MaxQueued
    BY <1>2, EspAssumption DEF IInv, TypeOK, EspAssumption
  <2> QED
    BY <1>1, <1>2, <2>1 DEF IInv, TypeOK, client
<1>4. Places'
  BY <1>1 DEF IInv, Places, client
<1> QED
  BY <1>1, <1>3, <1>4 DEF IInv, Written, Guarded, Published, AnswerIsFinal

\* A confirmation that has begun to wait has an empty queue before it, so that
\* what is published holds the write.
LEMMA PublishStep == IInv /\ Publish => IInv'
<1> SUFFICES ASSUME IInv, Publish PROVE IInv'
  OBVIOUS
<1>1. /\ shown' = battery /\ age' = 0
      /\ UNCHANGED client /\ UNCHANGED <<queue, battery, lost>>
  BY DEF Publish
<1>2. TypeOK'
  BY <1>1, EspAssumption DEF IInv, TypeOK, client, EspAssumption
<1>3. \A c : Final(c)' = Final(c)
  BY <1>1, Same
<1>4. Current' = Current
  BY <1>1 DEF client, Current
<1>5. Places' /\ Written' /\ Guarded' /\ AnswerIsFinal'
  BY <1>1, <1>3, <1>4
     DEF IInv, Places, Written, Guarded, StoppedBefore, AnswerIsFinal, client
<1>6. Published'
  <2> SUFFICES ASSUME ~lost, pc = "confirm", waited > 0
               PROVE  battery[Current[1]] = Current[2]
    BY <1>1, <1>4 DEF Published, client
  <2>1. queue = <<>> /\ queue \in Seq(AllWrites) /\ Final(Current[1]) = Current[2]
    BY DEF IInv, TypeOK, Places, Written
  <2>2. ASSUME NEW c PROVE Final(c) = battery[c]
    <3>1. Absent(queue, c)
      BY <2>1, EmptySeq DEF Absent
    <3>2. LastOf(queue, battery, c) = battery[c]
      BY <2>1, <3>1, LastIfNone
    <3> QED
      BY <3>2, FinalIsLast
  <2> QED
    BY <2>1, <2>2
<1> QED
  BY <1>2, <1>5, <1>6 DEF IInv

LEMMA ElapseStep == IInv /\ Elapse => IInv'
<1> SUFFICES ASSUME IInv, Elapse PROVE IInv'
  OBVIOUS
<1>1. /\ queue = <<>> /\ age < PublishEvery /\ pc # "post" /\ age' = age + 1
      /\ waited' = (IF pc = "confirm" /\ waited < Timeout THEN waited + 1 ELSE waited)
      /\ UNCHANGED <<command, at, pc, answer, queue, battery, shown, lost>>
  BY DEF Elapse
<1>2. waited \in 0..Timeout /\ age \in 0..PublishEvery /\ Timeout \in Nat /\ PublishEvery \in Nat
  BY EspAssumption DEF IInv, TypeOK, EspAssumption
<1>3. waited' \in 0..Timeout /\ age' \in 0..PublishEvery
      /\ (waited' > age' => waited > age) /\ (pc # "confirm" => waited' = waited)
  BY <1>1, <1>2
<1>4. TypeOK'
  BY <1>1, <1>3 DEF IInv, TypeOK
<1>5. \A c : Final(c)' = Final(c)
  BY <1>1, Same
<1>6. Current' = Current
  BY <1>1 DEF Current
<1>7. Places' /\ Written' /\ Guarded' /\ AnswerIsFinal'
  BY <1>1, <1>3, <1>5, <1>6
     DEF IInv, Places, Written, Guarded, StoppedBefore, AnswerIsFinal
<1>8. Published'
  BY <1>1, <1>3, <1>6 DEF IInv, Published
<1> QED
  BY <1>4, <1>7, <1>8 DEF IInv

LEMMA StutterStep == IInv /\ UNCHANGED vars => IInv'
<1> SUFFICES ASSUME IInv, UNCHANGED vars PROVE IInv'
  OBVIOUS
<1> USE DEF vars, client, device
<1>1. \A c : Final(c)' = Final(c)
  BY Same
<1>2. Current' = Current
  BY DEF Current
<1>3. TypeOK'
  BY DEF IInv, TypeOK
<1>4. Places' /\ Written' /\ Guarded' /\ Published' /\ AnswerIsFinal'
  BY <1>1, <1>2
     DEF IInv, Places, Written, Guarded, StoppedBefore, Published, AnswerIsFinal
<1> QED
  BY <1>3, <1>4 DEF IInv

(***************************************************************************)
(* Through writes, confirmations and publications in any order it holds    *)
(* what the registers will come to, and that a write giving the control    *)
(* back is behind a stop.                                                  *)
(***************************************************************************)
THEOREM Invariance == Spec => []IInv
<1>1. IInv /\ [Next]_vars => IInv'
  BY CallStep, PostOkStep, PostFailsStep, ConfirmOkStep, ConfirmFailsStep, ApplyStep,
     LoseStep, PublishStep, ElapseStep, StutterStep
     DEF Next, Client, Device
<1> QED
  BY InitHolds, <1>1, PTL DEF Spec

(***************************************************************************)
(* A call is at one of its three writes, and every write on its way is one *)
(* that setNumber or setSelect makes.                                      *)
(***************************************************************************)
THEOREM TypeCorrect == Spec => []TypeOK
BY Invariance, PTL DEF IInv

(***************************************************************************)
(* The confirmation decides rightly: an answer of success is final unless  *)
(* the Modbus lost a write, and the time of a write that arrived is never  *)
(* up before the device has published it.                                  *)
(***************************************************************************)
THEOREM ConfirmationRight == Spec => []ConfirmationDecides
<1>1. IInv => ConfirmationDecides
  <2> SUFFICES ASSUME IInv PROVE ConfirmationDecides
    OBVIOUS
  <2>1. waited = Timeout => waited > age
    BY EspAssumption DEF IInv, TypeOK, EspAssumption
  <2> QED
    BY <2>1 DEF IInv, Published, TimeoutCoversCycle, ConfirmationDecides
<1> QED
  BY <1>1, Invariance, PTL

(***************************************************************************)
(* The battery gives the remote control back only when it is stopped.      *)
(***************************************************************************)
LEMMA DisableStep ==
  ASSUME IInv, [Next]_vars, ~lost, battery.rs485 = "enable", battery'.rs485 = "disable"
  PROVE  battery.force = "stop"
<1>1. Apply
  BY DEF Next, Client, Device, Call, PostOk, PostFails, ConfirmOk, ConfirmFails, Lose,
         Publish, Elapse, vars, client, device
<1>2. /\ queue \in Seq(AllWrites) /\ queue # <<>> /\ battery \in Registers
      /\ battery' = Carry(battery, Head(queue))
  BY <1>1 DEF IInv, TypeOK, Apply
<1>3. Head(queue) = queue[1] /\ queue[1] \in AllWrites /\ 1 \in 1..Len(queue)
  BY <1>2, HeadTailProperties, LenProperties, EmptySeq, ElementOfSeq
<1>4. queue[1] = <<"rs485", "disable">>
  BY <1>2, <1>3, WriteTyped DEF Carry, Registers, Controls
<1>5. StoppedBefore(1)
  BY <1>3, <1>4 DEF IInv, Guarded
<1> QED
  BY <1>5 DEF StoppedBefore

(***************************************************************************)
(* As long as the Modbus loses nothing, the remote control is switched off *)
(* over a stopped battery only, also by writes of commands that were given *)
(* up (Idle, after its stop was confirmed).                                *)
(***************************************************************************)
THEOREM DisableRight == Spec => DisabledWhenStopped
<1>1. IInv /\ [Next]_vars =>
        [~lost /\ battery.rs485 = "enable" /\ battery'.rs485 = "disable"
           => battery.force = "stop"]_vars
  BY DisableStep
<1> QED
  BY <1>1, Invariance, PTL DEF Spec, DisabledWhenStopped

(***************************************************************************)
(* The client is a battery driver: its steps are steps of the port, or no  *)
(* steps of it.                                                            *)
(***************************************************************************)
LEMMA AdvanceKeepsPort ==
  ASSUME IInv, pc # "ready", ~lost, Advance, Final("force")' = Final("force"),
         Tolerated \/ Final(Current[1]) = Current[2]
  PROVE  Port!Succeed \/ UNCHANGED Port!vars
<1>1. command \in Commands /\ at \in 1..3 /\ Len(Writes(command)) = 3
  BY CurrentTyped DEF IInv, TypeOK
<1>2. CASE at = 3
  <2>1. pc' = "ready" /\ answer' = "ok"
    BY <1>1, <1>2 DEF Advance
  <2>2. Final("force") = command.mode
    BY <1>1, <1>2, Shapes DEF IInv, Written, Modes
  <2> QED
    BY <2>1, <2>2 DEF Port!Succeed, Running
<1>3. CASE at # 3
  BY <1>1, <1>3 DEF Advance, Port!vars, Running
<1> QED
  BY <1>2, <1>3

LEMMA FailedKeepsPort ==
  ASSUME IInv, pc # "ready", ~lost, Failed,
         \/ Final("force")' = Final("force")
         \/ Current[1] = "force" /\ Final("force")' = Current[2]
  PROVE  Port!Succeed \/ Port!Fail \/ UNCHANGED Port!vars
<1>1. command \in Commands /\ at \in 1..3 /\ command.mode \in Modes
  BY Shapes DEF IInv, TypeOK
<1>2. CASE Tolerated
  <2>1. Advance /\ Final("force")' = Final("force")
    BY <1>2 DEF Failed, Tolerated
  <2> QED
    BY <1>2, <2>1, AdvanceKeepsPort
<1>3. CASE ~Tolerated
  <2>1. pc' = "ready" /\ answer' = "error" /\ command' = command
    BY <1>3 DEF Failed
  <2>2. Current[1] = "force" => Current[2] = command.mode
    BY <1>1, Shapes DEF Modes
  <2>3. command.mode # "none"
    BY <1>1 DEF Modes
  <2> QED
    BY <2>1, <2>2, <2>3 DEF Port!Fail, Running
<1> QED
  BY <1>2, <1>3

LEMMA PortStep ==
  ASSUME IInv, Next
  PROVE  lost' \/ Port!Next \/ UNCHANGED Port!vars
<1> SUFFICES ASSUME ~lost' PROVE Port!Next \/ UNCHANGED Port!vars
  OBVIOUS
<1>1. /\ command \in Commands /\ at \in 1..3 /\ command.mode \in Modes
      /\ Current \in AllWrites
  BY Shapes, CurrentTyped DEF IInv, TypeOK
<1>2. CASE Call
  <2>1. Final("force")' = Final("force")
    BY <1>2, Same DEF Call
  <2>2. command'.mode \in Modes
    BY <1>2 DEF Call, Commands, Modes
  <2> QED
    BY <1>2, <2>1, <2>2 DEF Call, Port!Command, Port!Next, Running
<1>3. CASE PostOk
  <2>1. queue' = Append(queue, Current) /\ UNCHANGED battery /\ Running' = Running
        /\ answer' = answer /\ Running = command.mode
    BY <1>3 DEF PostOk, Accepted, Running
  <2>2. Final("force")' = IF Current[1] = "force" THEN Current[2] ELSE Final("force")
    BY <1>1, <2>1, Posted DEF IInv, Controls
  <2>3. Current[1] = "force" => Current[2] = command.mode
    BY <1>1, Shapes DEF Modes
  <2>4. command.mode # "none"
    BY <1>1 DEF Modes
  <2> QED
    BY <2>1, <2>2, <2>3, <2>4 DEF Port!Obey, Port!Next, Port!vars
<1>4. CASE PostFails
  <2>1. pc # "ready" /\ ~lost /\ Failed
    BY <1>4 DEF PostFails
  <2>2. \/ Final("force")' = Final("force")
        \/ Current[1] = "force" /\ Final("force")' = Current[2]
    <3>1. CASE UNCHANGED <<queue, battery>>
      BY <3>1, Same
    <3>2. CASE queue' = Append(queue, Current) /\ UNCHANGED battery
      <4>1. Final("force")' = IF Current[1] = "force" THEN Current[2] ELSE Final("force")
        BY <1>1, <3>2, Posted DEF IInv, Controls
      <4> QED
        BY <4>1
    <3> QED
      BY <1>4, <3>1, <3>2 DEF PostFails, Accepted
  <2> QED
    BY <2>1, <2>2, FailedKeepsPort DEF Port!Next
<1>5. CASE ConfirmOk
  <2>1. pc = "confirm" /\ ~lost /\ Advance /\ UNCHANGED <<queue, battery>>
    BY <1>5 DEF ConfirmOk, device
  <2>2. Final("force")' = Final("force")
    BY <2>1, Same
  <2>3. Final(Current[1]) = Current[2]
    BY <2>1 DEF IInv, Written
  <2> QED
    BY <2>1, <2>2, <2>3, AdvanceKeepsPort DEF Port!Next
<1>6. CASE ConfirmFails
  <2>1. pc = "confirm" /\ ~lost /\ Failed /\ UNCHANGED <<queue, battery>>
    BY <1>6 DEF ConfirmFails, device
  <2>2. Final("force")' = Final("force")
    BY <2>1, Same
  <2> QED
    BY <2>1, <2>2, FailedKeepsPort DEF Port!Next
<1>7. CASE Apply
  <2>1. Final("force")' = LastOf(Tail(queue), Carry(battery, Head(queue)), "force")
    BY <1>7 DEF Apply, Final, LastOf
  <2>2. /\ queue \in Seq(AllWrites) /\ queue # <<>> /\ battery \in Registers
        /\ "force" \in Controls
    BY <1>7 DEF Apply, IInv, TypeOK, Controls
  <2>3. Final("force")' = Final("force")
    BY <2>1, <2>2, LastApply, FinalIsLast
  <2> QED
    BY <1>7, <2>3 DEF Apply, client, Port!vars, Running
<1>8. CASE Lose
  BY <1>8 DEF Lose
<1>9. CASE Publish \/ Elapse
  <2>1. Final("force")' = Final("force")
    BY <1>9, Same DEF Publish, Elapse
  <2> QED
    BY <1>9, <2>1 DEF Publish, Elapse, client, Port!vars, Running
<1> QED
  BY <1>2, <1>3, <1>4, <1>5, <1>6, <1>7, <1>8, <1>9 DEF Next, Client, Device

LEMMA StutterKeepsPort == UNCHANGED vars => UNCHANGED Port!vars
<1> SUFFICES ASSUME UNCHANGED vars PROVE UNCHANGED Port!vars
  OBVIOUS
<1>1. Final("force")' = Final("force")
  BY Same DEF vars, device
<1> QED
  BY <1>1 DEF vars, client, Running, Port!vars

LEMMA PortInit == Init => Port!Init
<1> SUFFICES ASSUME Init PROVE Port!Init
  OBVIOUS
<1>1. queue = <<>> /\ queue \in Seq(AllWrites) /\ battery.force \in Modes
  BY EmptySeq DEF Init, Registers, Controls, Values
<1>2. Absent(queue, "force")
  BY <1>1, EmptySeq DEF Absent
<1>3. LastOf(queue, battery, "force") = battery["force"]
  BY <1>1, <1>2, LastIfNone
<1>4. Final("force") \in Modes
  BY <1>1, <1>3, FinalIsLast
<1> QED
  BY <1>4 DEF Init, Port!Init, Running

(***************************************************************************)
(* The client implements BatteryPort at every step unless the Modbus has   *)
(* lost a write: a command that answers with success has moved the battery *)
(* to its mode, and one that fails has left it as it was or moved it there.*)
(***************************************************************************)
THEOREM ClientKeepsPort == Spec => KeepsPort
<1>1. IInv /\ [Next]_vars => [lost' \/ Port!Next]_(Port!vars)
  BY PortStep, StutterKeepsPort
<1> QED
  BY <1>1, PortInit, Invariance, PTL DEF Spec, KeepsPort
==============================================================================
