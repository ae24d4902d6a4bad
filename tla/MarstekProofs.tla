---------------------------- MODULE MarstekProofs ----------------------------
(***************************************************************************)
(* The UDP client, for any number of readers and of requests.              *)
(***************************************************************************)
EXTENDS MarstekClient, TLAPS

\* One caller at a time has the socket, its deadline and a watcher.
Turns ==
  /\ \A c \in Callers : pc[c] \in {"send", "read", "close"} <=> mutex = c
  /\ \A c \in Callers : watcher[c] # "off" => pc[c] \in {"read", "close"}
  /\ deadline \in Callers => watcher[deadline] # "off"

\* Who calls what.
Calling ==
  /\ \A c \in Callers : pc[c] = "idle" <=> op[c] = "none"
  /\ \A c \in Callers : op[c] \in Modes => c = Loop

\* An id is given once.
Numbered ==
  /\ \A packet \in requests \cup answers : packet.id <= lastID
  /\ \A c \in Callers : id[c] <= lastID

\* What the answer to a pending request can tell.
Fresh ==
  \A c \in Callers : pc[c] = "read" =>
    /\ mode \in reading[c]
    /\ \A packet \in answers :
         packet.id = id[c] => packet.tells \in reading[c] \cup {"refused"}

\* What the command that is running has come to.
Driven ==
  op[Loop] \in Modes =>
    /\ pc[Loop] \in {"lock", "send", "read"} => ~told
    /\ pc[Loop] = "close" => (told <=> ~failed[Loop])
    /\ pc[Loop] \in {"read", "close"} =>
         \A packet \in requests : packet.id = id[Loop] => packet.what = op[Loop]
    /\ pc[Loop] = "read" /\ ~overtaken =>
         \A packet \in answers :
           packet.id = id[Loop] /\ packet.tells # "refused" => mode = op[Loop]
    /\ told /\ ~overtaken => mode = op[Loop]

\* A reading asks for no mode.
Asked ==
  pc[Loop] \in {"read", "close"} /\ op[Loop] \notin Modes =>
    \A packet \in requests : packet.id = id[Loop] => packet.what \notin Modes

IInv == TypeOK /\ Turns /\ Calling /\ Numbered /\ Fresh /\ Driven /\ Asked

-----------------------------------------------------------------------------
LEMMA RequestsOf ==
  /\ \A o \in Operations \cup {"none"} :
       Attempts(o) \in 1..3
  /\ \A o \in Operations : \A k \in 1..Attempts(o) : Requests(o)[k] \in Methods
  /\ \A o \in Modes : Attempts(o) = 1 /\ Requests(o)[1] = o
  /\ \A o \in Operations \ Modes : \A k \in 1..Attempts(o) : Requests(o)[k] \notin Modes
BY DEF Requests, Attempts, Operations, Methods, Modes, Reads

LEMMA InitHolds == Init => IInv
<1> SUFFICES ASSUME Init PROVE IInv
  OBVIOUS
<1> USE MarstekAssumption DEF Init, MarstekAssumption, Free
<1>1. "none" \in Operations \cup {"none"} /\ "none" \notin Modes
  BY DEF Modes
<1>2. Attempts("none") \in 1..3
  BY <1>1, RequestsOf
<1>3. TypeOK
  <2>1. \A c \in Callers : try[c] <= Attempts(op[c])
    BY <1>2
  <2>2. lastID \in 0..MaxRequests /\ id \in [Callers -> 0..MaxRequests]
    OBVIOUS
  <2>3. /\ pc \in [Callers -> {"idle", "lock", "send", "read", "close"}]
        /\ op \in [Callers -> Operations \cup {"none"}]
        /\ try \in [Callers -> 1..3]
        /\ failed \in [Callers -> BOOLEAN] /\ done \in [Callers -> BOOLEAN]
        /\ watcher \in [Callers -> {"off", "armed", "fired", "finished"}]
        /\ reading \in [Callers -> SUBSET Modes]
    OBVIOUS
  <2>4. /\ requests \subseteq RequestPackets /\ answers \subseteq AnswerPackets
        /\ mutex \in Callers \cup {Free} /\ deadline \in {"ahead", "expired"} \cup Callers
        /\ mode \in Modes /\ told \in BOOLEAN /\ overtaken \in BOOLEAN
    OBVIOUS
  <2> QED
    BY <2>1, <2>2, <2>3, <2>4 DEF TypeOK
<1>4. Turns
  BY DEF Turns
<1>5. Calling /\ Numbered /\ Fresh /\ Driven /\ Asked
  BY <1>1 DEF Calling, Numbered, Fresh, Driven, Asked, Callers
<1> QED
  BY <1>3, <1>4, <1>5 DEF IInv

\* The parts of the invariant that follow a call through its places.
LEMMA ReturnKeeps ==
  ASSUME IInv, NEW c \in Callers, NEW error \in BOOLEAN, Return(c, error), pc[c] # "idle"
  PROVE  /\ pc' \in [Callers -> {"idle", "lock", "send", "read", "close"}]
         /\ op' \in [Callers -> Operations \cup {"none"}]
         /\ try' \in [Callers -> 1..3] /\ \A d \in Callers : try'[d] <= Attempts(op'[d])
         /\ done' \in [Callers -> BOOLEAN]
         /\ \A d \in Callers : d # c => pc'[d] = pc[d] /\ op'[d] = op[d]
         /\ \/ pc'[c] = "lock" /\ op'[c] = op[c] /\ op[c] \notin Modes
            \/ pc'[c] = "idle" /\ op'[c] = "none"
<1> USE DEF IInv, TypeOK, Goto
<1>1. CASE error /\ try[c] < Attempts(op[c])
  <2>1. /\ try' = [try EXCEPT ![c] = @ + 1] /\ pc' = [pc EXCEPT ![c] = "lock"]
        /\ op' = op /\ done' = done
    BY <1>1 DEF Return
  <2>2. op[c] \in Operations \cup {"none"} /\ try[c] \in 1..3 /\ Attempts(op[c]) \in 1..3
    BY RequestsOf
  <2>3. op[c] \notin Modes
    <3>1. op[c] \in Modes => Attempts(op[c]) = 1
      BY RequestsOf
    <3> QED
      BY <1>1, <2>2, <3>1
  <2>4. \A d \in Callers : d # c => try'[d] = try[d]
    BY <2>1
  <2>5. try'[c] = try[c] + 1 /\ try[c] + 1 \in 1..3 /\ try[c] + 1 <= Attempts(op[c])
    BY <1>1, <2>1, <2>2
  <2>6. \A d \in Callers : try'[d] <= Attempts(op'[d])
    BY <2>1, <2>4, <2>5
  <2>7. try' \in [Callers -> 1..3]
    BY <2>1, <2>5
  <2> QED
    BY <2>1, <2>3, <2>6, <2>7
<1>2. CASE ~(error /\ try[c] < Attempts(op[c]))
  <2>1. /\ try' = [try EXCEPT ![c] = 1] /\ pc' = [pc EXCEPT ![c] = "idle"]
        /\ op' = [op EXCEPT ![c] = "none"] /\ done' = [done EXCEPT ![c] = FALSE]
    BY <1>2 DEF Return
  <2>2. 1 <= Attempts("none")
    <3>1. "none" \in Operations \cup {"none"}
      OBVIOUS
    <3>2. Attempts("none") \in 1..3
      BY <3>1, RequestsOf
    <3> QED
      BY <3>2
  <2> QED
    BY <2>1, <2>2
<1> QED
  BY <1>1, <1>2
-----------------------------------------------------------------------------
(* Types.                                                                  *)

LEMMA TypeStep == IInv /\ [Next]_vars => TypeOK'
<1> SUFFICES ASSUME IInv, [Next]_vars PROVE TypeOK'
  OBVIOUS
<1> USE DEF IInv, TypeOK
<1>0. lastID \in Nat /\ MaxRequests \in Nat /\ Operations \cap {"none"} = {}
  BY MarstekAssumption DEF MarstekAssumption, Operations, Modes, Reads
<1>1. ASSUME NEW c \in Callers, NEW o \in Operations, Begin(c, o) PROVE TypeOK'
  <2>1. 1 <= Attempts(o) /\ Attempts(o) \in 1..3
    BY RequestsOf
  <2>2. /\ op' = [op EXCEPT ![c] = o] /\ try' = [try EXCEPT ![c] = 1]
        /\ \A d \in Callers : try'[d] <= Attempts(op'[d])
    BY <1>1, <2>1 DEF Begin
  <2> QED
    BY <1>1, <2>2 DEF Begin, Goto, network
<1>2. ASSUME NEW c \in Callers, Lock(c) PROVE TypeOK'
  BY <1>2 DEF Lock, Goto, context, network, history
<1>3. ASSUME NEW c \in Callers, LockGivenUp(c) PROVE TypeOK'
  BY <1>3, ReturnKeeps DEF LockGivenUp, network, history
<1>4. ASSUME NEW c \in Callers, SendFails(c) PROVE TypeOK'
  <2>1. lastID' \in 0..MaxRequests
    BY <1>0, <1>4 DEF SendFails
  <2>2. /\ Return(c, TRUE) /\ pc[c] = "send" /\ mutex' = Free
        /\ UNCHANGED <<id, failed, watcher, deadline, network, history>>
    BY <1>4 DEF SendFails
  <2>3. /\ pc' \in [Callers -> {"idle", "lock", "send", "read", "close"}]
        /\ op' \in [Callers -> Operations \cup {"none"}] /\ try' \in [Callers -> 1..3]
        /\ \A d \in Callers : try'[d] <= Attempts(op'[d])
        /\ done' \in [Callers -> BOOLEAN]
    BY <2>2, ReturnKeeps
  <2> QED
    BY <2>1, <2>2, <2>3 DEF network, history
<1>5. ASSUME NEW c \in Callers, Send(c) PROVE TypeOK'
  <2>1. lastID' = lastID + 1 /\ lastID' \in 1..MaxRequests
    BY <1>0, <1>5 DEF Send
  <2>2. op[c] \in Operations /\ try[c] \in 1..Attempts(op[c])
    BY <1>5, RequestsOf DEF Send, Calling
  <2>3. Requests(op[c])[try[c]] \in Methods
    BY <2>2, RequestsOf
  <2>4. requests' \subseteq RequestPackets
    BY <1>5, <2>1, <2>3 DEF Send, RequestPackets
  <2> QED
    BY <1>5, <2>1, <2>4 DEF Send, Goto
<1>6. ASSUME NEW c \in Callers, NEW packet \in answers, Skip(c, packet) PROVE TypeOK'
  BY <1>6 DEF Skip, call, context, history
<1>7. ASSUME NEW c \in Callers, NEW packet \in answers, Receive(c, packet) PROVE TypeOK'
  BY <1>7 DEF Receive, Goto, context
<1>8. ASSUME NEW c \in Callers, ReadFails(c) PROVE TypeOK'
  BY <1>8 DEF ReadFails, Goto, context, network
<1>9. ASSUME NEW c \in Callers, Close(c) PROVE TypeOK'
  <2>1. /\ Return(c, failed[c]) /\ failed[c] \in BOOLEAN /\ pc[c] = "close"
    BY <1>9 DEF Close
  <2>2. /\ pc' \in [Callers -> {"idle", "lock", "send", "read", "close"}]
        /\ op' \in [Callers -> Operations \cup {"none"}] /\ try' \in [Callers -> 1..3]
        /\ \A d \in Callers : try'[d] <= Attempts(op'[d])
        /\ done' \in [Callers -> BOOLEAN]
    BY <2>1, ReturnKeeps
  <2> QED
    <3>1. id' \in [Callers -> 0..MaxRequests]
      BY <1>0, <1>9 DEF Close
    <3>2. /\ failed' \in [Callers -> BOOLEAN] /\ deadline' = "ahead" /\ mutex' = Free
          /\ watcher' \in [Callers -> {"off", "armed", "fired", "finished"}]
          /\ UNCHANGED <<lastID, requests, answers, mode, told, overtaken, reading>>
      BY <1>9 DEF Close, network, history
    <3> QED
      BY <2>2, <3>1, <3>2
<1>10. ASSUME NEW c \in Callers, Cancel(c) \/ Wake(c) PROVE TypeOK'
  <2>1. CASE Cancel(c)
    BY <2>1 DEF Cancel, call, network, history
  <2>2. CASE Wake(c)
    BY <2>2 DEF Wake, call, network, history
  <2> QED
    BY <1>10, <2>1, <2>2
<1>11. CASE Expire
  BY <1>11 DEF Expire, call, context, network, history
<1>12. ASSUME NEW packet \in requests, NEW obeyed \in BOOLEAN, NEW answered \in BOOLEAN,
              Deliver(packet, obeyed, answered)
       PROVE  TypeOK'
  <2>1. packet.id \in 1..MaxRequests /\ mode' \in Modes
    BY <1>12 DEF Deliver, Witnessed, RequestPackets
  <2>2. answers' \subseteq AnswerPackets
    BY <1>12, <2>1 DEF Deliver, Witnessed, AnswerPackets
  <2> QED
    BY <1>12, <2>1, <2>2 DEF Deliver, Witnessed, call, context
<1>13. CASE Lapse
  BY <1>13 DEF Lapse, Witnessed, Modes, call, context
<1>14. CASE UNCHANGED vars
  BY <1>14 DEF vars, call, context, network, history
<1> QED
  BY <1>1, <1>2, <1>3, <1>4, <1>5, <1>6, <1>7, <1>8, <1>9, <1>10, <1>11, <1>12, <1>13, <1>14
     DEF Next, Own
-----------------------------------------------------------------------------
(* The other parts.                                                        *)

LEMMA TurnsStep == IInv /\ [Next]_vars => Turns'
<1> SUFFICES ASSUME IInv, [Next]_vars PROVE Turns'
  OBVIOUS
<1>0. ASSUME NEW c \in Callers, NEW error \in BOOLEAN, Return(c, error), pc[c] # "idle"
      PROVE  /\ \A d \in Callers : d # c => pc'[d] = pc[d]
             /\ pc'[c] \in {"lock", "idle"}
  BY <1>0, ReturnKeeps
<1> USE MarstekAssumption DEF IInv, TypeOK, Turns, MarstekAssumption, Free
<1>1. ASSUME NEW c \in Callers, NEW o \in Operations, Begin(c, o) PROVE Turns'
  BY <1>1 DEF Begin, Goto
<1>2. ASSUME NEW c \in Callers, Lock(c) PROVE Turns'
  BY <1>2 DEF Lock, Goto, context
<1>3. ASSUME NEW c \in Callers, LockGivenUp(c) PROVE Turns'
  <2>1. /\ \A d \in Callers : d # c => pc'[d] = pc[d]
        /\ pc[c] = "lock" /\ pc'[c] \in {"lock", "idle"}
        /\ UNCHANGED <<watcher, mutex, deadline>>
    <3>1. Return(c, TRUE) /\ pc[c] = "lock"
      BY <1>3 DEF LockGivenUp
    <3> QED
      BY <1>3, <1>0, <3>1 DEF LockGivenUp
  <2> QED
    BY <2>1
<1>4. ASSUME NEW c \in Callers, SendFails(c) PROVE Turns'
  <2>1. /\ \A d \in Callers : d # c => pc'[d] = pc[d]
        /\ pc[c] = "send" /\ pc'[c] \in {"lock", "idle"}
        /\ mutex' = Free /\ UNCHANGED <<watcher, deadline>>
    <3>1. Return(c, TRUE) /\ pc[c] = "send"
      BY <1>4 DEF SendFails
    <3> QED
      BY <1>4, <1>0, <3>1 DEF SendFails
  <2> QED
    BY <2>1
<1>5. ASSUME NEW c \in Callers, Send(c) PROVE Turns'
  BY <1>5 DEF Send, Goto
<1>6. ASSUME NEW c \in Callers, NEW packet \in answers, Skip(c, packet) PROVE Turns'
  BY <1>6 DEF Skip, call, context
<1>7. ASSUME NEW c \in Callers, NEW packet \in answers, Receive(c, packet) PROVE Turns'
  BY <1>7 DEF Receive, Goto, context
<1>8. ASSUME NEW c \in Callers, ReadFails(c) PROVE Turns'
  BY <1>8 DEF ReadFails, Goto, context
<1>9. ASSUME NEW c \in Callers, Close(c) PROVE Turns'
  <2>1. /\ \A d \in Callers : d # c => pc'[d] = pc[d]
        /\ pc[c] = "close" /\ pc'[c] \in {"lock", "idle"}
        /\ mutex' = Free /\ deadline' = "ahead"
        /\ watcher' = [watcher EXCEPT ![c] = "off"]
    <3>1. failed[c] \in BOOLEAN /\ Return(c, failed[c]) /\ pc[c] = "close"
      BY <1>9 DEF Close
    <3> QED
      BY <1>9, <1>0, <3>1 DEF Close
  <2> QED
    BY <2>1
<1>10. ASSUME NEW c \in Callers, Cancel(c) \/ Wake(c) PROVE Turns'
  BY <1>10 DEF Cancel, Wake, call
<1>11. CASE Expire
  BY <1>11 DEF Expire, call, context
<1>12. CASE UNCHANGED <<pc, watcher, mutex, deadline>>
  BY <1>12
<1> QED
  BY <1>1, <1>2, <1>3, <1>4, <1>5, <1>6, <1>7, <1>8, <1>9, <1>10, <1>11, <1>12
     DEF Next, Own, Deliver, Lapse, vars, call, context

LEMMA CallingStep == IInv /\ [Next]_vars => Calling'
<1> SUFFICES ASSUME IInv, [Next]_vars PROVE Calling'
  OBVIOUS
<1> USE DEF IInv, TypeOK, Calling
<1>1. ASSUME NEW c \in Callers, NEW o \in Operations, Begin(c, o) PROVE Calling'
  BY <1>1 DEF Begin, Goto, Operations, Modes, Reads
<1>2. ASSUME NEW c \in Callers, LockGivenUp(c) \/ SendFails(c) \/ Close(c) PROVE Calling'
  <2>0. failed[c] \in BOOLEAN
    OBVIOUS
  <2>1. \E error \in BOOLEAN : Return(c, error) /\ pc[c] # "idle"
    BY <1>2, <2>0 DEF LockGivenUp, SendFails, Close
  <2>2. /\ \A d \in Callers : d # c => pc'[d] = pc[d] /\ op'[d] = op[d]
        /\ \/ pc'[c] = "lock" /\ op'[c] = op[c]
           \/ pc'[c] = "idle" /\ op'[c] = "none"
    BY <2>1, ReturnKeeps
  <2> QED
    BY <2>1, <2>2 DEF Modes
<1>3. ASSUME NEW c \in Callers, Lock(c) \/ Send(c) \/ ReadFails(c) PROVE Calling'
  BY <1>3 DEF Lock, Send, ReadFails, Goto
<1>4. ASSUME NEW c \in Callers, NEW packet \in answers, Receive(c, packet) PROVE Calling'
  BY <1>4 DEF Receive, Goto
<1>5. CASE UNCHANGED <<pc, op>>
  BY <1>5
<1> QED
  BY <1>1, <1>2, <1>3, <1>4, <1>5
     DEF Next, Own, Skip, Cancel, Wake, Expire, Deliver, Lapse, vars, call

LEMMA NumberedStep == IInv /\ [Next]_vars => Numbered'
<1> SUFFICES ASSUME IInv, [Next]_vars PROVE Numbered'
  OBVIOUS
<1> USE DEF IInv, TypeOK, Numbered, network
<1>0. /\ lastID \in Nat /\ \A c \in Callers : id[c] \in Nat
      /\ \A packet \in requests \cup answers : packet.id \in Nat
  BY MarstekAssumption DEF MarstekAssumption, RequestPackets, AnswerPackets
<1>1. ASSUME NEW c \in Callers, Send(c) PROVE Numbered'
  <2>1. /\ lastID' = lastID + 1 /\ answers' = answers /\ id' = [id EXCEPT ![c] = lastID']
        /\ \A packet \in requests' : packet \in requests \/ packet.id = lastID'
    BY <1>1 DEF Send
  <2> QED
    BY <1>0, <2>1
<1>2. ASSUME NEW c \in Callers, SendFails(c) PROVE Numbered'
  <2>1. lastID' \in {lastID, lastID + 1} /\ UNCHANGED <<id, requests, answers>>
    BY <1>2 DEF SendFails
  <2> QED
    BY <1>0, <2>1
<1>3. ASSUME NEW c \in Callers, Close(c) PROVE Numbered'
  <2>1. id' = [id EXCEPT ![c] = 0] /\ UNCHANGED <<lastID, requests, answers>>
    BY <1>3 DEF Close
  <2> QED
    BY <1>0, <2>1
<1>4. ASSUME NEW packet \in requests, NEW obeyed \in BOOLEAN, NEW answered \in BOOLEAN,
             Deliver(packet, obeyed, answered)
      PROVE  Numbered'
  <2>1. /\ UNCHANGED <<lastID, id>> /\ requests' \subseteq requests
        /\ \A other \in answers' : other \in answers \/ other.id = packet.id
    BY <1>4 DEF Deliver, Witnessed, call
  <2> QED
    BY <2>1
<1>5. CASE UNCHANGED <<lastID, id>> /\ requests' \subseteq requests /\ answers' \subseteq answers
  BY <1>5
<1> QED
  BY <1>1, <1>2, <1>3, <1>4, <1>5
     DEF Next, Own, Begin, Lock, LockGivenUp, Skip, Receive, ReadFails, Cancel, Wake, Expire,
         Lapse, vars, call

LEMMA FreshStep == IInv /\ [Next]_vars => Fresh'
<1> SUFFICES ASSUME IInv, [Next]_vars PROVE Fresh'
  OBVIOUS
<1> USE DEF IInv, TypeOK, Fresh
<1>1. ASSUME NEW c \in Callers, Send(c) PROVE Fresh'
  <2>1. /\ pc' = [pc EXCEPT ![c] = "read"] /\ id' = [id EXCEPT ![c] = lastID + 1]
        /\ reading' = [reading EXCEPT ![c] = {mode}] /\ UNCHANGED <<answers, mode>>
    BY <1>1 DEF Send, Goto
  <2>2. \A packet \in answers : packet.id # lastID + 1
    BY MarstekAssumption DEF Numbered, AnswerPackets, MarstekAssumption
  <2> QED
    BY <2>1, <2>2
<1>2. ASSUME NEW packet \in requests, NEW obeyed \in BOOLEAN, NEW answered \in BOOLEAN,
             Deliver(packet, obeyed, answered)
      PROVE  Fresh'
  <2>1. /\ UNCHANGED <<pc, id>>
        /\ reading' = [c \in Callers |-> IF pc[c] = "read" THEN reading[c] \cup {mode'} ELSE {}]
        /\ \A other \in answers' : other \in answers \/ other.tells \in {mode', "refused"}
    BY <1>2 DEF Deliver, Witnessed, call
  <2> QED
    BY <2>1
<1>3. ASSUME NEW c \in Callers, NEW packet \in answers, Receive(c, packet) PROVE Fresh'
  BY <1>3 DEF Receive, Goto
<1>4. ASSUME NEW c \in Callers, ReadFails(c) PROVE Fresh'
  BY <1>4 DEF ReadFails, Goto, network
<1>5. ASSUME NEW c \in Callers, LockGivenUp(c) \/ SendFails(c) \/ Close(c) PROVE Fresh'
  <2>0. failed[c] \in BOOLEAN
    OBVIOUS
  <2>1. \E error \in BOOLEAN : Return(c, error) /\ pc[c] # "idle"
    BY <1>5, <2>0 DEF LockGivenUp, SendFails, Close
  <2>2. /\ \A d \in Callers : d # c => pc'[d] = pc[d]
        /\ pc'[c] # "read"
    BY <2>1, ReturnKeeps
  <2>3. /\ \A d \in Callers : d # c => id'[d] = id[d]
        /\ UNCHANGED <<mode, answers, reading>>
    BY <1>5 DEF LockGivenUp, SendFails, Close, network, history
  <2> QED
    BY <2>2, <2>3
<1>6. ASSUME NEW c \in Callers, NEW o \in Operations, Begin(c, o) PROVE Fresh'
  BY <1>6 DEF Begin, Goto, network
<1>7. ASSUME NEW c \in Callers, Lock(c) PROVE Fresh'
  BY <1>7 DEF Lock, Goto, network, history
<1>8. CASE UNCHANGED <<pc, id, mode, reading>> /\ answers' \subseteq answers
  BY <1>8
<1>9. CASE Lapse
  BY <1>9 DEF Lapse, Witnessed, call
<1> QED
  BY <1>1, <1>2, <1>3, <1>4, <1>5, <1>6, <1>7, <1>8, <1>9
     DEF Next, Own, Skip, Cancel, Wake, Expire, vars, call, network, history

LEMMA DrivenStep == IInv /\ [Next]_vars => Driven'
<1> SUFFICES ASSUME IInv, [Next]_vars PROVE Driven'
  OBVIOUS
<1> USE DEF IInv, TypeOK, Driven
<1>0. Loop \in Callers
  BY DEF Callers
<1>1. ASSUME NEW c \in Callers, NEW o \in Operations, Begin(c, o) PROVE Driven'
  <2>1. CASE c = Loop
    BY <1>0, <1>1, <2>1 DEF Begin, Goto
  <2>2. CASE c # Loop
    <3>1. o \notin Modes /\ pc'[Loop] = pc[Loop] /\ op'[Loop] = op[Loop]
          /\ told' = told /\ overtaken' = overtaken
          /\ UNCHANGED <<id, failed, requests, answers, mode>>
      BY <1>0, <1>1, <2>2 DEF Begin, Goto, network, Modes
    <3> QED
      BY <3>1
  <2> QED
    BY <2>1, <2>2
<1>2. ASSUME NEW c \in Callers, LockGivenUp(c) \/ SendFails(c) \/ Close(c) PROVE Driven'
  <2>0. failed[c] \in BOOLEAN
    OBVIOUS
  <2>1. \E error \in BOOLEAN : Return(c, error) /\ pc[c] # "idle"
    BY <1>2, <2>0 DEF LockGivenUp, SendFails, Close
  <2>2. /\ \A d \in Callers : d # c => pc'[d] = pc[d] /\ op'[d] = op[d]
        /\ \/ op'[c] = op[c] /\ op[c] \notin Modes
           \/ op'[c] = "none"
    BY <2>1, ReturnKeeps
  <2>3. /\ \A d \in Callers : d # c => id'[d] = id[d] /\ failed'[d] = failed[d]
        /\ UNCHANGED <<requests, answers, mode, told, overtaken>>
    BY <1>2 DEF LockGivenUp, SendFails, Close, network, history
  <2>4. CASE c = Loop
    BY <2>2, <2>4 DEF Modes
  <2>5. CASE c # Loop
    BY <1>0, <2>2, <2>3, <2>5
  <2> QED
    BY <2>4, <2>5
<1>3. ASSUME NEW c \in Callers, Lock(c) PROVE Driven'
  BY <1>0, <1>3 DEF Lock, Goto, network, history
<1>4. ASSUME NEW c \in Callers, Send(c) PROVE Driven'
  <2>1. /\ pc' = [pc EXCEPT ![c] = "read"] /\ id' = [id EXCEPT ![c] = lastID + 1]
        /\ requests' = requests \cup {[id |-> lastID + 1, what |-> Requests(op[c])[try[c]]]}
        /\ UNCHANGED <<op, failed, answers, mode, told, overtaken>> /\ pc[c] = "send"
    BY <1>4 DEF Send, Goto
  <2>2. \A packet \in requests \cup answers : packet.id # lastID + 1
    BY MarstekAssumption DEF Numbered, AnswerPackets, RequestPackets, MarstekAssumption
  <2>3. CASE c = Loop
    <3>1. op[Loop] \in Modes => Requests(op[c])[try[c]] = op[Loop]
      <4>1. SUFFICES ASSUME op[Loop] \in Modes PROVE Requests(op[c])[try[c]] = op[Loop]
        OBVIOUS
      <4>2. Attempts(op[c]) = 1 /\ Requests(op[c])[1] = op[c]
        BY <2>3, <4>1, RequestsOf
      <4>3. try[c] = 1
        BY <4>2
      <4> QED
        BY <2>3, <4>2, <4>3
    <3> QED
      BY <1>0, <2>1, <2>2, <2>3, <3>1
  <2>4. CASE c # Loop
    <3>1. pc'[Loop] = pc[Loop] /\ id'[Loop] = id[Loop]
      BY <1>0, <2>1, <2>4
    <3>2. pc[Loop] \notin {"read", "close"}
      BY <1>0, <2>1, <2>4 DEF Turns
    <3> QED
      BY <2>1, <3>1, <3>2
  <2> QED
    BY <2>3, <2>4
<1>5. ASSUME NEW c \in Callers, NEW packet \in answers, Receive(c, packet) PROVE Driven'
  <2>1. /\ pc[c] = "read" /\ packet.id = id[c] /\ pc' = [pc EXCEPT ![c] = "close"]
        /\ failed' = [failed EXCEPT ![c] = packet.tells = "refused"]
        /\ told' = IF op[c] \in Modes THEN packet.tells # "refused" ELSE told
        /\ answers' \subseteq answers
        /\ UNCHANGED <<op, id, requests, mode, overtaken>>
    BY <1>5 DEF Receive, Goto, context
  <2>2. CASE c = Loop
    <3>1. pc'[Loop] = "close" /\ failed'[Loop] = (packet.tells = "refused")
      BY <1>0, <2>1, <2>2
    <3> QED
      BY <2>1, <2>2, <3>1
  <2>3. CASE c # Loop
    BY <1>0, <2>1, <2>3 DEF Calling
  <2> QED
    BY <2>2, <2>3
<1>6. ASSUME NEW c \in Callers, ReadFails(c) PROVE Driven'
  BY <1>0, <1>6 DEF ReadFails, Goto, network
<1>7. ASSUME NEW packet \in requests, NEW obeyed \in BOOLEAN, NEW answered \in BOOLEAN,
             Deliver(packet, obeyed, answered)
      PROVE  Driven'
  <2>1. /\ UNCHANGED <<pc, op, id, failed, told>> /\ requests' \subseteq requests
        /\ mode' = IF obeyed /\ packet.what \in Modes THEN packet.what ELSE mode
        /\ overtaken' = (overtaken \/ (mode' # mode /\ ~Running(packet)))
        /\ \A other \in answers' :
             \/ other \in answers
             \/ other = [id |-> packet.id, tells |-> IF obeyed THEN mode' ELSE "refused"]
    BY <1>7 DEF Deliver, Witnessed, call, context
  <2>2. obeyed \/ packet.what \in Modes
    BY <1>7 DEF Deliver, Witnessed
  <2>3. SUFFICES ASSUME op[Loop] \in Modes PROVE Driven'
    BY <2>1
  <2>4. CASE Running(packet)
    <3>1. packet.what = op[Loop] /\ (mode' = mode \/ mode' = op[Loop]) /\ (obeyed => mode' = op[Loop])
      BY <2>1, <2>3, <2>4 DEF Running
    <3>2. \A other \in answers' :
            other \in answers \/ (other.id = packet.id /\ (other.tells # "refused" => mode' = op[Loop]))
      BY <2>1, <3>1
    <3> QED
      BY <2>1, <2>3, <3>1, <3>2
  <2>5. CASE ~Running(packet)
    <3>1. pc[Loop] \in {"read", "close"} => packet.id # id[Loop]
      BY <2>5 DEF Running
    <3>2. ~overtaken' => ~overtaken /\ mode' = mode
      BY <2>1, <2>5
    <3>3. pc[Loop] = "read" => \A other \in answers' : other.id = id[Loop] => other \in answers
      BY <2>1, <3>1
    <3> QED
      BY <2>1, <2>3, <3>2, <3>3
  <2> QED
    BY <2>4, <2>5
<1>8. CASE /\ UNCHANGED <<pc, op, id, failed, mode, told, overtaken>>
           /\ requests' \subseteq requests /\ answers' \subseteq answers
  BY <1>8
<1> QED
  BY <1>1, <1>2, <1>3, <1>4, <1>5, <1>6, <1>7, <1>8
     DEF Next, Own, Skip, Cancel, Wake, Expire, Lapse, vars, call, network, history

LEMMA AskedStep == IInv /\ [Next]_vars => Asked'
<1> SUFFICES ASSUME IInv, [Next]_vars PROVE Asked'
  OBVIOUS
<1> USE DEF IInv, TypeOK, Asked
<1>0. Loop \in Callers
  BY DEF Callers
<1>1. ASSUME NEW c \in Callers, Send(c) PROVE Asked'
  <2>1. /\ pc' = [pc EXCEPT ![c] = "read"] /\ id' = [id EXCEPT ![c] = lastID + 1]
        /\ requests' = requests \cup {[id |-> lastID + 1, what |-> Requests(op[c])[try[c]]]}
        /\ op' = op /\ pc[c] = "send"
    BY <1>1 DEF Send, Goto
  <2>2. \A packet \in requests : packet.id # lastID + 1
    BY MarstekAssumption DEF Numbered, RequestPackets, MarstekAssumption
  <2>3. CASE c = Loop
    <3>1. op[c] \in Operations /\ try[c] \in 1..Attempts(op[c])
      BY <2>1, RequestsOf DEF Calling
    <3>2. op[Loop] \notin Modes => Requests(op[c])[try[c]] \notin Modes
      BY <2>3, <3>1, RequestsOf
    <3> QED
      BY <1>0, <2>1, <2>2, <2>3, <3>2
  <2>4. CASE c # Loop
    <3>1. pc'[Loop] = pc[Loop] /\ pc[Loop] \notin {"read", "close"}
      BY <1>0, <2>1, <2>4 DEF Turns
    <3> QED
      BY <3>1
  <2> QED
    BY <2>3, <2>4
<1>2. ASSUME NEW c \in Callers, LockGivenUp(c) \/ SendFails(c) \/ Close(c) PROVE Asked'
  <2>0. failed[c] \in BOOLEAN
    OBVIOUS
  <2>1. \E error \in BOOLEAN : Return(c, error) /\ pc[c] # "idle"
    BY <1>2, <2>0 DEF LockGivenUp, SendFails, Close
  <2>2. /\ \A d \in Callers : d # c => pc'[d] = pc[d] /\ op'[d] = op[d]
        /\ pc'[c] \in {"lock", "idle"}
    BY <2>1, ReturnKeeps
  <2>3. (\A d \in Callers : d # c => id'[d] = id[d]) /\ requests' = requests
    BY <1>2 DEF LockGivenUp, SendFails, Close, network
  <2> QED
    BY <1>0, <2>2, <2>3
<1>3. ASSUME NEW c \in Callers, NEW o \in Operations, Begin(c, o) PROVE Asked'
  <2>1. /\ pc' = [pc EXCEPT ![c] = "lock"] /\ op' = [op EXCEPT ![c] = o]
        /\ UNCHANGED <<id, requests>>
    BY <1>3 DEF Begin, Goto, network
  <2> QED
    BY <1>0, <2>1
<1>4. ASSUME NEW c \in Callers, Lock(c) PROVE Asked'
  BY <1>0, <1>4 DEF Lock, Goto, network
<1>5. ASSUME NEW c \in Callers, ReadFails(c) PROVE Asked'
  BY <1>0, <1>5 DEF ReadFails, Goto, network
<1>6. ASSUME NEW c \in Callers, NEW packet \in answers, Receive(c, packet) PROVE Asked'
  BY <1>0, <1>6 DEF Receive, Goto
<1>7. CASE UNCHANGED <<pc, op, id>> /\ requests' \subseteq requests
  BY <1>7
<1> QED
  BY <1>1, <1>2, <1>3, <1>4, <1>5, <1>6, <1>7
     DEF Next, Own, Skip, Cancel, Wake, Expire, Deliver, Lapse, vars, call, network

(***************************************************************************)
(* One caller at a time has the socket, ids are given once, and every      *)
(* answer on its way is known for the request it belongs to, in any order  *)
(* of delivery.                                                            *)
(***************************************************************************)
THEOREM Invariance == Spec => []IInv
<1>1. IInv /\ [Next]_vars => IInv'
  <2>1. ASSUME IInv, [Next]_vars PROVE IInv'
    <3>1. TypeOK' /\ Turns' /\ Calling' /\ Numbered' /\ Fresh' /\ Driven' /\ Asked'
      BY <2>1, TypeStep, TurnsStep, CallingStep, NumberedStep, FreshStep, DrivenStep, AskedStep
    <3> QED
      BY <3>1 DEF IInv
  <2> QED
    BY <2>1
<1> QED
  BY <1>1, InitHolds, PTL DEF Spec

(***************************************************************************)
(* Callers, requests, answers and the deadline of the socket stay of their *)
(* kinds.                                                                  *)
(***************************************************************************)
THEOREM TypeCorrect == Spec => []TypeOK
BY Invariance, PTL DEF IInv

-----------------------------------------------------------------------------
(* What follows from it.                                                   *)

(* No call is timed out by the context of another one.                     *)
THEOREM DeadlineOwned == Spec => []OwnDeadline
<1>1. IInv => OwnDeadline
  BY MarstekAssumption DEF IInv, TypeOK, Turns, OwnDeadline, MarstekAssumption, Free
<1> QED
  BY <1>1, Invariance, PTL

LEMMA AcceptStep ==
  IInv /\ [Next]_vars =>
    \A c \in Callers : Accepts(c) =>
      \A packet \in answers \ answers' : packet.tells \in reading[c]
<1> SUFFICES ASSUME IInv, [Next]_vars, NEW c \in Callers, Accepts(c),
                    NEW other \in answers \ answers'
             PROVE  other.tells \in reading[c]
  OBVIOUS
<1> USE DEF IInv, TypeOK, Accepts
<1>1. CASE \E packet \in answers : Receive(c, packet)
  <2>1. PICK packet \in answers : Receive(c, packet)
    BY <1>1
  <2>2. /\ answers' = answers \ {packet} /\ packet.id = id[c] /\ pc[c] = "read"
        /\ failed' = [failed EXCEPT ![c] = packet.tells = "refused"]
    BY <2>1 DEF Receive
  <2>3. other = packet /\ packet.tells # "refused"
    BY <2>2
  <2> QED
    BY <2>2, <2>3 DEF Fresh
<1>2. ASSUME NEW d \in Callers, d # c, pc' # pc, Own(d) PROVE FALSE
  <2>1. pc'[c] = pc[c]
    <3>1. CASE LockGivenUp(d) \/ SendFails(d) \/ Close(d)
      <4>1. failed[d] \in BOOLEAN
        BY <1>2
      <4>2. \E error \in BOOLEAN : Return(d, error) /\ pc[d] # "idle"
        BY <3>1, <4>1 DEF LockGivenUp, SendFails, Close
      <4> QED
        BY <1>2, <4>2, ReturnKeeps
    <3> QED
      BY <1>2, <3>1 DEF Own, Lock, Send, ReadFails, Receive, Skip, Goto, call
  <2> QED
    BY <2>1
<1>3. ASSUME Own(c) PROVE \E packet \in answers : Receive(c, packet)
  BY <1>3 DEF Own, Lock, LockGivenUp, Send, SendFails, ReadFails, Close, Skip, Goto, call
<1>4. ASSUME NEW d \in Callers, NEW o \in Operations, Begin(d, o) PROVE FALSE
  BY <1>4 DEF Begin, Goto
<1>5. CASE pc' = pc
  BY <1>5
<1> QED
  BY <1>1, <1>2, <1>3, <1>4, <1>5
     DEF Next, Cancel, Wake, Expire, Deliver, Lapse, vars, call

(* No stale answer is taken for a reading (sendContext 189-200).           *)
THEOREM FreshReadings == Spec => ReadingIsFresh
<1>1. IInv /\ [Next]_vars =>
        [\A c \in Callers : Accepts(c) =>
           \A packet \in answers \ answers' : packet.tells \in reading[c]]_vars
  BY AcceptStep
<1> QED
  BY <1>1, Invariance, PTL DEF Spec, ReadingIsFresh

(* No call drops the answer another one waits for.                         *)
THEOREM AnswersKept == Spec => NothingSwallowed
<1>1. IInv => \A c \in Callers : \A packet \in answers :
        Skip(c, packet) => \A d \in Callers : pc[d] = "read" => id[d] # packet.id
  BY DEF IInv, Turns, Skip
<1>2. IInv /\ [Next]_vars =>
        [\A c \in Callers : \A packet \in answers :
          Skip(c, packet) => \A d \in Callers : pc[d] = "read" => id[d] # packet.id]_vars
  BY <1>1
<1> QED
  BY <1>2, Invariance, PTL DEF Spec, NothingSwallowed

\* While nothing but the last command changes the mode, a step is one of the port.
LEMMA PortStep == IInv /\ [Next]_vars => overtaken' \/ [Port!Next]_(Port!vars)
<1> SUFFICES ASSUME IInv, [Next]_vars, ~overtaken' PROVE [Port!Next]_(Port!vars)
  OBVIOUS
<1> USE DEF IInv, TypeOK, Port!Next, Port!vars, Commanded, Answered
<1>0. Loop \in Callers /\ "none" \notin Modes
  BY DEF Callers, Modes
<1>1. ASSUME NEW c \in Callers, NEW o \in Operations, Begin(c, o) PROVE [Port!Next]_(Port!vars)
  <2>1. /\ pc[c] = "idle" /\ op' = [op EXCEPT ![c] = o] /\ mode' = mode
        /\ told' = (told /\ o \notin Modes) /\ (c = Loop \/ o = "energy")
    BY <1>1 DEF Begin, network
  <2>2. op[c] = "none"
    BY <2>1 DEF Calling
  <2>3. CASE o \in Modes
    <3>1. c = Loop /\ op'[Loop] = o
      BY <1>0, <2>1, <2>3 DEF Modes
    <3> QED
      BY <1>0, <2>1, <2>2, <2>3, <3>1 DEF Port!Command
  <2>4. CASE o \notin Modes
    <3>1. told' = told /\ (op'[Loop] = op[Loop] \/ (op[Loop] = "none" /\ op'[Loop] \notin Modes))
      BY <1>0, <2>1, <2>2, <2>4
    <3> QED
      BY <1>0, <2>1, <3>1
  <2> QED
    BY <2>3, <2>4
<1>2. ASSUME NEW c \in Callers, NEW error \in BOOLEAN, Return(c, error), pc[c] # "idle",
             UNCHANGED <<mode, told, overtaken>>,
             c = Loop /\ op[Loop] \in Modes => told = ~error
      PROVE  [Port!Next]_(Port!vars)
  <2>1. /\ \A d \in Callers : d # c => op'[d] = op[d]
        /\ \/ op'[c] = op[c]
           \/ op'[c] = "none"
    BY <1>2, ReturnKeeps
  <2>2. CASE c = Loop /\ op[Loop] \in Modes
    <3>1. CASE op'[Loop] = op[Loop]
      BY <1>2, <3>1
    <3>2. CASE op'[Loop] = "none"
      <4>1. CASE told
        BY <1>0, <1>2, <2>2, <3>2, <4>1 DEF Driven, Port!Succeed
      <4>2. CASE ~told
        BY <1>0, <1>2, <2>2, <3>2, <4>2 DEF Port!Fail
      <4> QED
        BY <4>1, <4>2
    <3> QED
      BY <2>1, <2>2, <3>1, <3>2
  <2>3. CASE c # Loop
    BY <1>0, <1>2, <2>1, <2>3
  <2>4. CASE c = Loop /\ op[Loop] \notin Modes
    BY <1>0, <1>2, <2>1, <2>4
  <2> QED
    BY <2>2, <2>3, <2>4
<1>3. ASSUME NEW c \in Callers, LockGivenUp(c) \/ SendFails(c) PROVE [Port!Next]_(Port!vars)
  <2>1. /\ Return(c, TRUE) /\ pc[c] \in {"lock", "send"}
        /\ UNCHANGED <<mode, told, overtaken>>
    BY <1>3 DEF LockGivenUp, SendFails, network, history
  <2>2. c = Loop /\ op[Loop] \in Modes => ~told
    BY <2>1 DEF Driven
  <2> QED
    BY <1>2, <2>1, <2>2
<1>4. ASSUME NEW c \in Callers, Close(c) PROVE [Port!Next]_(Port!vars)
  <2>1. /\ Return(c, failed[c]) /\ pc[c] = "close" /\ failed[c] \in BOOLEAN
        /\ UNCHANGED <<mode, told, overtaken>>
    BY <1>4 DEF Close, network, history
  <2>2. c = Loop /\ op[Loop] \in Modes => told = ~failed[c]
    BY <2>1 DEF Driven
  <2> QED
    BY <1>2, <2>1, <2>2
<1>5. ASSUME NEW c \in Callers, NEW packet \in answers, Receive(c, packet)
      PROVE [Port!Next]_(Port!vars)
  <2>1. /\ UNCHANGED <<op, mode>> /\ pc[c] = "read"
        /\ told' = IF op[c] \in Modes THEN packet.tells # "refused" ELSE told
    BY <1>5 DEF Receive
  <2>2. CASE op[c] \in Modes
    BY <1>0, <2>1, <2>2 DEF Calling
  <2>3. CASE op[c] \notin Modes
    BY <2>1, <2>3
  <2> QED
    BY <2>2, <2>3
<1>6. ASSUME NEW packet \in requests, NEW obeyed \in BOOLEAN, NEW answered \in BOOLEAN,
             Deliver(packet, obeyed, answered)
      PROVE  [Port!Next]_(Port!vars)
  <2>1. /\ UNCHANGED <<op, told>> /\ (mode' = mode \/ mode' = packet.what)
        /\ mode' # mode => Running(packet)
    BY <1>6 DEF Deliver, Witnessed, call
  <2>2. CASE mode' = mode
    BY <2>1, <2>2
  <2>3. CASE mode' # mode
    <3>1. /\ pc[Loop] \in {"read", "close"} /\ packet.id = id[Loop]
          /\ mode' = packet.what /\ packet.what \in Modes
      BY <1>6, <2>1, <2>3 DEF Running, Deliver
    <3>2. op[Loop] \in Modes
      BY <3>1 DEF Asked
    <3>3. mode' = op[Loop]
      BY <3>1, <3>2 DEF Driven
    <3> QED
      BY <1>0, <2>1, <3>2, <3>3 DEF Port!Obey
  <2> QED
    BY <2>2, <2>3
<1>7. CASE UNCHANGED <<op, told, mode>>
  BY <1>7
<1> QED
  BY <1>1, <1>3, <1>4, <1>5, <1>6, <1>7
     DEF Next, Own, Lock, Send, ReadFails, Skip, Cancel, Wake, Expire, Lapse, vars, call, network,
         history

(* The client keeps the promise of a battery driver, until a request of a  *)
(* command that was given up is carried out behind it, or a passive mode   *)
(* runs out.                                                               *)
THEOREM PortKept == Spec => KeepsPort
<1>1. Init => Port!Init
  BY DEF Init, Port!Init, Commanded, Answered, Callers, Modes
<1>2. IInv /\ [Next]_vars => [overtaken' \/ Port!Next]_(Port!vars)
  BY PortStep
<1> QED
  BY <1>1, <1>2, Invariance, PTL DEF Spec, KeepsPort
==============================================================================
