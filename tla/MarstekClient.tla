---------------------------- MODULE MarstekClient ----------------------------
(***************************************************************************)
(* clients/marstek/client.go: calls of several goroutines over one UDP     *)
(* socket.  A call is one request, or up to three when the battery's status*)
(* is asked for; for each the mutex is polled for, the request is sent, and*)
(* packets are read until one carries its id.  The network loses, delays,  *)
(* reorders and repeats packets, and the battery carries out a request     *)
(* whenever it arrives, long after the call has given up, too.             *)
(*                                                                         *)
(* A cancelled context wakes the reader by moving the deadline of the      *)
(* socket, which is shared: the watcher that does it is a goroutine of its *)
(* own, and must be gone before the next call uses the socket.             *)
(***************************************************************************)
EXTENDS Integers, Sequences

CONSTANTS
  Loop,          \* the trading loop: commands and reads
  Readers,       \* others that only read (GetCurrentStatus of HTTP requests)
  MaxRequests    \* bound: requests that are sent

Callers == {Loop} \cup Readers

ASSUME MarstekAssumption ==
  /\ Loop \notin Readers /\ MaxRequests \in Nat
  /\ {"free", "ahead", "expired"} \cap Callers = {}

\* SetPassiveModeContext and SetAutoModeContext, by the mode they ask for.
Modes == {"stop", "charge"}
Reads == {"battery", "energy"}
Operations == Modes \cup Reads
Methods == Modes \cup {"Bat.GetStatus", "ES.GetStatus"}

\* The requests a call makes, each one after the error of the one before.
Requests(o) ==
  CASE o = "battery" -> <<"Bat.GetStatus", "Bat.GetStatus", "ES.GetStatus">>
    [] o = "energy"  -> <<"ES.GetStatus">>
    [] OTHER         -> <<o>>

Attempts(o) == Len(Requests(o))

VARIABLES
  pc,          \* idle | lock | send | read | close, for each caller
  op,          \* the call it makes, or "none"
  try,         \* which of the call's requests
  id,          \* of the pending request
  failed,      \* its outcome, from read to close
  done,        \* its context is cancelled, or past its deadline
  watcher,     \* off | armed | fired | finished: context.AfterFunc
  mutex,       \* the caller that holds Client.mu, or "free"
  lastID,      \* Client.requestID
  deadline,    \* of the socket: ahead | expired, or the caller whose watcher
               \* has moved it to the past
  requests,    \* on their way to the battery
  answers,     \* on their way back, or waiting in the socket
  mode,        \* the mode the battery is in
  told,        \* history: the last command was answered with success
  overtaken,   \* history: something else than the last command has changed the
               \* mode since it began
  reading      \* history: the modes the battery was in since the request

call    == <<pc, op, try, id, failed>>
context == <<done, watcher>>
network == <<requests, answers, mode>>
history == <<told, overtaken, reading>>
vars    == <<call, context, mutex, lastID, deadline, network, history>>

Free == "free"
RequestPackets == [id : 1..MaxRequests, what : Methods]
AnswerPackets  == [id : 1..MaxRequests, tells : Modes \cup {"refused"}]

TypeOK ==
  /\ pc \in [Callers -> {"idle", "lock", "send", "read", "close"}]
  /\ op \in [Callers -> Operations \cup {"none"}]
  /\ try \in [Callers -> 1..3] /\ \A c \in Callers : try[c] <= Attempts(op[c])
  /\ id \in [Callers -> 0..MaxRequests]
  /\ failed \in [Callers -> BOOLEAN]
  /\ done \in [Callers -> BOOLEAN]
  /\ watcher \in [Callers -> {"off", "armed", "fired", "finished"}]
  /\ mutex \in Callers \cup {Free}
  /\ lastID \in 0..MaxRequests
  /\ deadline \in {"ahead", "expired"} \cup Callers
  /\ requests \subseteq RequestPackets
  /\ answers \subseteq AnswerPackets
  /\ mode \in Modes
  /\ told \in BOOLEAN /\ overtaken \in BOOLEAN
  /\ reading \in [Callers -> SUBSET Modes]

Init ==
  /\ pc = [c \in Callers |-> "idle"]
  /\ op = [c \in Callers |-> "none"]
  /\ try = [c \in Callers |-> 1]
  /\ id = [c \in Callers |-> 0]
  /\ failed = [c \in Callers |-> FALSE]
  /\ done = [c \in Callers |-> FALSE]
  /\ watcher = [c \in Callers |-> "off"]
  /\ mutex = Free /\ lastID = 0 /\ deadline = "ahead"
  /\ requests = {} /\ answers = {}
  /\ mode \in Modes
  /\ told = FALSE /\ overtaken = FALSE
  /\ reading = [c \in Callers |-> {}]

-----------------------------------------------------------------------------
(* A call, from its first request to its return.                           *)

Goto(c, place) == pc' = [pc EXCEPT ![c] = place]

\* The context of a command may be cancelled before the call is made.
Begin(c, o) ==
  /\ pc[c] = "idle"
  /\ c = Loop \/ o = "energy"
  /\ op' = [op EXCEPT ![c] = o] /\ try' = [try EXCEPT ![c] = 1]
  /\ Goto(c, "lock")
  /\ done' \in {[done EXCEPT ![c] = cancelled] : cancelled \in BOOLEAN}
  /\ told' = (told /\ o \notin Modes)
  /\ overtaken' = (overtaken /\ o \notin Modes)
  /\ UNCHANGED <<reading, id, failed, watcher, mutex, lastID, deadline, network>>

\* The request is over: the call returns, or goes on with the next one.
Return(c, error) ==
  IF error /\ try[c] < Attempts(op[c])
    THEN try' = [try EXCEPT ![c] = @ + 1] /\ Goto(c, "lock") /\ UNCHANGED <<op, done>>
    ELSE /\ Goto(c, "idle")
         /\ op' = [op EXCEPT ![c] = "none"] /\ try' = [try EXCEPT ![c] = 1]
         /\ done' = [done EXCEPT ![c] = FALSE]

\* Mutant: nobody else is expected.
LockTakenAnyway(c) ==
  /\ pc[c] = "lock"
  /\ mutex' = c /\ Goto(c, "send")
  /\ UNCHANGED <<op, try, id, failed, context, lastID, deadline, network, history>>

\* TryLock, polled for every 10 ms.
Lock(c) ==
  /\ pc[c] = "lock" /\ mutex = Free
  /\ mutex' = c /\ Goto(c, "send")
  /\ UNCHANGED <<op, try, id, failed, context, lastID, deadline, network, history>>

\* Mutant: a plain Lock, deaf to the context.
LockNeverGivenUp(c) == FALSE /\ UNCHANGED vars

LockGivenUp(c) ==
  /\ pc[c] = "lock" /\ mutex # Free /\ done[c]
  /\ Return(c, TRUE)
  /\ UNCHANGED <<id, failed, watcher, mutex, lastID, deadline, network, history>>

\* The context is done, or nothing can be written: an error before any read.
SendFails(c) ==
  /\ pc[c] = "send"
  /\ mutex' = Free /\ Return(c, TRUE)
  /\ lastID' \in {lastID} \cup (IF done[c] \/ lastID = MaxRequests THEN {} ELSE {lastID + 1})
  /\ UNCHANGED <<id, failed, watcher, deadline, network, history>>

\* WriteToUDP, SetReadDeadline, and the watcher of the context.
Send(c) ==
  /\ pc[c] = "send" /\ ~done[c] /\ lastID < MaxRequests
  /\ lastID' = lastID + 1 /\ id' = [id EXCEPT ![c] = lastID']
  /\ requests' = requests \cup {[id |-> lastID', what |-> Requests(op[c])[try[c]]]}
  /\ deadline' = "ahead"
  /\ watcher' = [watcher EXCEPT ![c] = "armed"]
  /\ reading' = [reading EXCEPT ![c] = {mode}]
  /\ Goto(c, "read")
  /\ UNCHANGED <<op, try, failed, done, mutex, answers, mode, told, overtaken>>

\* Packets with another id, echoes of requests among them, are passed over.
Skip(c, packet) ==
  /\ pc[c] = "read" /\ deadline = "ahead" /\ packet \in answers /\ packet.id # id[c]
  /\ answers' = answers \ {packet}
  /\ UNCHANGED <<call, context, mutex, lastID, deadline, requests, mode, history>>

\* Mutant: the first packet that comes is the answer.
ReceiveAny(c, packet) ==
  /\ pc[c] = "read" /\ deadline = "ahead" /\ packet \in answers
  /\ answers' = answers \ {packet}
  /\ failed' = [failed EXCEPT ![c] = packet.tells = "refused"]
  /\ told' = IF op[c] \in Modes THEN packet.tells # "refused" ELSE told
  /\ reading' = [reading EXCEPT ![c] = {}]
  /\ Goto(c, "close")
  /\ UNCHANGED <<op, try, id, context, mutex, lastID, deadline, requests, mode,
                 overtaken>>

\* Mutant: set_result is not looked at.
ReceiveUnread(c, packet) ==
  /\ pc[c] = "read" /\ deadline = "ahead" /\ packet \in answers /\ packet.id = id[c]
  /\ answers' = answers \ {packet}
  /\ failed' = [failed EXCEPT ![c] = FALSE]
  /\ told' = (told \/ op[c] \in Modes)
  /\ reading' = [reading EXCEPT ![c] = {}]
  /\ Goto(c, "close")
  /\ UNCHANGED <<op, try, id, context, mutex, lastID, deadline, requests, mode,
                 overtaken>>

\* The answer: success, or an rpc error or a set_result of false.
Receive(c, packet) ==
  /\ pc[c] = "read" /\ deadline = "ahead" /\ packet \in answers /\ packet.id = id[c]
  /\ answers' = answers \ {packet}
  /\ failed' = [failed EXCEPT ![c] = packet.tells = "refused"]
  /\ told' = IF op[c] \in Modes THEN packet.tells # "refused" ELSE told
  /\ reading' = [reading EXCEPT ![c] = {}]
  /\ Goto(c, "close")
  /\ UNCHANGED <<op, try, id, context, mutex, lastID, deadline, requests, mode,
                 overtaken>>

\* The deadline of the socket has passed, whoever set it.
ReadFails(c) ==
  /\ pc[c] = "read" /\ deadline # "ahead"
  /\ failed' = [failed EXCEPT ![c] = TRUE]
  /\ reading' = [reading EXCEPT ![c] = {}]
  /\ Goto(c, "close")
  /\ UNCHANGED <<op, try, id, context, mutex, lastID, deadline, network, told,
                 overtaken>>

\* Mutant: cancelDone is not waited for.
CloseAtOnce(c) ==
  /\ pc[c] = "close"
  /\ watcher' = [watcher EXCEPT ![c] = IF @ = "fired" THEN @ ELSE "off"]
  /\ mutex' = Free /\ Return(c, failed[c])
  /\ failed' = [failed EXCEPT ![c] = FALSE] /\ id' = [id EXCEPT ![c] = 0]
  /\ deadline' = "ahead"
  /\ UNCHANGED <<lastID, network, history>>

\* The deferred functions: the watcher is stopped or waited for, then Unlock.
\* The next request sets its own deadline; what is left of this one's is dropped.
Close(c) ==
  /\ pc[c] = "close" /\ watcher[c] # "fired"
  /\ watcher' = [watcher EXCEPT ![c] = "off"]
  /\ mutex' = Free /\ Return(c, failed[c])
  /\ failed' = [failed EXCEPT ![c] = FALSE] /\ id' = [id EXCEPT ![c] = 0]
  /\ deadline' = "ahead"
  /\ UNCHANGED <<lastID, network, history>>

-----------------------------------------------------------------------------
(* Contexts and time.                                                      *)

\* The caller's context ends, which sets an armed watcher off.
Cancel(c) ==
  /\ pc[c] # "idle" /\ ~done[c]
  /\ done' = [done EXCEPT ![c] = TRUE]
  /\ watcher' = [watcher EXCEPT ![c] = IF @ = "armed" THEN "fired" ELSE @]
  /\ UNCHANGED <<call, mutex, lastID, deadline, network, history>>

\* The watcher's goroutine gets to run.
Wake(c) ==
  /\ watcher[c] = "fired"
  /\ watcher' = [watcher EXCEPT ![c] = "finished"]
  /\ deadline' = c
  /\ UNCHANGED <<call, done, mutex, lastID, network, history>>

\* defaultTimeout, or what is left of the caller's own.
Expire ==
  /\ deadline = "ahead" /\ \E c \in Callers : pc[c] = "read"
  /\ deadline' = "expired"
  /\ UNCHANGED <<call, context, mutex, lastID, network, history>>

-----------------------------------------------------------------------------
(* The network and the battery.                                            *)

\* Whoever waits for an answer now is told of this mode too.
Witnessed ==
  reading' = [c \in Callers |-> IF pc[c] = "read" THEN reading[c] \cup {mode'} ELSE {}]

\* The request of the command that is running.
Running(packet) == pc[Loop] \in {"read", "close"} /\ id[Loop] = packet.id

\* A request arrives now, later, again or never, and its answer may be lost.
\* Bound: one answer to a request is on its way at a time.
Deliver(packet, obeyed, answered) ==
  /\ packet \in requests
  /\ obeyed \/ packet.what \in Modes
  /\ mode' = IF obeyed /\ packet.what \in Modes THEN packet.what ELSE mode
  /\ answers' = IF answered
                 THEN {other \in answers : other.id # packet.id}
                        \cup {[id |-> packet.id, tells |-> IF obeyed THEN mode' ELSE "refused"]}
                 ELSE answers
  /\ overtaken' = (overtaken \/ (mode' # mode /\ ~Running(packet)))
  /\ Witnessed
  /\ UNCHANGED <<call, context, mutex, lastID, deadline, requests, told>>

\* cd_time of a passive mode runs out, and the battery goes back to its own.
Lapse ==
  /\ mode # "stop" /\ mode' = "stop"
  /\ overtaken' = TRUE /\ Witnessed
  /\ UNCHANGED <<call, context, mutex, lastID, deadline, requests, answers, told>>

Own(c) ==
  \/ Lock(c) \/ LockGivenUp(c) \/ SendFails(c) \/ Send(c) \/ ReadFails(c) \/ Close(c)
  \/ \E packet \in answers : Receive(c, packet) \/ Skip(c, packet)

Next ==
  \/ \E c \in Callers :
       \/ \E o \in Operations : Begin(c, o)
       \/ Own(c) \/ Cancel(c) \/ Wake(c)
  \/ Expire
  \/ \E packet \in requests, obeyed, answered \in BOOLEAN : Deliver(packet, obeyed, answered)
  \/ Lapse

Spec == Init /\ [][Next]_vars

-----------------------------------------------------------------------------
(* Properties.                                                             *)

\* c takes an answer of success out of the socket.
Accepts(c) == pc[c] = "read" /\ pc'[c] = "close" /\ ~failed'[c]

(* An answer that is taken for a reading tells of a mode the battery was in*)
(* after the request, although answers to requests that were given up come *)
(* late, out of order and twice: waitForBatteryPower is not shown the power*)
(* from before its command (sendContext 190-215).                          *)
ReadingIsFresh ==
  [][\A c \in Callers : Accepts(c) =>
       \A packet \in answers \ answers' : packet.tells \in reading[c]]_vars

(* No call passes over, and thereby drops, the answer another one waits    *)
(* for: the socket has one reader at a time, whatever contexts end         *)
(* (lockContext, and the deferred Unlock).                                 *)
NothingSwallowed ==
  [][\A c \in Callers : \A packet \in answers :
       Skip(c, packet) => \A d \in Callers : pc[d] = "read" => id[d] # packet.id]_vars

(* No call is timed out by the cancelled context of another one, whose     *)
(* watcher comes too late and moves the deadline that is shared (line 179).*)
OwnDeadline ==
  \A c \in Callers : pc[c] = "read" => deadline \in {"ahead", "expired", c}

(* The client keeps the promise of a battery driver, until a request of a  *)
(* command that was given up is carried out behind it, or a passive mode   *)
(* runs out (which refreshPassiveModeLocked is there to prevent).          *)
Commanded == IF op[Loop] \in Modes THEN op[Loop] ELSE "none"
Answered  == IF told /\ Commanded = "none" THEN "ok" ELSE "error"
Port == INSTANCE BatteryPort WITH commanded <- Commanded, answer <- Answered
KeepsPort == Port!Init /\ [][overtaken' \/ Port!Next]_(Port!vars)

-----------------------------------------------------------------------------
(* Deadlines pass, watchers run, and a goroutine that can go on does.  The *)
(* contexts of the readers end (statusBatteryTimeout); that of the loop    *)
(* need not, and its polling is lucky in the end, between calls of others, *)
(* which is assumed of no reader.                                          *)
FairSpec ==
  /\ Spec
  /\ WF_vars(Expire) /\ SF_vars(Lock(Loop))
  /\ \A c \in Callers : WF_vars(Own(c)) /\ WF_vars(Wake(c))
  /\ \A c \in Readers : WF_vars(Cancel(c))

(* Every call returns, whatever is lost and whoever else uses the socket:  *)
(* mutex, watcher and deadline never wait for each other (178-186), and a  *)
(* reader that is never lucky with the mutex leaves with its context (226).*)
CallEnds == \A c \in Callers : pc[c] # "idle" ~> pc[c] = "idle"
==============================================================================
