---------------------------- MODULE EspHomeClient ----------------------------
(***************************************************************************)
(* clients/esphome/client.go against the ESPHome device and the battery    *)
(* behind it.  A command is a sequence of writes; each write is a POST that*)
(* the device accepts and passes on over Modbus, and then polls of what the*)
(* device last published, until that is the value written or the time is   *)
(* up.  The device publishes in a cycle of its own, so that a poll may read*)
(* a value from before the write.  One unit of time is one update of the   *)
(* device's controller (5 s).                                              *)
(***************************************************************************)
EXTENDS Sequences, Naturals

CONSTANTS
  Powers,          \* the powers a command can ask for
  Timeout,         \* controlConfirmationTimeout
  PublishEvery,    \* espHomeControlPublicationInterval
  MaxQueued        \* bound: Modbus writes waiting at the device

ASSUME EspAssumption ==
  /\ Powers # {}
  /\ {Timeout, PublishEvery, MaxQueued} \subseteq Nat \ {0}
  /\ PublishEvery < Timeout

Modes    == {"stop", "charge", "discharge"}
Controls == {"rs485", "chargePower", "dischargePower", "force"}
Values   == [rs485 |-> {"enable", "disable"}, force |-> Modes,
             chargePower |-> Powers, dischargePower |-> Powers]
Registers == {r \in [Controls -> UNION {Values[c] : c \in Controls}] :
                \A c \in Controls : r[c] \in Values[c]}
AllWrites == UNION {{c} \X Values[c] : c \in Controls}

VARIABLES
  command,    \* [mode, power]: the call that is running, or the last one
  at,         \* which of its writes; 1 between calls
  pc,         \* ready | post | confirm
  waited,     \* since the confirmation of this write began
  answer,     \* of the last call: ok | error, error until it is ok
  queue,      \* writes the device accepted and the battery has not got yet
  battery,    \* the battery's registers
  shown,      \* what the device last published of them
  age,        \* since it did
  lost        \* history: a Modbus write was lost since the last call that
              \* began with an empty queue

client == <<command, at, pc, waited, answer>>
device == <<queue, battery, shown, age, lost>>
vars   == <<client, device>>

\* A stop takes no power, and is given one of them.
Commands == [mode : {"charge", "discharge"}, power : Powers]
            \cup [mode : {"stop"}, power : {CHOOSE p \in Powers : TRUE}]

\* Mutant: DischargeContext sets the charge power.
WritesChargePower(cmd) ==
  << <<"rs485", "enable">>,
     IF cmd.mode = "stop" THEN <<"force", "stop">> ELSE <<"chargePower", cmd.power>>,
     IF cmd.mode = "stop" THEN <<"rs485", "disable">> ELSE <<"force", cmd.mode>> >>

Writes(cmd) ==
  CASE cmd.mode = "charge"    -> << <<"rs485", "enable">>, <<"chargePower", cmd.power>>,
                                    <<"force", "charge">> >>
    [] cmd.mode = "discharge" -> << <<"rs485", "enable">>, <<"dischargePower", cmd.power>>,
                                    <<"force", "discharge">> >>
    [] cmd.mode = "stop"      -> << <<"rs485", "enable">>, <<"force", "stop">>,
                                    <<"rs485", "disable">> >>

Current == Writes(command)[at]

\* Mutant: every write of IdleContext is best effort.
ToleratedAll == command.mode = "stop"

\* IdleContext insists on the stop only.
Tolerated == command.mode = "stop" /\ Current[1] = "rs485"

Accepted(w) == Append(queue, w)

Carry(registers, w) == [registers EXCEPT ![w[1]] = w[2]]

TypeOK ==
  /\ command \in Commands /\ at \in 1..3 /\ pc \in {"ready", "post", "confirm"}
  /\ waited \in 0..Timeout /\ answer \in {"ok", "error"}
  /\ queue \in Seq(AllWrites) /\ Len(queue) <= MaxQueued
  /\ battery \in Registers /\ shown \in Registers /\ age \in 0..PublishEvery
  /\ lost \in BOOLEAN

Init ==
  /\ command \in Commands /\ at = 1 /\ pc = "ready" /\ waited = 0 /\ answer = "error"
  /\ queue = <<>> /\ battery \in Registers /\ shown \in Registers /\ age \in 0..PublishEvery
  /\ lost = FALSE

-----------------------------------------------------------------------------
(* The client.                                                             *)

\* ChargeContext, DischargeContext and IdleContext, by SetPassiveModeContext.
Call ==
  /\ pc = "ready"
  /\ command' \in Commands /\ pc' = "post" /\ answer' = "error"
  /\ lost' = (lost /\ queue # <<>>)
  /\ UNCHANGED <<at, waited, queue, battery, shown, age>>

\* The next write, or success.
Advance ==
  /\ IF at = Len(Writes(command))
       THEN pc' = "ready" /\ answer' = "ok" /\ at' = 1
       ELSE pc' = "post" /\ at' = at + 1 /\ UNCHANGED answer
  /\ waited' = 0 /\ UNCHANGED command

Failed ==
  IF Tolerated
    THEN Advance
    ELSE pc' = "ready" /\ answer' = "error" /\ at' = 1 /\ waited' = 0 /\ UNCHANGED command

PostOk ==
  /\ pc = "post" /\ Len(queue) < MaxQueued
  /\ queue' = Accepted(Current) /\ pc' = "confirm"
  /\ UNCHANGED <<command, at, waited, answer, battery, shown, age, lost>>

\* Mutant: the status of the answer to the POST is not looked at.
PostStatusIgnored ==
  /\ pc = "post" /\ pc' = "confirm"
  /\ UNCHANGED <<command, at, waited, answer, device>>

\* Refused, cancelled, or accepted and the answer lost.
PostFails ==
  /\ pc = "post"
  /\ \/ UNCHANGED queue
     \/ Len(queue) < MaxQueued /\ queue' = Accepted(Current)
  /\ Failed
  /\ UNCHANGED <<battery, shown, age, lost>>

ConfirmOk ==
  /\ pc = "confirm" /\ shown[Current[1]] = Current[2]
  /\ Advance
  /\ UNCHANGED device

\* Mutant: without context.WithTimeout.
ConfirmWaits ==
  /\ pc = "confirm" /\ waited < Timeout
  /\ Failed
  /\ UNCHANGED device

\* The caller's context ended, or no poll was answered, or the time is up.
ConfirmFails ==
  /\ pc = "confirm"
  /\ Failed
  /\ UNCHANGED device

-----------------------------------------------------------------------------
(* The device.                                                             *)

Apply ==
  /\ queue # <<>>
  /\ battery' = Carry(battery, Head(queue)) /\ queue' = Tail(queue)
  /\ UNCHANGED <<client, shown, age, lost>>

Lose ==
  /\ queue # <<>>
  /\ queue' = Tail(queue) /\ lost' = TRUE
  /\ UNCHANGED <<client, battery, shown, age>>

Publish ==
  /\ age = PublishEvery
  /\ shown' = battery /\ age' = 0
  /\ UNCHANGED <<client, queue, battery, lost>>

\* A Modbus write takes less than a unit, and so does a POST.
Elapse ==
  /\ queue = <<>> /\ age < PublishEvery /\ pc # "post"
  /\ age' = age + 1
  /\ waited' = IF pc = "confirm" /\ waited < Timeout THEN waited + 1 ELSE waited
  /\ UNCHANGED <<command, at, pc, answer, queue, battery, shown, lost>>

Client == Call \/ PostOk \/ PostFails \/ ConfirmOk \/ ConfirmFails
Device == Apply \/ Lose \/ Publish

Next == Client \/ Device \/ Elapse

Spec == Init /\ [][Next]_vars

-----------------------------------------------------------------------------
(* Properties.                                                             *)

\* What register c will hold when the device has passed on all it accepted.
Final(c) ==
  LET mine == {i \in DOMAIN queue : queue[i][1] = c}
  IN  IF mine = {} THEN battery[c]
      ELSE queue[CHOOSE i \in mine : \A j \in mine : j <= i][2]

(* A command that was answered with success sticks, although what confirmed*)
(* it may have been published before it: with nothing lost on the Modbus,  *)
(* the battery ends in the commanded mode, a drive at the commanded power  *)
(* and with the remote control on, whatever earlier commands failed half   *)
(* way and are still on their way.                                         *)
AnswerIsFinal ==
  ~lost /\ pc = "ready" /\ answer = "ok" =>
    /\ Final("force") = command.mode
    /\ command.mode # "stop" => Final("rs485") = "enable"
    /\ command.mode = "charge" => Final("chargePower") = command.power
    /\ command.mode = "discharge" => Final("dischargePower") = command.power

(* The remote control is given back only by a battery that is stopped: a   *)
(* stop that failed or was not confirmed leaves it on, so that the battery *)
(* still listens to the retry (IdleContext returns before the disable).    *)
DisabledWhenStopped ==
  [][~lost /\ battery.rs485 = "enable" /\ battery'.rs485 = "disable" => battery.force = "stop"]_vars

(* The confirmation timeout covers a publication cycle: the time of a write*)
(* is up only when the device could not be read, never because the device  *)
(* had not come round to publish the new value.                            *)
TimeoutCoversCycle ==
  ~lost /\ pc = "confirm" /\ waited = Timeout => shown[Current[1]] = Current[2]

(* The confirmation decides rightly, both ways.                            *)
ConfirmationDecides == AnswerIsFinal /\ TimeoutCoversCycle

(* The client keeps the promise of a battery driver.                       *)
Running == IF pc = "ready" THEN "none" ELSE command.mode
Port == INSTANCE BatteryPort WITH commanded <- Running, mode <- Final("force")
KeepsPort == Port!Init /\ [][lost' \/ Port!Next]_(Port!vars)

-----------------------------------------------------------------------------
(* A POST returns, by the HTTP client's own timeout if need be; the wait   *)
(* for a confirmation ends with its time; the device or the clock goes on. *)
FairSpec ==
  /\ Spec
  /\ WF_vars(PostOk \/ PostFails)
  /\ WF_vars(waited = Timeout /\ ConfirmFails)
  /\ WF_vars(Device \/ Elapse)

(* A call ends, whatever the device answers and whatever is lost, so that  *)
(* the loop behind it is never held for ever (controlContext).             *)
CallEnds == pc # "ready" ~> pc = "ready"
==============================================================================
