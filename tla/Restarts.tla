------------------------------- MODULE Restarts -------------------------------
(***************************************************************************)
(* What outlives the process on its two sides: the trade file (Recorder)   *)
(* and the updates Telegram keeps (TelegramChat).  One goroutine records   *)
(* trades and polls the chat, so that neither begins while the other is    *)
(* under way, and a crash ends both together.                              *)
(***************************************************************************)
EXTENDS Recorder, TelegramChat

allVars == <<vars, chatVars>>

RestartsTypeOK == TypeOK /\ ChatTyped

RestartsInit == Init /\ ChatInit

Records ==
  /\ chat = "idle"
  /\ \/ LoadOk \/ LoadFails \/ RecordTrade
     \/ WriteOk \/ WriteFails \/ RenameOk \/ RenameFails
  /\ UNCHANGED chatVars

\* The chat's handler, which the loop calls every 5 s.
Polls == pc = "ready" /\ Poll /\ UNCHANGED vars
Chats == (Answer \/ Accept \/ PollFails \/ Reply) /\ UNCHANGED vars

Begins == Start /\ UNCHANGED chatVars
Writes == Write /\ UNCHANGED vars
Dies   == Crash /\ Forgotten

RestartsNext == Records \/ Polls \/ Chats \/ Begins \/ Writes \/ Dies

(* The process is started again; what it has begun ends, a poll by its     *)
(* timeout at last; select picks at random among the handlers that are     *)
(* ready; a poll that is made again and again succeeds again and again.    *)
RestartsSpec ==
  /\ RestartsInit /\ [][RestartsNext]_allVars
  /\ WF_allVars(Begins) /\ WF_allVars(pc # "ready" /\ Records) /\ WF_allVars(Chats)
  /\ SF_allVars(Polls)
  /\ SF_allVars(Answer /\ UNCHANGED vars) /\ SF_allVars(Accept /\ UNCHANGED vars)

(* A command written in the chat is handled in the end by a process that   *)
(* lives on, whatever other chats write before it and however many polls   *)
(* fail: the updates of others, of which an answer may be full, do not     *)
(* stand in its way.                                                       *)
CommandHandled ==
  <>[](pc # "down") =>
    \A id \in 1..MaxUpdates : (id \in Ours(Updates)) ~> (id \in tried)
==============================================================================
