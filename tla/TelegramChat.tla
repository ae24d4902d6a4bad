----------------------------- MODULE TelegramChat -----------------------------
(***************************************************************************)
(* The chat: PollCommands of clients/telegram/client.go and its caller     *)
(* handleTelegramCommands of service/service.go.  Telegram keeps the       *)
(* updates of the bot until a request names a higher offset, which         *)
(* confirms those before it, and hands out the oldest ones again until     *)
(* then.  The offset is in the client's memory only.                       *)
(***************************************************************************)
EXTENDS Naturals, Sequences, FiniteSetsExt

CONSTANTS
  MaxUpdates,   \* bound: updates written
  Batch         \* the most that one answer holds, 100 at Telegram

ASSUME ChatAssumption == MaxUpdates \in Nat /\ Batch \in Nat \ {0}

VARIABLES
  kinds,         \* Telegram: ours | other, for each update so far
  confirmed,     \* Telegram: the updates up to this one are forgotten
  lastUpdateID,  \* Client.lastUpdateID
  chat,          \* idle | asked | answered | handle
  answer,        \* the updates of the answer under way
  todo,          \* commands handleTelegramCommands has still to handle
  tried,         \* history: commands handled, by any process
  triedNow       \* history: commands handled by this process

chatVars == <<kinds, confirmed, lastUpdateID, chat, answer, todo, tried, triedNow>>

Updates == 1..Len(kinds)

Ours(ids) == {id \in ids : kinds[id] = "ours"}

ChatTyped ==
  /\ kinds \in Seq({"ours", "other"}) /\ Len(kinds) <= MaxUpdates
  /\ confirmed \in 0..Len(kinds) /\ lastUpdateID \in 0..Len(kinds)
  /\ chat \in {"idle", "asked", "answered", "handle"}
  /\ answer \subseteq Updates /\ todo \subseteq Ours(Updates)
  /\ tried \subseteq Ours(Updates) /\ triedNow \subseteq tried

ChatInit ==
  /\ kinds = <<>> /\ confirmed = 0 /\ lastUpdateID = 0
  /\ chat = "idle" /\ answer = {} /\ todo = {}
  /\ tried = {} /\ triedNow = {}

\* A command in the configured chat, or anything else that is an update.
Write ==
  /\ Len(kinds) < MaxUpdates
  /\ \E kind \in {"ours", "other"} : kinds' = Append(kinds, kind)
  /\ UNCHANGED <<confirmed, lastUpdateID, chat, answer, todo, tried, triedNow>>

-----------------------------------------------------------------------------
(* PollCommands.                                                           *)

\* Mutant: commands are handled in a goroutine, and the next poll does not
\* wait for it.
PollBesides ==
  /\ chat \in {"idle", "handle"}
  /\ chat' = "asked"
  /\ UNCHANGED <<kinds, confirmed, lastUpdateID, answer, todo, tried, triedNow>>

Poll ==
  /\ chat = "idle"
  /\ chat' = "asked"
  /\ UNCHANGED <<kinds, confirmed, lastUpdateID, answer, todo, tried, triedNow>>

Oldest(ids) == {id \in ids : Cardinality({i \in ids : i < id}) < Batch}

\* Mutant: the offset is the last update seen, which is so not confirmed.
AnswerFromLast ==
  /\ chat = "asked" /\ chat' = "answered"
  /\ LET seen == IF lastUpdateID = 0 THEN 0 ELSE lastUpdateID - 1
         upTo == IF seen > confirmed THEN seen ELSE confirmed
     IN  confirmed' = upTo /\ answer' = Oldest((upTo + 1)..Len(kinds))
  /\ UNCHANGED <<kinds, lastUpdateID, todo, tried, triedNow>>

\* getUpdates with offset lastUpdateID + 1 comes to Telegram.
Answer ==
  /\ chat = "asked" /\ chat' = "answered"
  /\ LET upTo == IF lastUpdateID > confirmed THEN lastUpdateID ELSE confirmed
     IN  confirmed' = upTo /\ answer' = Oldest((upTo + 1)..Len(kinds))
  /\ UNCHANGED <<kinds, lastUpdateID, todo, tried, triedNow>>

\* Mutant: an update of another chat is passed over before its id is kept.
AcceptOurs ==
  /\ chat = "answered"
  /\ lastUpdateID' = IF Ours(answer) = {} THEN lastUpdateID ELSE Max(Ours(answer))
  /\ todo' = Ours(answer) /\ answer' = {}
  /\ chat' = IF todo' = {} THEN "idle" ELSE "handle"
  /\ UNCHANGED <<kinds, confirmed, tried, triedNow>>

Accept ==
  /\ chat = "answered"
  /\ lastUpdateID' = IF answer = {} THEN lastUpdateID ELSE Max(answer)
  /\ todo' = Ours(answer) /\ answer' = {}
  /\ chat' = IF todo' = {} THEN "idle" ELSE "handle"
  /\ UNCHANGED <<kinds, confirmed, tried, triedNow>>

\* The request does not get there, or its answer not back, in 10 s.
PollFails ==
  /\ chat \in {"asked", "answered"}
  /\ chat' = "idle" /\ answer' = {}
  /\ UNCHANGED <<kinds, confirmed, lastUpdateID, todo, tried, triedNow>>

\* sendTelegramStatus, for the next command; that the reply could not be
\* sent is only logged.
Reply ==
  /\ chat = "handle"
  /\ LET id == Min(todo)
     IN  /\ todo' = todo \ {id}
         /\ tried' = tried \cup {id} /\ triedNow' = triedNow \cup {id}
  /\ chat' = IF todo' = {} THEN "idle" ELSE "handle"
  /\ UNCHANGED <<kinds, confirmed, lastUpdateID, answer>>

\* The process ends, and with it what its client knew.
Forgotten ==
  /\ lastUpdateID' = 0 /\ chat' = "idle" /\ answer' = {} /\ todo' = {} /\ triedNow' = {}
  /\ UNCHANGED <<kinds, confirmed, tried>>

-----------------------------------------------------------------------------
(* A command that Telegram has forgotten was handled: it is confirmed only *)
(* by a poll that comes after all that the last one brought was handled, so*)
(* that a crash in between has it delivered again.                         *)
CommandNotLost == Ours(1..confirmed) \subseteq tried

(* No process handles a command twice, however many polls fail with the    *)
(* request or the answer under way; only a restart can repeat one.         *)
HandledOnce == [][Reply => Min(todo) \notin triedNow]_chatVars
==============================================================================
