------------------------------- MODULE Recorder -------------------------------
(***************************************************************************)
(* The trade file of service/recorder.go.  A trade is appended to the list *)
(* in memory, and the whole list is then written to a temporary file that  *)
(* is renamed over trades.json; a save that fails is only logged by the    *)
(* engine.  A start reads the file, and goes on with an empty list when it *)
(* cannot be read.  Trades are numbered in the order they happen.          *)
(***************************************************************************)
EXTENDS Naturals, SequencesExt

CONSTANTS
  MaxTrades    \* bound: trades in a behaviour

ASSUME RecorderAssumption == MaxTrades \in Nat

VARIABLES
  trades,   \* Recorder.trades
  file,     \* the trades in trades.json; << >> when there is none
  tmp,      \* those in trades.json.tmp; << >> when there is none
  pc,       \* down | load | ready | write | rename
  last,     \* the number of trades so far
  acked,    \* history: the trades whose RecordTrade returned no error
  unread    \* history: a start found a file and could not read it

vars == <<trades, file, tmp, pc, last, acked, unread>>

Torn == <<0>>   \* what is left of a write that was interrupted

Listed(list) == {list[i] : i \in DOMAIN list}

TypeOK ==
  /\ pc \in {"down", "load", "ready", "write", "rename"}
  /\ last \in 0..MaxTrades
  /\ trades \in Seq(1..last) /\ file \in Seq(0..last) /\ tmp \in Seq(0..last)
  /\ acked \subseteq 1..last /\ unread \in BOOLEAN

Init ==
  /\ trades = <<>> /\ file = <<>> /\ tmp = <<>> /\ pc = "down"
  /\ last = 0 /\ acked = {} /\ unread = FALSE

Start ==
  /\ pc = "down" /\ pc' = "load"
  /\ UNCHANGED <<trades, file, tmp, last, acked, unread>>

LoadOk ==
  /\ pc = "load" /\ file # Torn
  /\ trades' = file /\ pc' = "ready"
  /\ UNCHANGED <<file, tmp, last, acked, unread>>

\* Start only logs the error.
LoadFails ==
  /\ pc = "load" /\ file # <<>>
  /\ pc' = "ready" /\ unread' = TRUE
  /\ UNCHANGED <<trades, file, tmp, last, acked>>

RecordTrade ==
  /\ pc = "ready" /\ last < MaxTrades
  /\ last' = last + 1 /\ trades' = Append(trades, last + 1) /\ pc' = "write"
  /\ UNCHANGED <<file, tmp, acked, unread>>

\* Mutant: written in place.
WriteInPlace ==
  /\ pc = "write"
  /\ file' \in {trades, Torn} /\ tmp' = trades /\ pc' = "rename"
  /\ UNCHANGED <<trades, last, acked, unread>>

WriteOk ==
  /\ pc = "write"
  /\ tmp' = trades /\ pc' = "rename"
  /\ UNCHANGED <<trades, file, last, acked, unread>>

\* The directory, or the temporary file, or part of it could not be written.
WriteFails ==
  /\ pc = "write"
  /\ tmp' \in {tmp, Torn} /\ pc' = "ready"
  /\ UNCHANGED <<trades, file, last, acked, unread>>

RenameOk ==
  /\ pc = "rename"
  /\ file' = tmp /\ tmp' = <<>> /\ pc' = "ready"
  /\ acked' = acked \cup {last}
  /\ UNCHANGED <<trades, last, unread>>

\* Mutant: the error of the rename is not returned.
RenameErrorDropped ==
  /\ pc = "rename"
  /\ tmp' \in {tmp, <<>>} /\ pc' = "ready"
  /\ acked' = acked \cup {last}
  /\ UNCHANGED <<trades, file, last, unread>>

\* The temporary file is removed, if that works.
RenameFails ==
  /\ pc = "rename"
  /\ tmp' \in {tmp, <<>>} /\ pc' = "ready"
  /\ UNCHANGED <<trades, file, last, acked, unread>>

\* The process dies, perhaps in the middle of a write.
Crash ==
  /\ pc # "down"
  /\ pc' = "down" /\ trades' = <<>>
  /\ tmp' \in IF pc = "write" THEN {tmp, Torn} ELSE {tmp}
  /\ UNCHANGED <<file, last, acked, unread>>

Next ==
  \/ Start \/ LoadOk \/ LoadFails \/ RecordTrade
  \/ WriteOk \/ WriteFails \/ RenameOk \/ RenameFails \/ Crash

Spec == Init /\ [][Next]_vars

-----------------------------------------------------------------------------
(* A trade whose RecordTrade returned no error is in the file, through any *)
(* crash, failed save or restart that follows, as long as no start failed  *)
(* to read a file that was there.                                          *)
AckedOnDisk == unread \/ acked \subseteq Listed(file)

(* Under the same condition the file only ever grows: no crash, no failed  *)
(* save and no restart drops what an earlier save wrote, acknowledged or   *)
(* not.                                                                    *)
FileGrows == [][unread' \/ IsPrefix(file, file')]_vars

(* Whatever happens, an unreadable file included, the file holds trades,   *)
(* each once and in their order, and never a part of a write.              *)
FileIsLedger ==
  /\ \A i \in DOMAIN file : file[i] # 0
  /\ \A i, j \in DOMAIN file : i < j => file[i] < file[j]

(* Both: what RecordTrade promises of the file, and what any reader of it  *)
(* may count on (saveTrades, "atomically").                                *)
FileKept == AckedOnDisk /\ FileIsLedger

(* docs/energy-trader-prd.md:154: "File-based JSON storage in DATA_DIR",   *)
(* of the trade history: what the store holds stays in it.                 *)
HistoryKept == [][IsPrefix(file, file')]_vars
==============================================================================
