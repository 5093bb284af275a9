---------------------------- MODULE ToolJournal ----------------------------
(***************************************************************************)
(* src/src/checkpoint-store.ts: the receipts a task's tool calls leave on  *)
(* disk (FileToolExecutionJournal), and what inspectTaskRecovery reads in  *)
(* them before a Run may continue.                                         *)
(*                                                                         *)
(* A call is one request of the model: its id, tool and arguments.  The    *)
(* receipt's file is named by the id alone, so two calls may share it.     *)
(* Every file is replaced as a whole (writePrivateJsonAtomic).             *)
(***************************************************************************)
EXTENDS Integers, Sequences, FiniteSets

CONSTANTS
  Calls,              \* the calls the model may ask for
  Ids,                \* the ids a provider may give them
  CallId,             \* [Calls -> Ids]
  Writes              \* calls of a tool whose risk is "write" or "execute"

ASSUME JournalAssumption ==
  /\ CallId \in [Calls -> Ids]
  /\ Writes \subseteq Calls

\* What a tool answers, as far as anybody looks: an error that carries the
\* reviewer's revision marker is apart from other errors.
Results == {"ok", "error", "revise"}

NoReceipt == [status |-> "none"]
Started(c) == [status |-> "started", call |-> c]
Completed(c, r) == [status |-> "completed", call |-> c, result |-> r]

Receipts == [status : {"none"}] \cup [status : {"started"}, call : Calls]
              \cup [status : {"completed"}, call : Calls, result : Results]

VARIABLE receipts     \* [Ids -> Receipts]: the directory tools/<taskId>

JournalInit == receipts = [i \in Ids |-> NoReceipt]

Receipt(c) == receipts[CallId[c]]

\* assertToolReceiptMatches throws unless the receipt is of this very call.
ReceiptOf(c) == Receipt(c).status # "none" /\ Receipt(c).call = c
ReceiptOfAnother(c) == Receipt(c).status # "none" /\ Receipt(c).call # c

\* A started receipt of such a call proves nothing about its effect.
Ambiguous(c) == ReceiptOf(c) /\ Receipt(c).status = "started" /\ c \in Writes

\* The receipt is looked up by the id alone: its own risk decides.
AmbiguousReceipt(c) == Receipt(c).status = "started" /\ Receipt(c).call \in Writes

WriteStartedForgets(c) == UNCHANGED receipts    \* mutant: no receipt before the effect

\* start, when the id has no receipt yet.
WriteStarted(c) == receipts' = [receipts EXCEPT ![CallId[c]] = Started(c)]

\* complete.
WriteCompleted(c, r) == receipts' = [receipts EXCEPT ![CallId[c]] = Completed(c, r)]
=============================================================================
