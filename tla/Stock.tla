-------------------------------- MODULE Stock --------------------------------
(***************************************************************************)
(* Stock: the ledger under concurrent transactions, and the completion of  *)
(* tasks with inventory lines that books into it.  The completion takes a  *)
(* transaction as one step of StockBook, which the ledger implements, so   *)
(* the two need not move together: each behaviour moves one and the other  *)
(* rests.                                                                  *)
(***************************************************************************)
EXTENDS InventoryLedger

CONSTANTS
    Task, NoTask, LinesOf,
    Completer,          \* the calls that complete and reopen tasks
    MaxReopens,
    MaxCompletionFaults

VARIABLES
    part,   \* the component that moves in this behaviour
    stock, book, row, lines, creating, removing, completionPc, job, toPublish, pushed, reopens,
    completionFaults, overlapped

Completion ==
    INSTANCE TaskCompletion WITH
        Call <- Completer, MaxFaults <- MaxCompletionFaults,
        pc <- completionPc, faults <- completionFaults
completionState == <<stock, book, row, lines, creating, removing, completionPc, job, toPublish,
    pushed, reopens, completionFaults, overlapped>>

ASSUME CompletionAssumption == Completion!TaskAssumption

parts == <<vars, part, completionState>>

PartsInit ==
    /\ part \in {"ledger", "completion"}
    /\ Init
    /\ Completion!Init

LedgerMoves(A) == part = "ledger" /\ A /\ UNCHANGED <<part, completionState>>
CompletionMoves(A) == part = "completion" /\ A /\ UNCHANGED <<part, vars>>

PartsNext ==
    \/ LedgerMoves(Next)
    \/ CompletionMoves(Completion!Next)

PartsSpec ==
    /\ PartsInit /\ [][PartsNext]_parts
    /\ \A c \in Call : WF_vars(part = "ledger" /\ Step(c))

(* The values of the part that moves; the others stay as they began. *)
PartsTypeOK ==
    /\ part = "ledger" => TypeOK
    /\ part = "completion" => Completion!TypeOK

(* What was booked for a task is what was pushed, calls that do not overlap
   book it once, and an open task has moved nothing (TaskCompletion). *)
CompletionBooksOnce == part = "completion" =>
    /\ Completion!PushesMatchMovements
    /\ Completion!SerialCallsBookOnce
    /\ Completion!OpenTaskHasMovedNothing
==============================================================================
