--------------------------- MODULE TaskCompletion ---------------------------
(***************************************************************************)
(* Completing, reopening, creating and removing tasks that carry inventory *)
(* lines (TasksService).                                                   *)
(*                                                                         *)
(* The stock transaction of a completion is one step of StockBook, which   *)
(* InventoryLedger is shown to implement; the awaits around it are the     *)
(* steps of this module: the task row is read and its lines are counted    *)
(* before the transaction starts, and the push events are published one by *)
(* one after it committed.  Creating a task and its lines, and removing    *)
(* them, are separate statements without a transaction.                    *)
(***************************************************************************)
EXTENDS Integers, Sequences, FiniteSets

CONSTANTS
    Task,
    Call,        \* completeTask, adminUpdate, adminComplete calls under way
    NoTask,
    LinesOf,     \* LinesOf[t]: the inventory lines task t is created with
    NumItems,
    Opening,
    MaxReopens,  \* bound on reopenings
    MaxFaults    \* bound on crashes and failed publishes

LineKind == {"STOCK_IN", "STOCK_OUT", "TRANSFER"}
Line == [item : 1..NumItems, kind : LineKind, quantity : Nat \ {0}, task : Task]

TaskAssumption ==
    /\ IsFiniteSet(Call)
    /\ NoTask \notin Task
    /\ LinesOf \in [Task -> Seq(Line)]
    /\ \A t \in Task : \A n \in DOMAIN LinesOf[t] : LinesOf[t][n].task = t
    /\ NumItems \in Nat
    /\ Opening \in [1..NumItems -> Nat]
    /\ MaxReopens \in Nat
    /\ MaxFaults \in Nat

VARIABLES
    stock,      \* current_quantity of the items
    book,       \* the ledger; a row knows the task it was booked for
    row,        \* row[t]: "absent", "open", "completed" or "removed"
    lines,      \* lines[t]: the rows of task_inventory_lines
    creating,   \* tasks whose lines are still to be inserted
    removing,   \* tasks whose lines adminRemove deleted and whose row it did not
    pc,         \* pc[c]: where call c is
    job,        \* job[c]: the task it works on
    toPublish,  \* toPublish[c]: captured movements without a push event
    pushed,     \* pushed[t]: push events published for movements of t
    reopens,
    faults,
    overlapped  \* some call began while another was under way

taskVars == <<row, lines, creating, removing>>
callVars == <<pc, job, toPublish>>
vars == <<stock, book, taskVars, callVars, pushed, reopens, faults, overlapped>>

Book == INSTANCE StockBook WITH Plans <- {LinesOf[t] : t \in Task} \union {<<>>}

CallState == {"idle", "read", "simple", "transaction", "publishing", "reopening", "reopenable"}
RowState == {"absent", "open", "completed", "removed"}
Exists(t) == row[t] \in {"open", "completed"}

Init ==
    /\ Book!BookInit
    /\ row = [t \in Task |-> "absent"]
    /\ lines = [t \in Task |-> <<>>]
    /\ creating = {}
    /\ removing = {}
    /\ pc = [c \in Call |-> "idle"]
    /\ job = [c \in Call |-> NoTask]
    /\ toPublish = [c \in Call |-> 0]
    /\ pushed = [t \in Task |-> 0]
    /\ reopens = 0
    /\ faults = 0
    /\ overlapped = FALSE

-----------------------------------------------------------------------------
(* adminCreate and assignToUser: the task row, then its lines. *)

Create(t) ==
    /\ row[t] = "absent"
    /\ row' = [row EXCEPT ![t] = "open"]
    /\ creating' = IF LinesOf[t] = <<>> THEN creating ELSE creating \union {t}
    /\ UNCHANGED <<stock, book, lines, removing, callVars, pushed, reopens, faults, overlapped>>

PersistInventoryLines(t) ==
    /\ t \in creating
    /\ lines' = [lines EXCEPT ![t] = LinesOf[t]]
    /\ creating' = creating \ {t}
    /\ UNCHANGED <<stock, book, row, removing, callVars, pushed, reopens, faults, overlapped>>

(* adminRemove: the lines, then the task row.  Nothing forces the second. *)
RemoveLines(t) ==
    /\ Exists(t)
    /\ lines' = [lines EXCEPT ![t] = <<>>]
    /\ removing' = removing \union {t}
    /\ UNCHANGED <<stock, book, row, creating, callVars, pushed, reopens, faults, overlapped>>

RemoveTask(t) ==
    /\ t \in removing
    /\ row' = [row EXCEPT ![t] = "removed"]
    /\ removing' = removing \ {t}
    /\ UNCHANGED <<stock, book, lines, creating, callVars, pushed, reopens, faults, overlapped>>

-----------------------------------------------------------------------------
(* Completion. *)

Goto(c, state) == pc' = [pc EXCEPT ![c] = state]

End(c) ==
    /\ Goto(c, "idle")
    /\ job' = [job EXCEPT ![c] = NoTask]
    /\ toPublish' = [toPublish EXCEPT ![c] = 0]

(* Remembered for the properties only: they say more of calls that do not overlap. *)
NoteOverlap(c) == overlapped' = (overlapped \/ \E d \in Call \ {c} : pc[d] # "idle")

(* findByPk, and the early return for a task that is already completed. *)
MayComplete_Unchecked(t) == Exists(t)
MayComplete(t) == row[t] = "open"

ReadTask(c, t) ==
    /\ pc[c] = "idle"
    /\ MayComplete(t)
    /\ Goto(c, "read")
    /\ job' = [job EXCEPT ![c] = t]
    /\ NoteOverlap(c)
    /\ UNCHANGED <<stock, book, taskVars, toPublish, pushed, reopens, faults>>

CountLines(c) ==
    /\ pc[c] = "read"
    /\ Goto(c, IF lines[job[c]] = <<>> THEN "simple" ELSE "transaction")
    /\ UNCHANGED <<stock, book, taskVars, job, toPublish, pushed, reopens, faults, overlapped>>

(* UPDATE tasks ... WHERE id: no row is changed if the task is gone. *)
SetRow(t, state) == row' = [row EXCEPT ![t] = IF Exists(t) THEN state ELSE @]

UpdateOnly(c) ==
    /\ pc[c] = "simple"
    /\ SetRow(job[c], "completed")
    /\ End(c)
    /\ UNCHANGED <<stock, book, lines, creating, removing, pushed, reopens, faults, overlapped>>

Supported(p) == \A n \in DOMAIN p : p[n].kind \in {"STOCK_IN", "STOCK_OUT"}

(* The movements the transaction returns for publishing: all of them. *)
Captured(p) == Len(p)

(* The transaction: the movements of the lines it finds, and the task row. *)
BookAndComplete(c) ==
    /\ pc[c] = "transaction"
    /\ LET p == lines[job[c]] IN
        /\ Supported(p)
        /\ Book!BookPlan(p)
        /\ toPublish' = [toPublish EXCEPT ![c] = Captured(p)]
    /\ SetRow(job[c], "completed")
    /\ Goto(c, "publishing")
    /\ UNCHANGED <<job, lines, creating, removing, pushed, reopens, faults, overlapped>>

(* Refused for a line or a lack of stock, or aborted by the database. *)
TransactionFails(c) ==
    /\ pc[c] = "transaction"
    /\ End(c)
    /\ UNCHANGED <<stock, book, taskVars, pushed, reopens, faults, overlapped>>

(* publishZohoStockPushRequestedEvents, one insert per captured movement. *)
Publish(c) ==
    /\ pc[c] = "publishing"
    /\ toPublish[c] > 0
    /\ toPublish' = [toPublish EXCEPT ![c] = @ - 1]
    /\ pushed' = [pushed EXCEPT ![job[c]] = @ + 1]
    /\ UNCHANGED <<stock, book, taskVars, pc, job, reopens, faults, overlapped>>

Return(c) ==
    /\ pc[c] = "publishing"
    /\ toPublish[c] = 0
    /\ End(c)
    /\ UNCHANGED <<stock, book, taskVars, pushed, reopens, faults, overlapped>>

(* An insert throws, or the process dies: what is left is not published. *)
CallDies(c) ==
    /\ pc[c] # "idle"
    /\ faults < MaxFaults
    /\ faults' = faults + 1
    /\ End(c)
    /\ UNCHANGED <<stock, book, taskVars, pushed, reopens, overlapped>>

-----------------------------------------------------------------------------
(* adminComplete(id, false) and adminUpdate: a task with lines is not reopened. *)

ReadForReopen(c, t) ==
    /\ pc[c] = "idle"
    /\ row[t] = "completed"
    /\ reopens < MaxReopens
    /\ reopens' = reopens + 1
    /\ Goto(c, "reopening")
    /\ job' = [job EXCEPT ![c] = t]
    /\ NoteOverlap(c)
    /\ UNCHANGED <<stock, book, taskVars, toPublish, pushed, faults>>

AssertCanReopen(c) ==
    /\ pc[c] = "reopening"
    /\ IF lines[job[c]] = <<>>
       THEN Goto(c, "reopenable") /\ UNCHANGED <<job, toPublish>>
       ELSE End(c)
    /\ UNCHANGED <<stock, book, taskVars, pushed, reopens, faults, overlapped>>

Reopen(c) ==
    /\ pc[c] = "reopenable"
    /\ SetRow(job[c], "open")
    /\ End(c)
    /\ UNCHANGED <<stock, book, lines, creating, removing, pushed, reopens, faults, overlapped>>

-----------------------------------------------------------------------------
Step(c) ==
    \/ CountLines(c)
    \/ UpdateOnly(c)
    \/ BookAndComplete(c)
    \/ TransactionFails(c)
    \/ Publish(c)
    \/ Return(c)
    \/ AssertCanReopen(c)
    \/ Reopen(c)

Next ==
    \/ \E t \in Task :
        \/ Create(t)
        \/ PersistInventoryLines(t)
        \/ RemoveLines(t)
        \/ RemoveTask(t)
        \/ \E c \in Call : ReadTask(c, t) \/ ReadForReopen(c, t)
    \/ \E c \in Call : Step(c) \/ CallDies(c)

Spec == Init /\ [][Next]_vars

-----------------------------------------------------------------------------
TypeOK ==
    /\ stock \in [1..NumItems -> Nat]
    /\ row \in [Task -> RowState]
    /\ \A t \in Task : lines[t] \in {<<>>, LinesOf[t]}
    /\ creating \subseteq Task
    /\ removing \subseteq Task
    /\ pc \in [Call -> CallState]
    /\ job \in [Call -> Task \union {NoTask}]
    /\ toPublish \in [Call -> Nat]
    /\ pushed \in [Task -> Nat]
    /\ reopens \in 0..MaxReopens
    /\ faults \in 0..MaxFaults
    /\ overlapped \in BOOLEAN

(* The movements booked for a task; the opening rows belong to none. *)
Movements(t) ==
    Cardinality({n \in (NumItems + 1)..Len(book) : book[n].task = t})

(* An open task has moved no stock: stock and task row change together, and a
   task whose stock moved is never open again.  Only a removal under way, which
   deletes the lines first, exposes such a task to a reopening.  It is said of
   calls that do not overlap: a reopening that counted no lines while the task
   was still being created may take effect after another call completed it. *)
OpenTaskHasMovedNothing ==
    ~overlapped =>
        \A t \in Task : row[t] = "open" /\ t \notin removing => Movements(t) = 0

(* Push events correspond to booked movements: one each, none for a movement
   that was rolled back; only a call that died leaves some unpublished. *)
InFlight(t) == UNION {{c} \X (1..toPublish[c]) : c \in {d \in Call : job[d] = t}}

PushesMatchMovements ==
    \A t \in Task :
        LET sent == pushed[t] + Cardinality(InFlight(t)) IN
            /\ sent <= Movements(t)
            /\ faults = 0 => sent = Movements(t)

(* "Call only when transitioning is_completed false -> true": the movements of
   a task are booked once.  The code keeps this as long as calls do not overlap. *)
BookedOnce == \A t \in Task : Movements(t) <= Len(LinesOf[t])
SerialCallsBookOnce == ~overlapped => BookedOnce
=============================================================================
