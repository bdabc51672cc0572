---------------------------- MODULE TaskNotices ----------------------------
(***************************************************************************)
(* What people are told about tasks (TasksService, TaskDeadlineCronService,*)
(* with WhatsappMessagingService external).                                *)
(*                                                                         *)
(* A new, delegated, rejected or completed task is announced by a message  *)
(* sent after its row was written; a failure is logged and forgotten.      *)
(* Once an hour the cron reads the open tasks whose deadline has passed,   *)
(* tells assignee and assigner of each, and marks the row afterwards: a    *)
(* row that failed is taken up again by the next tick.  An answer from the *)
(* chat, a completion and a save of the dashboard read the row, check what *)
(* they read, and write later the columns that differ from it.             *)
(***************************************************************************)
EXTENDS Integers, FiniteSets

CONSTANTS
    Task, Person, Nobody,
    Role,        \* Role[p]: the role of p in the factory
    Name,        \* Name[p]: the name p is known by
    Reachable,   \* people with a phone number
    MaxCalls,    \* bound on the messages and requests handled at once
    MaxColumns,  \* bound on the columns one save of the dashboard moves
    MaxChanges,  \* bound on what is done to tasks
    MaxFaults    \* bound on failures of messages and of the database

NoticesAssumption ==
    /\ Nobody \notin Person \union Task
    /\ Role \in [Person -> {"OWNER", "MANAGER", "WORKER"}]
    /\ DOMAIN Name = Person
    /\ Reachable \subseteq Person
    /\ {MaxCalls, MaxColumns, MaxChanges, MaxFaults} \subseteq Nat

VARIABLES
    row,       \* row[n]: the columns of tasks that matter here
    pending,   \* announcements under way: a kind and a task
    knows,     \* knows[n]: who was told that the task is his
    breach,    \* breach[n][p]: messages to p about the missed deadline
    tick,      \* the cron: where it is, and the row in its hands
    todo,      \* the rows it has ahead of it, as its query found them
    calls,     \* calls[c]: what a call has read of a task, and is about to write
    changes, faults,
    missed,    \* tasks one of whose announcements to the assignee failed
    admin,     \* tasks the dashboard reassigned, completed or reopened
    handed,    \* tasks handed on after they were marked
    raced,     \* tasks answered for after they had gone to somebody else
    overlapped \* tasks changed while the cron or the dashboard held their row

people == <<knows, breach>>
ghosts == <<admin, handed, raced, overlapped>>
vars == <<row, pending, people, tick, todo, calls, changes, faults, missed, ghosts>>

Call == 1..MaxCalls
Workers == {p \in Person : Role[p] = "WORKER"}
Routing == {"DIRECT", "AWAITING", "MANAGER_SELF", "DELEGATED", "REJECTED"}
Row ==
    [state : {"none", "open", "done"}, to : Person \union {Nobody}, by : Person \union {Nobody},
     routing : Routing, deadline : {"none", "ahead", "passed"}, reminded : BOOLEAN]
NoRow ==
    [state |-> "none", to |-> Nobody, by |-> Nobody, routing |-> "DIRECT",
     deadline |-> "none", reminded |-> FALSE]
Idle == [at |-> "idle", task |-> Nobody, row |-> NoRow]
NoCall == [task |-> Nobody, read |-> NoRow, patch |-> NoRow, from |-> "nowhere", tells |-> "nothing"]
Untold == [p \in Person |-> 0]

Init ==
    /\ row = [n \in Task |-> NoRow]
    /\ pending = {}
    /\ knows = [n \in Task |-> {}]
    /\ breach = [n \in Task |-> Untold]
    /\ tick = Idle
    /\ todo = {}
    /\ calls = [c \in Call |-> NoCall]
    /\ changes = 0
    /\ faults = 0
    /\ missed = {}
    /\ admin = {}
    /\ handed = {}
    /\ raced = {}
    /\ overlapped = {}

(* The tasks whose rows the cron holds. *)
InHand == {tick.task} \union {x.task : x \in todo}

Fault == faults < MaxFaults /\ faults' = faults + 1

-----------------------------------------------------------------------------
(* resolveMention: everybody, a member by id, or a member by name; a name that
   nobody or more than one has resolves to nobody. *)
Mention == {"all"} \union Person \union {Name[p] : p \in Person}

Named(m) == {p \in Person : Name[p] = m}

Resolve(m) ==
    IF m = "all" THEN Workers
    ELSE IF m \in Person THEN {m}
    ELSE IF Cardinality(Named(m)) = 1 THEN Named(m) ELSE {}

(* buildRoutingForNewTask, for @all always DIRECT (assignToAll). *)
RoutingFor(by, to) ==
    IF Role[by] = "OWNER" /\ Role[to] = "MANAGER" THEN "AWAITING" ELSE "DIRECT"

NewRow(by, to, deadline) ==
    [NoRow EXCEPT !.state = "open", !.to = to, !.by = by,
                  !.routing = RoutingFor(by, to), !.deadline = deadline]

(* dispatchNewTaskNotification: by the routing the row was written with. *)
Announcement(r) == IF r.routing = "AWAITING" THEN "prompt" ELSE "assigned"

(* handleAssign and adminCreate: one row for each addressee, each announced. *)
Assign(by, m, deadline) ==
    /\ Role[by] # "WORKER"
    /\ changes < MaxChanges /\ changes' = changes + 1
    /\ \E N \in SUBSET {n \in Task : row[n].state = "none"} :
        /\ N # {} /\ Cardinality(N) = Cardinality(Resolve(m))
        /\ \E to \in [N -> Resolve(m)] :
            /\ {to[n] : n \in N} = Resolve(m)
            /\ row' = [n \in Task |-> IF n \in N THEN NewRow(by, to[n], deadline) ELSE row[n]]
            /\ pending' = pending \union {[kind |-> Announcement(NewRow(by, to[n], deadline)), task |-> n] : n \in N}
    /\ UNCHANGED <<people, tick, todo, calls, faults, missed, ghosts>>

(* A call has read the row of n and found nothing against it: what it is to
   write, where it comes from, and what it will announce. *)
Begin(c, n, patch, from, tells) ==
    /\ calls[c] = NoCall /\ \A d \in 1..(c - 1) : calls[d] # NoCall
    /\ changes < MaxChanges /\ changes' = changes + 1
    /\ calls' = [calls EXCEPT ![c] =
          [task |-> n, read |-> row[n], patch |-> patch, from |-> from, tells |-> tells]]
    /\ overlapped' = overlapped \union ({n} \intersect InHand)
    /\ UNCHANGED <<row, pending, people, tick, todo, faults, missed, admin, handed, raced>>

(* What the manager who has it does with a routed task (applyManagerSelf,
   applyManagerDelegateWorker, applyManagerTransferDepartment,
   applyManagerRejectTask). *)
Keep(c, n) ==
    /\ row[n].routing = "AWAITING"
    /\ Begin(c, n, [row[n] EXCEPT !.routing = "MANAGER_SELF"], "chat", "nothing")

Delegate(c, n, m) ==
    /\ row[n].routing = "AWAITING"
    /\ Cardinality(Resolve(m)) = 1 /\ m # "all" /\ Resolve(m) \subseteq Workers
    /\ \E w \in Resolve(m) :
        Begin(c, n, [row[n] EXCEPT !.to = w, !.by = row[n].to, !.routing = "DELEGATED"], "chat", "assigned")

(* To the head of another department, who may be the owner. *)
Transfer(c, n, head) ==
    /\ Role[head] # "WORKER" /\ head # row[n].to
    /\ Begin(c, n, [row[n] EXCEPT !.to = head, !.routing = "AWAITING"], "chat", "prompt")

Reject(c, n) ==
    Begin(c, n, [row[n] EXCEPT !.routing = "REJECTED"], "chat", "rejected")

Answer(c, n) ==
    /\ row[n].state = "open"
    /\ row[n].routing \in {"AWAITING", "MANAGER_SELF"} /\ Role[row[n].to] = "MANAGER"
    /\ \/ Keep(c, n)
       \/ \E m \in Mention : Delegate(c, n, m)
       \/ \E head \in Person : Transfer(c, n, head)
       \/ Reject(c, n)

(* completeTask by its assignee or by a manager: who has or gave the task, or is
   the head of its department, who may be any of them.  Only managers may
   complete what waits for an answer. *)
Complete(c, n) ==
    /\ row[n].state = "open"
    /\ row[n].routing # "REJECTED"
    /\ \E p \in Person : Role[p] = "MANAGER" \/ (p = row[n].to /\ row[n].routing # "AWAITING")
    /\ Begin(c, n, [row[n] EXCEPT !.state = "done"], "chat", "completed")

(* adminUpdate moves assignee, state and deadline, the assignee unless a manager
   is to answer; adminComplete sets the state.  A new deadline clears the mark
   if there is none or if it lies ahead, and so does adminComplete for a task
   that is not to be complete; a reopening by adminUpdate leaves it. *)
WithDeadline_KeepsMark(r, d) == [r EXCEPT !.deadline = d, !.reminded = d # "none" /\ @]

WithDeadline(r, d) ==
    [r EXCEPT !.deadline = d, !.reminded = d = "passed" /\ @]

Columns(r, q) == {f \in {"to", "state", "deadline"} : q[f] # r[f]}

Saved(r) ==
    {[w EXCEPT !.to = p, !.state = x] :
        w \in {r} \union {WithDeadline(r, d) : d \in {"none", "ahead", "passed"}},
        p \in IF r.routing = "AWAITING" THEN {r.to} ELSE Person,
        x \in {"open", "done"}}

Patches(r) ==
    {q \in Saved(r) : Cardinality(Columns(r, q)) <= MaxColumns}
        \union {[r EXCEPT !.state = "open", !.reminded = FALSE]}

(* Only a completion is announced. *)
Edit(c, n) ==
    /\ row[n].state # "none"
    /\ \E r \in Patches(row[n]) \ {row[n]} :
        Begin(c, n, r, "dashboard", IF r.state = "done" /\ row[n].state = "open" THEN "completed" ELSE "nothing")

-----------------------------------------------------------------------------
(* task.update: the columns that differ from what the call has read, whatever
   the row is by now. *)
Moved(x, f) == x.patch[f] # x.read[f]

Updated(x) == [f \in DOMAIN row[x.task] |-> IF Moved(x, f) THEN x.patch[f] ELSE row[x.task][f]]

(* The tasks whose rows the dashboard holds, apart from this call. *)
HeldBeside(c) == {calls[d].task : d \in {e \in Call \ {c} : calls[e].from = "dashboard"}}

(* The announcement goes out after the row is written. *)
Write(c, x) ==
    /\ x = calls[c]
    /\ row' = [row EXCEPT ![x.task] = Updated(x)]
    /\ pending' = IF x.tells = "nothing" THEN pending
                  ELSE pending \union {[kind |-> x.tells, task |-> x.task]}
    /\ overlapped' = overlapped \union ({x.task} \intersect (InHand \union HeldBeside(c)))
    /\ calls' = [calls EXCEPT ![c] = NoCall]
    /\ UNCHANGED <<tick, todo, changes, faults, missed>>

Differ(r, s, F) == \E f \in F : r[f] # s[f]

(* The manager who answers knows of the task. *)
WriteAnswer(c, x) ==
    /\ x.from = "chat"
    /\ Write(c, x)
    /\ knows' = IF x.tells = "completed" THEN knows
                ELSE [knows EXCEPT ![x.task] = @ \union {x.read.to}]
    /\ handed' = IF row[x.task].reminded /\ Differ(row[x.task], Updated(x), {"to", "by"})
                 THEN handed \union {x.task} ELSE handed
    /\ raced' = IF Differ(row[x.task], x.read, {"to", "routing"})
                THEN raced \union {x.task} ELSE raced
    /\ UNCHANGED <<breach, admin>>

(* The count of messages starts anew with the mark. *)
StartsAnew(x) ==
    \/ Moved(x, "reminded")
    \/ Moved(x, "deadline") /\ x.patch.deadline # "passed"
    \/ Moved(x, "state") /\ x.patch.state = "open" /\ ~x.patch.reminded

WriteEdit(c, x) ==
    /\ x.from = "dashboard"
    /\ Write(c, x)
    /\ breach' = IF StartsAnew(x) THEN [breach EXCEPT ![x.task] = Untold] ELSE breach
    /\ handed' = IF StartsAnew(x) THEN handed \ {x.task} ELSE handed
    /\ admin' = IF Moved(x, "to") \/ Moved(x, "state") THEN admin \union {x.task} ELSE admin
    /\ UNCHANGED <<knows, raced>>

-----------------------------------------------------------------------------
(* The four announcements read the row again and say nothing if it moved on. *)
StillFits(x) ==
    LET r == row[x.task]
    IN  CASE x.kind = "prompt"    -> r.routing = "AWAITING"
          [] x.kind = "assigned"  -> r.state = "open" /\ r.routing # "AWAITING"
          [] x.kind = "rejected"  -> r.routing = "REJECTED"
          [] x.kind = "completed" -> r.state = "done"

(* The other two go to the assigner; when one is lost, nobody misses a task. *)
IsForAssignee(x) == x.kind \in {"prompt", "assigned"}

Announce(x) ==
    /\ x \in pending
    /\ pending' = pending \ {x}
    /\ \/ /\ knows' = IF StillFits(x) /\ IsForAssignee(x) /\ row[x.task].to \in Reachable
                      THEN [knows EXCEPT ![x.task] = @ \union {row[x.task].to}] ELSE knows
          /\ UNCHANGED <<faults, missed>>
       \/ IsForAssignee(x) /\ Fault /\ missed' = missed \union {x.task} /\ UNCHANGED knows
    /\ UNCHANGED <<row, breach, tick, todo, calls, changes, ghosts>>

DeadlinePasses(n) ==
    /\ row[n].deadline = "ahead"
    /\ row' = [row EXCEPT ![n].deadline = "passed"]
    /\ UNCHANGED <<pending, people, tick, todo, calls, changes, faults, missed, ghosts>>

-----------------------------------------------------------------------------
(* processMissedDeadlineReminders. *)
Due(n) ==
    /\ row[n].state = "open"
    /\ row[n].deadline = "passed"
    /\ ~row[n].reminded
    /\ row[n].routing \notin {"AWAITING", "REJECTED"}

Tick ==
    /\ tick.at = "idle"
    /\ \E n \in Task : Due(n)
    /\ todo' = {[task |-> n, row |-> row[n]] : n \in {m \in Task : Due(m)}}
    /\ tick' = [Idle EXCEPT !.at = "rows"]
    /\ overlapped' = overlapped \union
          {n \in Task : Due(n) /\ \E c \in Call : calls[c].task = n /\ calls[c].from = "dashboard"}
    /\ UNCHANGED <<row, pending, people, calls, changes, faults, missed, admin, handed, raced>>

TakeRow(x) ==
    /\ tick.at = "rows"
    /\ todo' = todo \ {x}
    /\ tick' = [at |-> "assignee", task |-> x.task, row |-> x.row]
    /\ UNCHANGED <<row, pending, people, calls, changes, faults, missed, ghosts>>

NextRow == tick' = [Idle EXCEPT !.at = "rows"]

Tell(p) ==
    breach' = IF p \in Reachable THEN [breach EXCEPT ![tick.task][p] = @ + 1] ELSE breach

TellAssignee ==
    /\ tick.at = "assignee"
    /\ Tell(tick.row.to)
    /\ tick' = [tick EXCEPT !.at = "assigner"]
    /\ UNCHANGED <<row, pending, knows, todo, calls, changes, faults, missed, ghosts>>

(* The assigner of one's own task is not told again. *)
TellAssigner ==
    /\ tick.at = "assigner"
    /\ IF tick.row.by = tick.row.to THEN UNCHANGED breach ELSE Tell(tick.row.by)
    /\ tick' = [tick EXCEPT !.at = "mark"]
    /\ UNCHANGED <<row, pending, knows, todo, calls, changes, faults, missed, ghosts>>

Mark ==
    /\ tick.at = "mark"
    /\ row' = [row EXCEPT ![tick.task].reminded = TRUE]
    /\ NextRow
    /\ UNCHANGED <<pending, people, todo, calls, changes, faults, missed, ghosts>>

(* A message or the update fails: the next row. *)
RowFails ==
    /\ tick.at \in {"assignee", "assigner", "mark"}
    /\ Fault
    /\ NextRow
    /\ UNCHANGED <<row, pending, people, todo, calls, changes, missed, ghosts>>

TickEnds ==
    /\ tick.at = "rows" /\ todo = {}
    /\ tick' = Idle
    /\ UNCHANGED <<row, pending, people, todo, calls, changes, faults, missed, ghosts>>

(* The process stops: the tick, the calls and what was being sent are lost. *)
Restart ==
    /\ tick # Idle \/ pending # {} \/ \E c \in Call : calls[c] # NoCall
    /\ Fault
    /\ tick' = Idle
    /\ todo' = {}
    /\ calls' = [c \in Call |-> NoCall]
    /\ pending' = {}
    /\ missed' = missed \union {x.task : x \in {y \in pending : IsForAssignee(y)}}
    /\ UNCHANGED <<row, people, changes, ghosts>>

TickSteps ==
    \/ \E x \in todo : TakeRow(x)
    \/ TellAssignee \/ TellAssigner \/ Mark \/ RowFails \/ TickEnds

Next ==
    \/ \E by \in Person, m \in Mention, d \in {"none", "ahead"} : Assign(by, m, d)
    \/ \E c \in Call, n \in Task :
        Answer(c, n) \/ Complete(c, n) \/ Edit(c, n)
    \/ \E c \in Call : WriteAnswer(c, calls[c]) \/ WriteEdit(c, calls[c])
    \/ \E n \in Task : DeadlinePasses(n)
    \/ \E x \in pending : Announce(x)
    \/ Tick \/ TickSteps
    \/ Restart

(* The cron fires every hour and a tick goes on; nothing else has to happen. *)
Spec == Init /\ [][Next]_vars /\ WF_vars(Tick) /\ WF_vars(TickSteps)

-----------------------------------------------------------------------------
TypeOK ==
    /\ row \in [Task -> Row]
    /\ pending \subseteq [kind : {"prompt", "assigned", "rejected", "completed"}, task : Task]
    /\ knows \in [Task -> SUBSET Person]
    /\ breach \in [Task -> [Person -> Nat]]
    /\ tick \in [at : {"idle", "rows", "assignee", "assigner", "mark"},
                 task : Task \union {Nobody}, row : Row]
    /\ todo \subseteq [task : Task, row : Row]
    /\ calls \in [Call ->
          [task : Task \union {Nobody}, read : Row, patch : Row, from : {"nowhere", "chat", "dashboard"},
           tells : {"nothing", "prompt", "assigned", "rejected", "completed"}]]
    /\ changes \in 0..MaxChanges
    /\ faults \in 0..MaxFaults
    /\ {missed, admin, handed, raced, overlapped} \subseteq SUBSET Task

(* Whoever has an open task was told so, through assignment by mention,
   delegation and completion, unless a message failed, he has no phone, the
   dashboard moved the task, which tells nobody, or somebody answered for it
   after it had gone to somebody else: what a manager keeps while he transfers
   it does not wait for an answer any more, and the other head is not asked. *)
AssigneeKnows ==
    \A n \in Task \ (missed \union admin \union raced) :
        /\ row[n].state = "open"
        /\ row[n].to \in Reachable
        /\ \A x \in pending : x.task # n
        => row[n].to \in knows[n]

(* "sends WhatsApp reminders once per task": nobody hears twice of one missed
   deadline, but for one repetition per failure, as long as nobody changes the
   row while the cron has it in hands, or while the dashboard is saving it. *)
ToldOnce ==
    \A n \in Task \ overlapped, p \in Person : breach[n][p] <= 1 + faults

(* A marked row stands for people who were told.  A task handed on later stands
   for those who had it then: the transfer leaves the mark, and whoever is next
   is not told of a deadline that was missed before him. *)
MarkedWasTold ==
    \A n \in Task \ (overlapped \union admin \union handed) :
        row[n].reminded /\ row[n].deadline = "passed" =>
            \A p \in {row[n].to, row[n].by} \intersect Reachable : breach[n][p] > 0

(* A missed deadline of an open task is told, however often single messages
   fail, unless somebody deals with it first. *)
Breached(n) ==
    /\ row[n].state = "open"
    /\ row[n].deadline = "passed"
    /\ row[n].routing \notin {"AWAITING", "REJECTED"}
    /\ row[n].to \in Reachable
    /\ n \notin overlapped

BreachesAreTold ==
    \A n \in Task : []<>(Breached(n) => \E p \in Person : breach[n][p] > 0)

=============================================================================
