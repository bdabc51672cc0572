---------------------------- MODULE TaskRouting ----------------------------
(***************************************************************************)
(* Who has to do a task (TasksService, with DepartmentsService).           *)
(*                                                                         *)
(* A task that the owner gives to a manager waits for the manager, who     *)
(* keeps it, delegates it, transfers it to another department or rejects   *)
(* it over WhatsApp; administrators change tasks from the dashboard.       *)
(*                                                                         *)
(* Every call reads the task row and checks it, asks for roles and         *)
(* departments, and then updates the row.  Nothing locks or re-reads the   *)
(* row, and Sequelize writes only the columns whose new value differs from *)
(* the row that was read.  Inventory lines are the subject of              *)
(* TaskCompletion: the task of this module has none.                       *)
(***************************************************************************)
EXTENDS Integers, FiniteSets

CONSTANTS
    Person, Nobody,
    Dept, NoDept,
    Role,           \* Role[p]: the role of p in the factory
    WorksIn,        \* WorksIn[p]: the department a worker is attached to
    FirstHead,      \* FirstHead[d]: the head of d at first
    Call,           \* calls of the service that may overlap
    MaxCalls,       \* bound on the calls made for the task
    MaxHandovers    \* bound on changes of a department's head

ASSUME RoutingAssumption ==
    /\ Nobody \notin Person
    /\ NoDept \notin Dept
    /\ Role \in [Person -> {"OWNER", "MANAGER", "WORKER"}]
    /\ WorksIn \in [Person -> Dept \union {NoDept}]
    /\ \A p \in Person : Role[p] # "WORKER" => WorksIn[p] = NoDept
    /\ FirstHead \in [Dept -> {p \in Person : Role[p] # "WORKER"}]
    /\ \A d, e \in Dept : FirstHead[d] = FirstHead[e] => (d = e \/ Role[FirstHead[d]] = "OWNER")
    /\ MaxCalls \in Nat
    /\ MaxHandovers \in Nat

VARIABLES
    exists,     \* the task was created
    row,        \* its row in tasks
    head,       \* departments.manager_user_id
    pc, op,
    snap,       \* snap[c]: the row call c read
    patch,      \* patch[c]: the row as call c wants it
    calls, handovers,
    overlapped  \* some call began while another was under way

callVars == <<pc, op, snap, patch>>
vars == <<exists, row, head, callVars, calls, handovers, overlapped>>

Managers == {p \in Person : Role[p] = "MANAGER"}
Workers == {p \in Person : Role[p] = "WORKER"}

Routing == {"AWAITING", "MANAGER_SELF", "DELEGATED", "REJECTED", "DIRECT"}
Row ==
    [assignee : Person, assigner : Person, owner : Person \union {Nobody},
     routing : Routing, dept : Dept \union {NoDept},
     completed : BOOLEAN, rejectedBy : Person \union {Nobody}]
NoRow ==
    [assignee |-> Nobody, assigner |-> Nobody, owner |-> Nobody, routing |-> "DIRECT",
     dept |-> NoDept, completed |-> FALSE, rejectedBy |-> Nobody]

(* A call, who makes it, the person or the department it names, and what
   adminUpdate is told about completion. *)
Operation ==
    [kind : {"self", "reject"}, by : Managers, to : {Nobody}, done : {"keep"}]
        \union [kind : {"delegate"}, by : Managers, to : Person, done : {"keep"}]
        \union [kind : {"transfer"}, by : Managers, to : Dept, done : {"keep"}]
        \union [kind : {"complete"}, by : Person, to : {Nobody}, done : {"keep"}]
        \union [kind : {"admin"}, by : {Nobody}, to : Person \union {Nobody}, done : {"keep", "yes", "no"}]
NoOperation == [kind |-> "none", by |-> Nobody, to |-> Nobody, done |-> "keep"]

Init ==
    /\ exists = FALSE
    /\ row = NoRow
    /\ head = FirstHead
    /\ pc = [c \in Call |-> "idle"]
    /\ op = [c \in Call |-> NoOperation]
    /\ snap = [c \in Call |-> NoRow]
    /\ patch = [c \in Call |-> NoRow]
    /\ calls = 0
    /\ handovers = 0
    /\ overlapped = FALSE

-----------------------------------------------------------------------------
(* getDepartmentForManager: any department the person heads. *)
DepartmentOf(p) ==
    IF \E d \in Dept : head[d] = p THEN CHOOSE d \in Dept : head[d] = p ELSE NoDept

(* getAssignableWorkerUserIdsForManager. *)
AssignableWorkers(m) ==
    {w \in Workers : DepartmentOf(m) = NoDept \/ WorksIn[w] \in {DepartmentOf(m), NoDept}}

(* A manager may give a worker a task only if the worker is assignable. *)
MayAssign(by, to) ==
    Role[by] = "MANAGER" /\ Role[to] = "WORKER" => to \in AssignableWorkers(by)

(* resolveDepartmentIdForNewTask, without a department slug. *)
ResolveDepartment(by, to) ==
    IF Role[to] = "MANAGER" THEN DepartmentOf(to)
    ELSE IF Role[to] = "WORKER" /\ WorksIn[to] = DepartmentOf(by) THEN DepartmentOf(by)
    ELSE NoDept

(* buildRoutingForNewTask: only what an owner gives a manager is routed. *)
IsRouted(by, to) == Role[by] = "OWNER" /\ Role[to] = "MANAGER"

NewRow_NoOwner(by, to, dept) ==
    [NoRow EXCEPT !.assignee = to, !.assigner = by, !.dept = dept,
                  !.routing = IF IsRouted(by, to) THEN "AWAITING" ELSE "DIRECT"]

NewRow_PeopleSwapped(by, to, dept) ==
    [NoRow EXCEPT !.assignee = by, !.assigner = to, !.dept = dept,
                  !.routing = IF IsRouted(by, to) THEN "AWAITING" ELSE "DIRECT",
                  !.owner = IF IsRouted(by, to) THEN by ELSE Nobody]

NewRow(by, to, dept) ==
    [NoRow EXCEPT !.assignee = to, !.assigner = by, !.dept = dept,
                  !.routing = IF IsRouted(by, to) THEN "AWAITING" ELSE "DIRECT",
                  !.owner = IF IsRouted(by, to) THEN by ELSE Nobody]

Created(r) ==
    /\ ~exists
    /\ exists' = TRUE
    /\ row' = r
    /\ UNCHANGED <<head, callVars, calls, handovers, overlapped>>

(* adminCreate and assignToUser. *)
Create == \E by, to \in Person : MayAssign(by, to) /\ Created(NewRow(by, to, ResolveDepartment(by, to)))

(* assignToUser for a department: its head gets the task. *)
CreateForDepartment ==
    \E by \in Person \ Workers, d \in Dept : Created(NewRow(by, head[d], d))

(* assignToAll: one direct task for each worker; this is one of them. *)
CreateForAll ==
    \E by \in Person \ Workers :
        \E w \in IF Role[by] = "MANAGER" THEN AssignableWorkers(by) ELSE Workers :
            Created(NewRow(by, w, IF Role[by] = "MANAGER" THEN DepartmentOf(by) ELSE NoDept))

-----------------------------------------------------------------------------
(* managerMayCompleteTask. *)
ManagerMayComplete(p, r) ==
    /\ Role[p] = "MANAGER"
    /\ p \in {r.assignee, r.assigner} \/ (r.dept # NoDept /\ r.dept = DepartmentOf(p))

(* completeTask: such a manager, or the assignee of a task that is not waiting. *)
MayComplete(p, r) == ManagerMayComplete(p, r) \/ (r.assignee = p /\ r.routing # "AWAITING")

(* getTasks: the open tasks a person is shown. *)
Listed(p, r) ==
    /\ ~r.completed
    /\ \/ Role[p] = "OWNER"
       \/ Role[p] = "WORKER" /\ r.routing # "REJECTED" /\ r.assignee = p
       \/ /\ Role[p] = "MANAGER" /\ r.routing # "REJECTED"
          /\ \/ r.assignee = p \/ r.assigner = p
             \/ r.dept # NoDept /\ r.dept = DepartmentOf(p)

(* assertTaskEligibleForManagerRouting and the assignee check. *)
MayAnswer(m, r) == ~r.completed /\ r.routing = "AWAITING" /\ r.assignee = m

(* assertManagerIsAssigneeForRouting and the states that can be rerouted. *)
MayReroute(m, r) ==
    ~r.completed /\ r.routing \in {"AWAITING", "MANAGER_SELF"} /\ r.assignee = m

Reassigns(o, r) == o.to # Nobody /\ o.to # r.assignee

(* What each operation asks of the row it read... *)
Permitted(o, r) ==
    CASE o.kind \in {"self", "delegate"}   -> MayAnswer(o.by, r)
      [] o.kind \in {"transfer", "reject"} -> MayReroute(o.by, r)
      [] o.kind = "complete"               -> r.routing # "REJECTED" /\ ~r.completed
      [] o.kind = "admin"                  -> Reassigns(o, r) => r.routing # "AWAITING"

(* ... and of roles and departments, which it reads afterwards. *)
Granted(o, r) ==
    CASE o.kind = "delegate" -> o.to \in Workers /\ MayAssign(o.by, o.to)
      [] o.kind = "transfer" -> head[o.to] # o.by
      [] o.kind = "complete" -> MayComplete(o.by, r)
      [] o.kind = "admin"    -> Reassigns(o, r) => MayAssign(r.assigner, o.to)
      [] OTHER -> TRUE

Completed(o, r) == CASE o.done = "yes" -> TRUE [] o.done = "no" -> FALSE [] OTHER -> r.completed

OwnerOf(r) == IF r.owner = Nobody THEN r.assigner ELSE r.owner

Transferred_DepartmentAsPerson(r, d) ==
    [r EXCEPT !.assignee = d, !.assigner = OwnerOf(r), !.dept = d,
              !.routing = "AWAITING", !.owner = OwnerOf(r)]

Transferred(r, d) ==
    [r EXCEPT !.assignee = head[d], !.assigner = OwnerOf(r), !.dept = d,
              !.routing = "AWAITING", !.owner = OwnerOf(r)]

(* The row as the operation wants it, given the row it read. *)
Patched(o, r) ==
    CASE o.kind = "self"     -> [r EXCEPT !.routing = "MANAGER_SELF"]
      [] o.kind = "delegate" -> [r EXCEPT !.assignee = o.to, !.assigner = o.by,
                                          !.routing = "DELEGATED", !.dept = DepartmentOf(o.by)]
      [] o.kind = "transfer" -> Transferred(r, o.to)
      [] o.kind = "reject"   -> [r EXCEPT !.routing = "REJECTED", !.rejectedBy = o.by]
      [] o.kind = "complete" -> [r EXCEPT !.completed = TRUE]
      [] o.kind = "admin"    ->
            [r EXCEPT !.completed = Completed(o, r),
                      !.assignee = IF Reassigns(o, r) THEN o.to ELSE @,
                      !.dept = IF Reassigns(o, r) THEN ResolveDepartment(r.assigner, o.to) ELSE @]

Read(c, o) ==
    /\ exists
    /\ pc[c] = "idle"
    /\ calls < MaxCalls
    /\ Permitted(o, row)
    /\ pc' = [pc EXCEPT ![c] = "read"]
    /\ op' = [op EXCEPT ![c] = o]
    /\ snap' = [snap EXCEPT ![c] = row]
    /\ calls' = calls + 1
    /\ overlapped' = (overlapped \/ \E d \in Call \ {c} : pc[d] # "idle")
    /\ UNCHANGED <<exists, row, head, patch, handovers>>

Decide(c) ==
    /\ pc[c] = "read"
    /\ Granted(op[c], snap[c])
    /\ patch' = [patch EXCEPT ![c] = Patched(op[c], snap[c])]
    /\ pc' = [pc EXCEPT ![c] = "decided"]
    /\ UNCHANGED <<exists, row, head, op, snap, calls, handovers, overlapped>>

End(c) ==
    /\ pc' = [pc EXCEPT ![c] = "idle"]
    /\ op' = [op EXCEPT ![c] = NoOperation]
    /\ snap' = [snap EXCEPT ![c] = NoRow]
    /\ patch' = [patch EXCEPT ![c] = NoRow]
    /\ UNCHANGED <<exists, head, calls, handovers, overlapped>>

(* task.update: only the columns that differ from the row read. *)
Update(c) ==
    /\ pc[c] = "decided"
    /\ row' = [f \in DOMAIN row |-> IF patch[c][f] = snap[c][f] THEN row[f] ELSE patch[c][f]]
    /\ End(c)

(* The call is refused, or dies before it writes. *)
Fail(c) ==
    /\ pc[c] \in {"read", "decided"}
    /\ End(c)
    /\ UNCHANGED row

(* DepartmentsService.update and assignDepartmentHead: the owner or a manager
   who heads no other department. *)
ChangeHead(d) ==
    /\ handovers < MaxHandovers
    /\ \E p \in Person \ Workers :
        /\ Role[p] = "OWNER" \/ \A e \in Dept \ {d} : head[e] # p
        /\ head[d] # p
        /\ head' = [head EXCEPT ![d] = p]
    /\ handovers' = handovers + 1
    /\ UNCHANGED <<exists, row, callVars, calls, overlapped>>

Next ==
    \/ Create
    \/ CreateForDepartment
    \/ CreateForAll
    \/ \E c \in Call :
        \/ \E o \in Operation : Read(c, o)
        \/ Decide(c)
        \/ Update(c)
        \/ Fail(c)
    \/ \E d \in Dept : ChangeHead(d)

Spec == Init /\ [][Next]_vars

-----------------------------------------------------------------------------
TypeOK ==
    /\ exists \in BOOLEAN
    /\ row \in Row \union {NoRow}
    /\ head \in [Dept -> Person \ Workers]
    /\ pc \in [Call -> {"idle", "read", "decided"}]
    /\ op \in [Call -> Operation \union {NoOperation}]
    /\ snap \in [Call -> Row \union {NoRow}]
    /\ patch \in [Call -> Row \union {NoRow}]
    /\ calls \in 0..MaxCalls
    /\ handovers \in 0..MaxHandovers
    /\ overlapped \in BOOLEAN

(* A routed task always remembers the business owner it came from, who is told
   of a rejection and gets the task back on a transfer, and never changes
   owner; whatever calls overlap. *)
RoutedTaskHasItsOwner ==
    [][exists' =>
        /\ row'.routing # "DIRECT" => row'.owner # Nobody /\ Role[row'.owner] = "OWNER"
        /\ exists => row'.owner = row.owner]_vars

(* A waiting task is with the head of its department, as long as departments
   keep their heads and calls do not overlap. *)
AwaitingIsWithTheHead ==
    /\ ~overlapped
    /\ handovers = 0
    /\ row.routing = "AWAITING"
    /\ row.dept # NoDept
    => row.assignee = head[row.dept]

(* Nobody but its own department's workers, and workers of no department, does
   a manager's task, across creation, delegation and reassignment, as long as
   departments keep their heads and calls do not overlap. *)
ManagersUseOwnWorkers ==
    exists /\ ~overlapped /\ handovers = 0 => MayAssign(row.assigner, row.assignee)

(* Whoever may answer an open task or complete it is shown it, and a worker who
   is shown one may complete it, as long as calls do not overlap. *)
ListsTellWhatMayBeDone ==
    exists => \A p \in Person :
        /\ MayAnswer(p, row) => Listed(p, row)
        /\ ~row.completed /\ row.routing # "REJECTED" /\ MayComplete(p, row) => Listed(p, row)
        /\ ~overlapped /\ Role[p] = "WORKER" /\ Listed(p, row) => MayComplete(p, row)

=============================================================================
