-------------------------------- MODULE Team --------------------------------
(***************************************************************************)
(* The people of one factory: FactoryService (members and their roles),    *)
(* DepartmentsService (departments, heads, workers), UserService.remove,   *)
(* and the imports that add people row by row (WorkerOnboardingService,    *)
(* TeamCsvImportService on the web, TeamBulkImportService in the chat).    *)
(*                                                                         *)
(* No foreign keys tie the tables together and only single statements are  *)
(* atomic, save assignMember and the deletion of a user.  Every other call *)
(* checks first and writes later, what it checked may be gone by then.     *)
(***************************************************************************)
EXTENDS Integers, FiniteSets

CONSTANTS
    Person, Department, Task, Caller,
    Owner,              \* the owner, a member from the start
    Stranger,           \* people who work for another factory
    NoOne, NoDepartment,
    MaxCalls            \* bound

TeamAssumption ==
    /\ Owner \in Person /\ Stranger \subseteq Person \ {Owner}    \* all with accounts
    /\ NoOne \notin Person /\ NoDepartment \notin Department
    /\ MaxCalls \in Nat

VARIABLES
    account,    \* users that exist
    role,       \* factory_users.role in this factory
    head,       \* departments: the head, NoOne if there is no such department
    place,      \* department_workers: one row per user
    taskOf,     \* tasks.department_id
    doing,      \* doing[c]: what call c is at
    outcome,    \* what the last row about a person was reported as
    asked,      \* the role that row asked for
    moved,      \* people whose membership was edited while they had a post
    stale,      \* a write relied on a check that no longer held, or came into
                \* a department that was being removed
    calls

teamVars == <<account, role, head, place, taskOf, doing, outcome, asked, moved, stale, calls>>

MemberRole == {"OWNER", "MANAGER", "WORKER"}
MayHead == {"OWNER", "MANAGER"}
Idle == [at |-> "idle", row |-> FALSE, who |-> NoOne, dept |-> NoDepartment, role |-> "none"]
Exists(d) == head[d] # NoOne
Headed(p) == {d \in Department : head[d] = p}

Init ==
    /\ account \in {a \in SUBSET Person : Stranger \union {Owner} \subseteq a}
    /\ role = [p \in Person |-> IF p = Owner THEN "OWNER" ELSE "none"]
    /\ head \in [Department -> {Owner, NoOne}]
    /\ place = [p \in Person |-> NoDepartment]
    /\ taskOf = [t \in Task |-> NoDepartment]
    /\ doing = [c \in Caller |-> Idle]
    /\ outcome = [p \in Person |-> "none"]
    /\ asked = [p \in Person |-> "none"]
    /\ moved = {}
    /\ stale = FALSE
    /\ calls = 0

Arrives == calls < MaxCalls /\ calls' = calls + 1
Begin(c, fields) == doing[c] = Idle /\ Arrives /\ doing' = [doing EXCEPT ![c] = fields]
Goto(c, where) == doing' = [doing EXCEPT ![c].at = where]

(* A call ends; a row of an import is reported to whoever sent the file, and
   what was reported about the people who lose their post is out of date. *)
EndsFor(c, result, touched) ==
    /\ doing' = [doing EXCEPT ![c] = Idle]
    /\ outcome' = [p \in Person |->
                    IF doing[c].row /\ p = doing[c].who THEN result
                    ELSE IF p \in touched THEN "none" ELSE outcome[p]]

Ends(c, result) == EndsFor(c, result, {})

Forget(p) == outcome' = [outcome EXCEPT ![p] = "none"]

-----------------------------------------------------------------------------
(* assignMember of an existing user or of a new phone number, one transaction:
   nobody has two links (unique user_id). *)
CanJoin(p) == role[p] = "none" /\ (p \in account => p \notin Stranger)

AssignMember(p, r) ==
    /\ Arrives
    /\ CanJoin(p)
    /\ account' = account \union {p}
    /\ role' = [role EXCEPT ![p] = r]
    /\ Forget(p)
    /\ UNCHANGED <<head, place, taskOf, doing, asked, moved, stale>>

(* updateFactoryUser and removeFactoryUser: posts are left as they are. *)
SetMembership(p, r) ==
    /\ Arrives
    /\ role[p] \notin {"none", r}
    /\ role' = [role EXCEPT ![p] = r]
    /\ moved' = moved \union {p}
    /\ Forget(p)
    /\ UNCHANGED <<account, head, place, taskOf, doing, asked, stale>>

(* UserService.remove, one transaction over all the tables. *)
RemoveUser(p) ==
    /\ Arrives
    /\ p \in account
    /\ account' = account \ {p}
    /\ role' = [role EXCEPT ![p] = "none"]
    /\ head' = [d \in Department |-> IF head[d] = p THEN NoOne ELSE head[d]]
    /\ place' = [q \in Person |->
                    IF q = p \/ place[q] \in Headed(p) THEN NoDepartment ELSE place[q]]
    /\ taskOf' = [t \in Task |-> IF taskOf[t] \in Headed(p) THEN NoDepartment ELSE taskOf[t]]
    /\ outcome' = [q \in Person |->
                    IF q = p \/ place[q] \in Headed(p) THEN "none" ELSE outcome[q]]
    /\ UNCHANGED <<doing, asked, moved, stale>>

-----------------------------------------------------------------------------
(* create, update and assignDepartmentHead: the head is an owner or a manager,
   and a manager heads one department only. *)
HeadAllowed(p, d) ==
    /\ role[p] \in MayHead
    /\ role[p] = "OWNER" \/ Headed(p) \subseteq {d}

CreateDepartment(c, d, p) ==
    /\ ~Exists(d) /\ HeadAllowed(p, d)
    /\ Begin(c, [Idle EXCEPT !.at = "create", !.who = p, !.dept = d])
    /\ UNCHANGED <<account, role, head, place, taskOf, outcome, asked, moved, stale>>

AssignHead(c, d, p) ==
    /\ Exists(d) /\ HeadAllowed(p, d)
    /\ Begin(c, [Idle EXCEPT !.at = "head", !.who = p, !.dept = d])
    /\ UNCHANGED <<account, role, head, place, taskOf, outcome, asked, moved, stale>>

(* The slug is unique: a second insert fails; an update of a row that is gone
   changes nothing. *)
WriteHead(c) ==
    LET p == doing[c].who   d == doing[c].dept IN
    /\ doing[c].at \in {"create", "head"}
    /\ IF Exists(d) = (doing[c].at = "head")
       THEN /\ head' = [head EXCEPT ![d] = p]
            /\ stale' = (stale \/ ~HeadAllowed(p, d))
            /\ EndsFor(c, "added", {head[d]})
       ELSE /\ Ends(c, IF doing[c].at = "head" THEN "added" ELSE "failed")
            /\ stale' = (stale \/ doing[c].at = "head")
            /\ UNCHANGED head
    /\ UNCHANGED <<account, role, place, taskOf, asked, moved, calls>>

(* Somebody is past removing the workers, or the tasks, of department d. *)
Dropping(d, steps) == \E c \in Caller : doing[c].at \in steps /\ doing[c].dept = d

(* remove: the tasks, the workers and the row, in three statements. *)
RemoveDepartment(c, d) ==
    /\ Exists(d)
    /\ Begin(c, [Idle EXCEPT !.at = "dropWorkers", !.dept = d])
    /\ taskOf' = [t \in Task |-> IF taskOf[t] = d THEN NoDepartment ELSE taskOf[t]]
    /\ UNCHANGED <<account, role, head, place, outcome, asked, moved, stale>>

DropWorkers(c) ==
    LET inside == {p \in Person : place[p] = doing[c].dept} IN
    /\ doing[c].at = "dropWorkers"
    /\ place' = [p \in Person |-> IF p \in inside THEN NoDepartment ELSE place[p]]
    /\ outcome' = [p \in Person |-> IF p \in inside THEN "none" ELSE outcome[p]]
    /\ Goto(c, "dropRow")
    /\ UNCHANGED <<account, role, head, taskOf, asked, moved, stale, calls>>

DropRow(c) ==
    LET d == doing[c].dept IN
    /\ doing[c].at = "dropRow"
    /\ head' = [head EXCEPT ![d] = NoOne]
    /\ EndsFor(c, "none", {head[d]})
    /\ UNCHANGED <<account, role, place, taskOf, asked, moved, stale, calls>>

-----------------------------------------------------------------------------
(* addWorker: only workers of the factory, and in one department. *)
WorkerAllowed(p, d) ==
    /\ Exists(d)
    /\ role[p] = "WORKER"
    /\ place[p] \in {d, NoDepartment}

AddWorker(c, d, p) ==
    /\ WorkerAllowed(p, d)
    /\ Begin(c, [Idle EXCEPT !.at = "worker", !.who = p, !.dept = d])
    /\ UNCHANGED <<account, role, head, place, taskOf, outcome, asked, moved, stale>>

WriteWorker(c) ==
    LET p == doing[c].who   d == doing[c].dept IN
    /\ doing[c].at = "worker"
    /\ IF place[p] \in {d, NoDepartment}
       THEN /\ place' = [place EXCEPT ![p] = d]
            /\ stale' = (stale \/ ~WorkerAllowed(p, d) \/ Dropping(d, {"dropRow"}))
            /\ Ends(c, "added")
       ELSE Ends(c, "failed") /\ UNCHANGED <<place, stale>>
    /\ UNCHANGED <<account, role, head, taskOf, asked, moved, calls>>

RemoveWorker(d, p) ==
    /\ Arrives
    /\ place[p] = d
    /\ place' = [place EXCEPT ![p] = NoDepartment]
    /\ Forget(p)
    /\ UNCHANGED <<account, role, head, taskOf, doing, asked, moved, stale>>

(* A task is routed to a department (TaskRouting has the rules). *)
RouteTask(t, d) ==
    /\ Arrives
    /\ Exists(d)
    /\ taskOf' = [taskOf EXCEPT ![t] = d]
    /\ stale' = (stale \/ Dropping(d, {"dropWorkers", "dropRow"}))
    /\ UNCHANGED <<account, role, head, place, doing, outcome, asked, moved>>

-----------------------------------------------------------------------------
(* One row of a CSV: a person, a role and a department.  The chat import forgets the role of a new phone number
   (onboardWorker then takes WORKER); the web import makes a department that is
   missing, headed by the owner. *)
RoleTaken(via, p, r) == IF via = "chat" /\ p \notin account THEN "WORKER" ELSE r

Row(c, via, p, d, r) ==
    /\ Exists(d) \/ via = "web"
    /\ Begin(c, [at |-> IF Exists(d) THEN "join" ELSE "newDepartment", row |-> TRUE,
                 who |-> p, dept |-> d, role |-> RoleTaken(via, p, r)])
    /\ asked' = [asked EXCEPT ![p] = r]
    /\ Forget(p)
    /\ UNCHANGED <<account, role, head, place, taskOf, moved, stale>>

FindOrCreateByName(c) ==
    LET d == doing[c].dept IN
    /\ doing[c].at = "newDepartment"
    /\ \/ Exists(d) /\ Goto(c, "join") /\ UNCHANGED <<head, outcome>>
       \/ /\ ~Exists(d) /\ role[Owner] = "OWNER"
          /\ head' = [head EXCEPT ![d] = Owner]
          /\ Goto(c, "join") /\ UNCHANGED outcome
       \/ ~Exists(d) /\ role[Owner] # "OWNER" /\ Ends(c, "failed") /\ UNCHANGED head
    /\ UNCHANGED <<account, role, place, taskOf, asked, moved, stale, calls>>

(* A member is skipped, a stranger refused; anybody else joins first, a new
   phone number only if the department is still there, and gets the post in
   further statements. *)
Join(c) ==
    LET p == doing[c].who
        joins == CanJoin(p) /\ (p \in account \/ Exists(doing[c].dept)) IN
    /\ doing[c].at = "join"
    /\ \/ /\ role[p] # "none"
          /\ Ends(c, "skipped")
          /\ UNCHANGED <<account, role>>
       \/ /\ role[p] = "none" /\ ~joins
          /\ Ends(c, "failed")
          /\ UNCHANGED <<account, role>>
       \/ /\ joins
          /\ account' = account \union {p}
          /\ role' = [role EXCEPT ![p] = doing[c].role]
          /\ Goto(c, IF doing[c].role = "MANAGER" /\ p \notin account THEN "toHead" ELSE "toWorker")
          /\ UNCHANGED outcome
    /\ UNCHANGED <<head, place, taskOf, asked, moved, stale, calls>>

(* The checks of assignDepartmentHead or addWorker, after the membership is
   committed: a row refused here is reported as failed, the member stays. *)
CheckPost_Unchecked(c) ==
    LET p == doing[c].who   d == doing[c].dept IN
    /\ \/ doing[c].at = "toHead" /\ Goto(c, "head") /\ UNCHANGED outcome
       \/ doing[c].at = "toWorker" /\ WorkerAllowed(p, d) /\ Goto(c, "worker") /\ UNCHANGED outcome
       \/ doing[c].at = "toWorker" /\ ~WorkerAllowed(p, d) /\ Ends(c, "added")
    /\ UNCHANGED <<account, role, head, place, taskOf, asked, moved, stale, calls>>

CheckPost(c) ==
    LET p == doing[c].who   d == doing[c].dept IN
    /\ \/ /\ doing[c].at = "toHead" /\ Exists(d) /\ HeadAllowed(p, d)
          /\ Goto(c, "head") /\ UNCHANGED outcome
       \/ /\ doing[c].at = "toWorker" /\ WorkerAllowed(p, d)
          /\ Goto(c, "worker") /\ UNCHANGED outcome
       \/ /\ \/ doing[c].at = "toHead" /\ ~(Exists(d) /\ HeadAllowed(p, d))
             \/ doing[c].at = "toWorker" /\ ~WorkerAllowed(p, d)
          /\ Ends(c, "failed")
    /\ UNCHANGED <<account, role, head, place, taskOf, asked, moved, stale, calls>>

CallStep(c) ==
    \/ WriteHead(c) \/ WriteWorker(c)
    \/ DropWorkers(c) \/ DropRow(c)
    \/ FindOrCreateByName(c) \/ Join(c) \/ CheckPost(c)

Next ==
    \/ \E c \in Caller :
        \/ CallStep(c)
        \/ \E d \in Department :
            \/ RemoveDepartment(c, d)
            \/ \E p \in Person :
                \/ CreateDepartment(c, d, p) \/ AssignHead(c, d, p) \/ AddWorker(c, d, p)
                \/ \E via \in {"chat", "web"}, r \in {"MANAGER", "WORKER"} : Row(c, via, p, d, r)
    \/ \E p \in Person :
        \/ RemoveUser(p)
        \/ \E r \in MemberRole : AssignMember(p, r)
        \/ \E r \in MemberRole \union {"none"} : SetMembership(p, r)
        \/ \E d \in Department : RemoveWorker(d, p)
    \/ \E t \in Task, d \in Department : RouteTask(t, d)

Spec == Init /\ [][Next]_teamVars

-----------------------------------------------------------------------------
TypeOK ==
    /\ account \in SUBSET Person
    /\ role \in [Person -> MemberRole \union {"none"}]
    /\ head \in [Department -> Person \union {NoOne}]
    /\ place \in [Person -> Department \union {NoDepartment}]
    /\ taskOf \in [Task -> Department \union {NoDepartment}]
    /\ doing \in [Caller -> [at : {"idle", "create", "head", "worker", "dropWorkers", "dropRow",
                                   "newDepartment", "join", "toHead", "toWorker"},
                             row : BOOLEAN, who : Person \union {NoOne},
                             dept : Department \union {NoDepartment}, role : MemberRole \union {"none"}]]
    /\ outcome \in [Person -> {"none", "added", "skipped", "failed"}]
    /\ asked \in [Person -> {"none", "MANAGER", "WORKER"}]
    /\ moved \in SUBSET Person
    /\ stale \in BOOLEAN /\ calls \in 0..MaxCalls

(* Departments are headed by owners and managers, a manager heads one: only an
   edit of the head's membership or a check gone stale undoes this. *)
HeadsCanHead ==
    ~stale => \A p \in Person \ moved :
        /\ Headed(p) # {} => role[p] \in MayHead
        /\ role[p] = "MANAGER" => Cardinality(Headed(p)) <= 1

(* Nobody works in, and no task is routed to, a department that is gone. *)
NothingInRemovedDepartment ==
    ~stale =>
        /\ \A p \in Person : place[p] # NoDepartment => Exists(place[p])
        /\ \A t \in Task : taskOf[t] # NoDepartment => Exists(taskOf[t])

(* Whoever was reported as added has an account, a role and a post. *)
AddedHasAPost ==
    ~stale => \A p \in Person : outcome[p] = "added" =>
        /\ p \in account
        /\ role[p] = "WORKER" => place[p] # NoDepartment
        /\ role[p] = "MANAGER" => Headed(p) # {}
        /\ role[p] # "none"

(* Whoever was reported as added has the role the row asked for. *)
AddedAsAsked == \A p \in Person : outcome[p] = "added" => role[p] = asked[p]
=============================================================================
