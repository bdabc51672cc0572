------------------------------- MODULE Office --------------------------------
(***************************************************************************)
(* Office: what an owner does in the chat and on the web.  Registration    *)
(* and set-up of the factory, its connection to Zoho, the purchase         *)
(* request, the registers, issues and attendance, and in the chat the task *)
(* in plain words, the CSV import, and the low-stock alerts with the       *)
(* orders begun from them.  They share no rows that a property is about,   *)
(* so each behaviour moves one of them and the others rest.                *)
(***************************************************************************)
EXTENDS PurchaseRequest

CONSTANTS
    Window, Factory, Employee, SkipOtp, MaxVerifyAttempts, MaxStartCalls, MaxStartFaults,
    File, Sku, Place, Contents, MaxImportRows, MaxBatches, MaxImportMessages, MaxImportRestarts,
    Items, Members, Hint, ItemFit, MemberFit, MaxStock, MaxOrderMessages, MaxTasks, MaxOrderChanges,
    State, MaxGrants, MaxLinkRows, MaxLinkCalls, MaxAging, MaxLinkRestarts,
    AlertEvent, ItemOf, Owners, Heads, MaxAlertCalls, MaxAlertMessages, MaxAlertFaults,
    Person, Worker, MaxIssues, MaxDayCalls,
    Name, Phone, FirstRows, MaxRegisterRows, MaxRegisterCalls

VARIABLES
    part,   \* the component that moves in this behaviour
    page, call, otp, verified, link, factories, departments, published, setup, staff, halfway, welcomed,
    waived, broken, served, faults, inventory, team, session, batches, places, items, booked, doing,
    importOverlapped, cancelled, messages, restarts, step, data, seen, picked, heard, tasks, stock,
    active, orderTeam, orderMessages, changes, connection, inventoryStep, nonce, lapsed, exchanges,
    grants, at, task, target, read, got, wish, revived, linkCalls, aging, linkRestarts, alerts,
    expired, alertsCall, told, logged, ended, shown, order, alertsCalls, alertsMessages,
    alertsFaults, users, issues, attendance, said, closings, announced, dayCall, contested, report,
    dayCalls, rows, registersCall, registersOverlapped, renamed, misplaced, registersCalls

Start ==
    INSTANCE Onboarding_proofs WITH
        NoWindow <- "none", NoFactory <- "none", MaxCalls <- MaxStartCalls, MaxFaults <- MaxStartFaults
startState == <<page, call, otp, verified, link, factories, departments, published, setup, staff,
    halfway, welcomed, waived, broken, served, faults>>
ASSUME StartAssumption == Start!OnboardingAssumption

Imports ==
    INSTANCE ChatImport WITH
        Handler <- Call, NoFile <- "none", MaxRows <- MaxImportRows, MaxMessages <- MaxImportMessages,
        MaxRestarts <- MaxImportRestarts, overlapped <- importOverlapped
importState == <<inventory, team, session, batches, places, items, booked, doing, importOverlapped,
    cancelled, messages, restarts>>
ASSUME ImportsAssumption == Imports!ChatImportAssumption

Ordered ==
    INSTANCE TaskByMessage WITH
        NoHint <- "none", MaxMessages <- MaxOrderMessages, MaxChanges <- MaxOrderChanges,
        team <- orderTeam, messages <- orderMessages
orderState == <<step, data, seen, picked, heard, tasks, stock, active, orderTeam, orderMessages,
    changes>>
ASSUME OrderedAssumption == Ordered!TaskByMessageAssumption

Connection ==
    INSTANCE ZohoConnection WITH
        Caller <- Call, NoState <- "none", MaxRows <- MaxLinkRows, MaxCalls <- MaxLinkCalls,
        MaxRestarts <- MaxLinkRestarts, calls <- linkCalls, restarts <- linkRestarts
linkState == <<connection, inventoryStep, nonce, lapsed, exchanges, grants, at, task, target, read,
    got, wish, revived, linkCalls, aging, linkRestarts>>
ASSUME LinkAssumption == Connection!ConnectionAssumption

Alerts ==
    INSTANCE StockAlerts WITH
        Sync <- "sync", Nothing <- "none", Handler <- Call, MaxCalls <- MaxAlertCalls,
        MaxMessages <- MaxAlertMessages, MaxFaults <- MaxAlertFaults, call <- alertsCall,
        calls <- alertsCalls, messages <- alertsMessages, faults <- alertsFaults
alertsState == <<alerts, expired, alertsCall, told, logged, ended, shown, order, alertsCalls,
    alertsMessages, alertsFaults>>
ASSUME AlertsPartAssumption == Alerts!AlertsAssumption

Days ==
    INSTANCE DayBook WITH
        Caller <- Call, Nobody <- "nobody", MaxCalls <- MaxDayCalls, call <- dayCall, calls <- dayCalls
dayState == <<users, issues, attendance, said, closings, announced, dayCall, contested, report,
    dayCalls>>
ASSUME DaysAssumption == Days!DayBookAssumption

Books ==
    INSTANCE Registers WITH
        Caller <- Call, MaxRows <- MaxRegisterRows, MaxCalls <- MaxRegisterCalls,
        call <- registersCall, overlapped <- registersOverlapped, calls <- registersCalls
registersState == <<rows, registersCall, registersOverlapped, renamed, misplaced, registersCalls>>
ASSUME BooksAssumption == Books!RegistersAssumption

parts == <<vars, part, startState, importState, orderState, linkState, alertsState, dayState, registersState>>

PartsInit ==
    /\ part \in {"request", "start", "import", "order", "link", "alerts", "day", "registers"}
    /\ Init
    /\ Start!Init /\ (part # "start" => factories = {} /\ departments = {})
    /\ Imports!Init /\ (part # "import" => places = {})
    /\ Ordered!Init
    /\ Connection!Init /\ (part # "link" => inventoryStep = "pending")
    /\ Alerts!Init
    /\ Days!Init
    /\ Books!Init

RequestMoves(A) == part = "request" /\ A /\ UNCHANGED <<part, startState, importState, orderState, linkState, alertsState, dayState, registersState>>
StartMoves(A) == part = "start" /\ A /\ UNCHANGED <<part, vars, importState, orderState, linkState, alertsState, dayState, registersState>>
ImportMoves(A) == part = "import" /\ A /\ UNCHANGED <<part, vars, startState, orderState, linkState, alertsState, dayState, registersState>>
OrderMoves(A) == part = "order" /\ A /\ UNCHANGED <<part, vars, startState, importState, linkState, alertsState, dayState, registersState>>
LinkMoves(A) == part = "link" /\ A /\ UNCHANGED <<part, vars, startState, importState, orderState, alertsState, dayState, registersState>>
AlertsMoves(A) == part = "alerts" /\ A /\ UNCHANGED <<part, vars, startState, importState, orderState, linkState, dayState, registersState>>
DayMoves(A) == part = "day" /\ A /\ UNCHANGED <<part, vars, startState, importState, orderState, linkState, alertsState, registersState>>
RegistersMoves(A) == part = "registers" /\ A /\ UNCHANGED <<part, vars, startState, importState, orderState, linkState, alertsState, dayState>>

PartsNext ==
    \/ RequestMoves(Next)
    \/ StartMoves(Start!Next)
    \/ ImportMoves(Imports!Next)
    \/ OrderMoves(Ordered!Next)
    \/ LinkMoves(Connection!Next)
    \/ AlertsMoves(Alerts!Next)
    \/ DayMoves(Days!Next)
    \/ RegistersMoves(Books!Next)

PartsSpec ==
    /\ PartsInit /\ [][PartsNext]_parts

(* The values of the part that moves; the others stay as they began. *)
PartsTypeOK ==
    /\ part = "request" => TypeOK
    /\ part = "start" => Start!TypeOK
    /\ part = "import" => Imports!TypeOK
    /\ part = "order" => Ordered!TypeOK
    /\ part = "link" => Connection!TypeOK
    /\ part = "alerts" => Alerts!TypeOK
    /\ part = "day" => Days!TypeOK
    /\ part = "registers" => Books!TypeOK

(* A vendor is assigned only after the approval, and the audit tells the row. *)
RequestIsAudited == part = "request" => VendorNeedsApproval /\ AuditTellsTheRow

(* A registered owner has a whole factory, a page that says the set-up is done
   and one that says a step is done are right, and every employee an
   import reported as added was welcomed, is still due a welcome, or was waived by
   the owner (Onboarding). *)
SetupHolds == part = "start" =>
    /\ Start!RegisteredIsReady /\ Start!ReadyMeansCompleted
    /\ Start!StepsDoneAreSo /\ Start!WelcomesAccounted

(* Reviewed rows go into the stock once, and those of a cancelled import never
   do (ChatImport). *)
ImportedAsReviewed == part = "import" =>
    Imports!ReviewedRowsBookOnce /\ Imports!CancelledStaysOut

(* The task made is the one the sender confirmed (TaskByMessage). *)
MadeAsConfirmed == part = "order" => Ordered!MadeAsConfirmed

(* A signed state pays for one exchange of a code, and what the owner did last
   to the connection stands unless a refresh was under way (ZohoConnection). *)
ConnectedAsAsked == part = "link" =>
    Connection!StateUsedOnce /\ Connection!OwnersWordStands

(* Vendors, SKUs, categories and locations are told apart, and items lie in open
   places of their factory, as far as the indexes and the checks before the
   write go (Registers); issues, attendance and report tell what happened as far
   as calls do not overlap (DayBook). *)
RegistersHold ==
    /\ part = "registers" => Books!RegistersHold
    /\ part = "day" => Days!DayBookHolds

(* Everybody an alert is for was told or their failure was logged; an order is
   begun for what its person was told of, and a number picks what the list
   shown says (StockAlerts). *)
AlertsHold == part = "alerts" => Alerts!AlertsReachAll /\ Alerts!OrderedAsAlerted
==============================================================================
