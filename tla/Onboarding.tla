----------------------------- MODULE Onboarding -----------------------------
(***************************************************************************)
(* Signing up on the web: the wizard (onboarding-form.tsx and the steps),  *)
(* the one-time codes (OnboardingOtpStoreService), the registration        *)
(* (OnboardingService) and the set-up calls (OnboardingSetupService) of    *)
(* one owner's phone number, used in several browser windows.              *)
(*                                                                         *)
(* A window waits for one call at a time.  A call runs on after its window *)
(* lost it or was reloaded, in statements other calls come between; a      *)
(* restart of the process ends the calls where they are.  The rows of the  *)
(* inventory and team files are ChatImport's and Team's; the previews only *)
(* read.                                                                   *)
(***************************************************************************)
EXTENDS Integers, FiniteSets

CONSTANTS
    Window, Call, Factory, Employee,
    NoWindow, NoFactory,
    SkipOtp,                        \* ONBOARDING_SKIP_OTP
    MaxVerifyAttempts,              \* MAX_VERIFY_ATTEMPTS
    MaxCalls, MaxFaults             \* bounds

OnboardingAssumption ==
    /\ NoWindow \notin Window /\ NoFactory \notin Factory
    /\ SkipOtp \in BOOLEAN
    /\ MaxVerifyAttempts \in Nat \ {0}
    /\ {MaxCalls, MaxFaults} \subseteq Nat

VARIABLES
    page,       \* page[w]: the wizard in window w
    call,       \* call[c]: a request being served
    otp,        \* onboarding_otp_challenges: the row of the phone
    verified,   \* onboarding_phone_verifications has a row that is valid
    link,       \* the owner's row in factory_users
    factories,  \* factories created
    departments,\* those with a department
    published,  \* those whose onboarding.registered was published
    setup,      \* the onboarding_ columns of each factory, and whether it has items
    staff,      \* staff[f]: employees who joined with an import
    halfway,    \* those of them whose row failed after they had joined
    welcomed,   \* welcomed[e]: welcome messages sent to e, or tried
    waived,     \* employees left without one because the owner said so
    broken,     \* a call was cut short, or two set-up calls overlapped
    served, faults

onboardingVars == <<page, call, otp, verified, link, factories, departments, published, setup,
                    staff, halfway, welcomed, waived, broken, served, faults>>

NoCall == [at |-> "none", by |-> NoWindow, f |-> NoFactory, seen |-> {}, flag |-> FALSE, shown |-> FALSE, next |-> "stay"]
NoOtp == [sent |-> FALSE, tries |-> 0, hot |-> FALSE]
NoSetup == [inventory |-> "PENDING", stocked |-> FALSE, team |-> "PENDING", completed |-> FALSE, pending |-> {}]
Fresh == [at |-> "phone", token |-> NoFactory, waits |-> FALSE, done |-> FALSE]

(* The number may be unknown, have an account without a company, which is the
   same here, or belong to an employee or the owner of a company. *)
Init ==
    /\ page = [w \in Window |-> Fresh]
    /\ call = [c \in Call |-> NoCall]
    /\ otp = NoOtp
    /\ verified = FALSE
    /\ \/ link = [f |-> NoFactory, role |-> "none"] /\ factories = {}
       \/ \E f \in Factory, r \in {"OWNER", "WORKER"} : link = [f |-> f, role |-> r] /\ factories = {f}
    /\ departments \in SUBSET factories
    /\ published = {}
    /\ setup = [f \in Factory |-> NoSetup]
    /\ staff = [f \in Factory |-> {}]
    /\ halfway = {}
    /\ welcomed = [e \in Employee |-> 0]
    /\ waived = {}
    /\ broken = FALSE
    /\ served = 0 /\ faults = 0

Rows == <<otp, verified, link, factories, departments, published, setup, staff, halfway, welcomed, waived>>
Registry == <<otp, verified, link, factories, departments, published>>
SetupRows == <<setup, staff, halfway, welcomed, waived>>

-----------------------------------------------------------------------------
(* Requests and replies.  The set-up calls that read rows they write later. *)
Slow == {"status", "count", "import", "rows", "merge", "complete", "send", "close"}

Asks(w, c, at, flag) ==
    /\ ~page[w].waits /\ call[c] = NoCall /\ served < MaxCalls
    /\ served' = served + 1
    /\ page' = [page EXCEPT ![w].waits = TRUE]
    /\ call' = [call EXCEPT ![c] = [NoCall EXCEPT !.at = at, !.by = w, !.f = page[w].token,
                                                 !.flag = flag]]
    /\ broken' = (broken \/ (at \in Slow /\ \E d \in Call \ {c} : call[d].at \in Slow))
    /\ UNCHANGED <<Rows, faults>>

Goto(c, at) == call' = [call EXCEPT ![c].at = at] /\ UNCHANGED page

(* The reply: the window goes on with p, if it still waits for this call. *)
Replies(c, p) ==
    /\ call' = [call EXCEPT ![c] = NoCall]
    /\ page' = IF call[c].by \in Window
               THEN [page EXCEPT ![call[c].by] = [p EXCEPT !.waits = FALSE]] ELSE page

Page(c) == IF call[c].by \in Window THEN page[call[c].by] ELSE Fresh
Fails(c) == Replies(c, Page(c))

(* The answer does not come, or the window is reloaded: it keeps its step,
   which the session storage has once there is a token. *)
Lose(w) ==
    /\ page[w].waits /\ faults < MaxFaults
    /\ faults' = faults + 1
    /\ page' = [page EXCEPT ![w].waits = FALSE]
    /\ call' = [c \in Call |-> IF call[c].by = w THEN [call[c] EXCEPT !.by = NoWindow] ELSE call[c]]
    /\ UNCHANGED <<Rows, broken, served>>

Crash ==
    /\ faults < MaxFaults /\ \E c \in Call : call[c] # NoCall
    /\ faults' = faults + 1
    /\ page' = [w \in Window |-> [page[w] EXCEPT !.waits = FALSE]]
    /\ call' = [c \in Call |-> NoCall]
    /\ broken' = TRUE
    /\ UNCHANGED <<Rows, served>>

-----------------------------------------------------------------------------
(* The first two pages. *)
Continue(w, c) ==
    /\ page[w].at = "phone"
    /\ Asks(w, c, IF SkipOtp THEN "register" ELSE "otp", FALSE)

Resend(w, c) == page[w].at = "otp" /\ Asks(w, c, "otp", FALSE)

ChangeNumber(w) ==
    /\ page[w].at = "otp" /\ ~page[w].waits
    /\ page' = [page EXCEPT ![w].at = "phone"]
    /\ UNCHANGED <<call, Rows, broken, served, faults>>

(* verify, then register; the code typed is the right one or not. *)
EnterCode(w, c, right) == page[w].at = "otp" /\ Asks(w, c, "verify", right)

(* sendOtp: at most one a minute; the code is stored before it is sent. *)
SendOtp(c, delivered) ==
    /\ call[c].at = "otp"
    /\ IF otp.hot THEN Fails(c) /\ UNCHANGED otp
       ELSE /\ otp' = [sent |-> TRUE, tries |-> 0, hot |-> TRUE]
            /\ IF delivered THEN Replies(c, [Page(c) EXCEPT !.at = "otp"]) ELSE Fails(c)
    /\ UNCHANGED <<verified, link, factories, departments, published, SetupRows, broken, served, faults>>

VerifyOtp(c) ==
    /\ call[c].at = "verify"
    /\ \/ ~otp.sent /\ Fails(c) /\ UNCHANGED otp
       \/ /\ otp.sent /\ otp.tries >= MaxVerifyAttempts
          /\ otp' = NoOtp /\ Fails(c)
       \/ /\ otp.sent /\ otp.tries < MaxVerifyAttempts /\ ~call[c].flag
          /\ otp' = [otp EXCEPT !.tries = @ + 1] /\ Fails(c)
       \/ /\ otp.sent /\ otp.tries < MaxVerifyAttempts /\ call[c].flag
          /\ otp' = NoOtp /\ Goto(c, "verified")
    /\ UNCHANGED <<verified, link, factories, departments, published, SetupRows, broken, served, faults>>

(* The verification is kept; a window that heard of it registers at once. *)
Verified(c) ==
    /\ call[c].at = "verified"
    /\ verified' = TRUE
    /\ IF call[c].by = NoWindow THEN Fails(c) ELSE Goto(c, "register")
    /\ UNCHANGED <<otp, link, factories, departments, published, SetupRows, broken, served, faults>>

(* Ten and thirty minutes, and the minute between two codes, pass. *)
Lapse ==
    /\ \/ otp.sent /\ otp' = NoOtp /\ UNCHANGED verified
       \/ otp.hot /\ otp' = [otp EXCEPT !.hot = FALSE] /\ UNCHANGED verified
       \/ verified /\ verified' = FALSE /\ UNCHANGED otp
    /\ UNCHANGED <<page, call, link, factories, departments, published, SetupRows, broken, served, faults>>

-----------------------------------------------------------------------------
(* register: who has a company gets it again, anybody else a new one.  The
   company is created before its owner is linked to it: of two registrations at
   once the second fails there and leaves an empty company. *)
Register_Shortcut(c) ==
    /\ call[c].at = "register"
    /\ \/ ~SkipOtp /\ ~verified /\ Fails(c)
       \/ /\ SkipOtp \/ verified
          /\ IF link.f # NoFactory
             THEN call' = [call EXCEPT ![c].at = "publish", ![c].f = link.f] /\ UNCHANGED page
             ELSE Goto(c, "factory")
    /\ UNCHANGED <<Rows, broken, served, faults>>

Register(c) ==
    /\ call[c].at = "register"
    /\ \/ ~SkipOtp /\ ~verified /\ Fails(c)
       \/ /\ SkipOtp \/ verified
          /\ IF link.f # NoFactory
             THEN call' = [call EXCEPT ![c].at = "department", ![c].f = link.f] /\ UNCHANGED page
             ELSE Goto(c, "factory")
    /\ UNCHANGED <<Rows, broken, served, faults>>

CreateFactory(c) ==
    /\ call[c].at = "factory"
    /\ \E f \in Factory \ factories :
        /\ factories' = factories \union {f}
        /\ call' = [call EXCEPT ![c].at = "assign", ![c].f = f]
    /\ UNCHANGED <<page, otp, verified, link, departments, published, SetupRows, broken, served, faults>>

AssignOwner(c) ==
    /\ call[c].at = "assign"
    /\ IF link.f = NoFactory
       THEN link' = [f |-> call[c].f, role |-> "OWNER"] /\ Goto(c, "department")
       ELSE Fails(c) /\ UNCHANGED link
    /\ UNCHANGED <<otp, verified, factories, departments, published, SetupRows, broken, served, faults>>

(* ensureDefaultDepartment looks, then inserts; the slug is unique, and only an
   owner may head a company's first department. *)
FindDepartment(c) ==
    /\ call[c].at = "department"
    /\ IF call[c].f \in departments THEN Goto(c, "publish") ELSE Goto(c, "insert")
    /\ UNCHANGED <<Rows, broken, served, faults>>

CreateDepartment(c) ==
    /\ call[c].at = "insert"
    /\ IF call[c].f \notin departments /\ link.role = "OWNER"
       THEN departments' = departments \union {call[c].f} /\ Goto(c, "publish")
       ELSE Fails(c) /\ UNCHANGED departments
    /\ UNCHANGED <<otp, verified, link, factories, published, SetupRows, broken, served, faults>>

(* The event, then the reply with the set-up token: the wizard goes on. *)
PublishRegistered(c) ==
    /\ call[c].at = "publish"
    /\ published' = published \union {call[c].f}
    /\ Replies(c, [Page(c) EXCEPT !.at = "inventory", !.token = call[c].f, !.done = FALSE])
    /\ UNCHANGED <<otp, verified, link, factories, departments, SetupRows, broken, served, faults>>

-----------------------------------------------------------------------------
(* The pages of the wizard once there is a token. *)
Turn(w, from, to) ==
    /\ page[w].at = from /\ ~page[w].waits
    /\ page' = [page EXCEPT ![w].at = to, ![w].done = FALSE]
    /\ UNCHANGED <<call, Rows, broken, served, faults>>

(* Use a different number, or Back from the inventory. *)
ResetAll(w) ==
    /\ ~page[w].waits
    /\ page' = [page EXCEPT ![w] = Fresh]
    /\ UNCHANGED <<call, Rows, broken, served, faults>>

Refresh(w, c) == page[w].at \in {"inventory", "team"} /\ Asks(w, c, "status", FALSE)

(* The inventory: a file that was previewed is imported, or the step skipped. *)
ConfirmStock(w, c) == page[w].at = "inventory" /\ ~page[w].done /\ Asks(w, c, "stock", FALSE)
SkipStock(w, c) == page[w].at = "inventory" /\ ~page[w].done /\ Asks(w, c, "skipStock", FALSE)

ConfirmImport(w, c) == page[w].at = "team" /\ ~page[w].done /\ Asks(w, c, "import", FALSE)

(* Finish and Skip mark the team as skipped first where it is not done. *)
Finish(w, c, notify) ==
    /\ page[w].at = "team"
    /\ Asks(w, c, IF page[w].done THEN "complete" ELSE "skip", notify)

(* resolveContext: only the owner of the company goes on. *)
MayServe(c) == link = [f |-> call[c].f, role |-> "OWNER"]

Refused(c) ==
    /\ call[c].at \in {"status", "stock", "skipStock", "import", "skip", "complete"}
    /\ ~MayServe(c)
    /\ Fails(c)
    /\ UNCHANGED <<Rows, broken, served, faults>>

(* importInventory: the rows, of which some may be new items, and then the
   status; a file that cannot be read is refused.  The window that heard of an
   import or of a skip asks for the status, and after a skip goes on. *)
ThenStatus(c, next) ==
    IF call[c].by = NoWindow THEN Fails(c)
    ELSE call' = [call EXCEPT ![c].at = "status", ![c].next = next] /\ UNCHANGED page

ImportStock(c, added) ==
    /\ call[c].at = "stock" /\ MayServe(c)
    /\ \/ Fails(c) /\ UNCHANGED setup
       \/ /\ Goto(c, "stockStatus")
          /\ setup' = [setup EXCEPT ![call[c].f].stocked = @ \/ added]
    /\ UNCHANGED <<Registry, staff, halfway, welcomed, waived, broken, served, faults>>

StockStatus(c) ==
    /\ call[c].at = "stockStatus"
    /\ setup' = [setup EXCEPT ![call[c].f].inventory = "COMPLETED"]
    /\ ThenStatus(c, "stay")
    /\ UNCHANGED <<Registry, staff, halfway, welcomed, waived, broken, served, faults>>

SkipInventory(c) ==
    /\ call[c].at = "skipStock" /\ MayServe(c)
    /\ setup' = [setup EXCEPT ![call[c].f].inventory = "SKIPPED"]
    /\ ThenStatus(c, "team")
    /\ UNCHANGED <<Registry, staff, halfway, welcomed, waived, broken, served, faults>>

(* getStatus reads the company, counts, and takes a completed team without
   employees back. *)
GetStatus(c) ==
    LET s == setup[call[c].f] IN
    /\ call[c].at = "status" /\ MayServe(c)
    /\ call' = [call EXCEPT ![c].at = "count", ![c].flag = (s.team = "COMPLETED"),
                            ![c].shown = s.inventory # "PENDING"]
    /\ broken' = (broken \/ \E d \in Call \ {c} : call[d].at \in Slow)
    /\ UNCHANGED <<page, Rows, served, faults>>

(* Which step its page then says is complete: inventoryDone, teamDone. *)
StepDone(c, at, team) ==
    IF at = "inventory" THEN call[c].shown \/ setup[call[c].f].stocked ELSE team # "PENDING"

CountEmployees(c) ==
    LET f == call[c].f
        back == call[c].flag /\ staff[f] = {}
        team == IF back THEN "PENDING" ELSE setup[f].team IN
    /\ call[c].at = "count"
    /\ setup' = [setup EXCEPT ![f].team = team]
    /\ Replies(c, IF call[c].next = "team" THEN [Page(c) EXCEPT !.at = "team", !.done = FALSE]
                  ELSE [Page(c) EXCEPT !.done = StepDone(c, Page(c).at, team)])
    /\ UNCHANGED <<Registry, staff, halfway, welcomed, waived, broken, served, faults>>

(* importTeam: the welcomes pending are read before the rows are imported and
   written, with those of the new employees, after.  A row may fail when its
   employee has joined already: addWorker refuses a manager, for one.  It is
   reported as failed and has no welcome; a later import skips the employee. *)
ImportTeam(c) ==
    /\ call[c].at = "import" /\ MayServe(c)
    /\ departments' = departments \union {call[c].f}
    /\ call' = [call EXCEPT ![c].at = "rows", ![c].seen = setup[call[c].f].pending]
    /\ UNCHANGED <<page, otp, verified, link, factories, published, SetupRows, broken, served, faults>>

ImportRows(c, added, failed, skipped) ==
    LET f == call[c].f IN
    /\ call[c].at = "rows"
    /\ added \union failed \subseteq Employee \ UNION {staff[g] : g \in Factory}
    /\ added \intersect failed = {}
    /\ staff' = [staff EXCEPT ![f] = @ \union added \union failed]
    /\ halfway' = halfway \union failed
    /\ IF added = {} /\ ~skipped THEN Fails(c)
       ELSE call' = [call EXCEPT ![c].at = "merge", ![c].seen = @ \union added] /\ UNCHANGED page
    /\ UNCHANGED <<Registry, setup, welcomed, waived, broken, served, faults>>

MergeWelcomes(c) ==
    LET f == call[c].f IN
    /\ call[c].at = "merge"
    /\ setup' = [setup EXCEPT ![f].team = "COMPLETED", ![f].pending = call[c].seen]
    /\ Replies(c, [Page(c) EXCEPT !.done = staff[f] # {} \/ call[c].seen # {}])
    /\ UNCHANGED <<Registry, staff, halfway, welcomed, waived, broken, served, faults>>

(* skipTeam; the window that heard of it completes the set-up. *)
SkipTeam(c) ==
    LET f == call[c].f IN
    /\ call[c].at = "skip" /\ MayServe(c)
    /\ setup' = [setup EXCEPT ![f].team = "SKIPPED"]
    /\ IF call[c].by = NoWindow THEN Fails(c) ELSE Goto(c, "complete")
    /\ UNCHANGED <<Registry, staff, halfway, welcomed, waived, broken, served, faults>>

(* complete: reads the pending welcomes, sends them one by one, clears them. *)
Complete(c) ==
    /\ call[c].at = "complete" /\ MayServe(c)
    /\ call' = [call EXCEPT ![c].at = "send", ![c].seen = setup[call[c].f].pending]
    /\ broken' = (broken \/ \E d \in Call \ {c} : call[d].at \in Slow)
    /\ UNCHANGED <<page, Rows, served, faults>>

SendWelcomes(c) ==
    /\ call[c].at = "send"
    /\ IF call[c].flag
       THEN /\ welcomed' = [e \in Employee |-> IF e \in call[c].seen THEN welcomed[e] + 1 ELSE welcomed[e]]
            /\ UNCHANGED waived
       ELSE waived' = waived \union call[c].seen /\ UNCHANGED welcomed
    /\ Goto(c, "close")
    /\ UNCHANGED <<Registry, setup, staff, halfway, broken, served, faults>>

Close(c) ==
    /\ call[c].at = "close"
    /\ setup' = [setup EXCEPT ![call[c].f].completed = TRUE, ![call[c].f].pending = {}]
    /\ Replies(c, [Page(c) EXCEPT !.at = "ready"])
    /\ UNCHANGED <<Registry, staff, halfway, welcomed, waived, broken, served, faults>>

-----------------------------------------------------------------------------
Serve(c) ==
    \/ (\E ok \in BOOLEAN : SendOtp(c, ok)) \/ VerifyOtp(c) \/ Verified(c)
    \/ Register(c) \/ CreateFactory(c) \/ AssignOwner(c)
    \/ FindDepartment(c) \/ CreateDepartment(c) \/ PublishRegistered(c)
    \/ Refused(c) \/ GetStatus(c) \/ CountEmployees(c)
    \/ (\E added \in BOOLEAN : ImportStock(c, added)) \/ StockStatus(c) \/ SkipInventory(c)
    \/ ImportTeam(c)
    \/ (\E added, failed \in SUBSET Employee, skipped \in BOOLEAN : ImportRows(c, added, failed, skipped))
    \/ MergeWelcomes(c) \/ SkipTeam(c) \/ Complete(c) \/ SendWelcomes(c) \/ Close(c)

(* What each page offers. *)
PhonePage(w) == \E c \in Call : Continue(w, c)

OtpPage(w) ==
    \/ ChangeNumber(w)
    \/ \E c \in Call : Resend(w, c) \/ \E right \in BOOLEAN : EnterCode(w, c, right)

InventoryPage(w) ==
    \/ Turn(w, "inventory", "team")
    \/ page[w].at = "inventory" /\ ResetAll(w)
    \/ \E c \in Call : Refresh(w, c) \/ ConfirmStock(w, c) \/ SkipStock(w, c)

TeamPage(w) ==
    \/ Turn(w, "team", "inventory")
    \/ \E c \in Call :
        \/ Refresh(w, c) \/ ConfirmImport(w, c)
        \/ \E notify \in BOOLEAN : Finish(w, c, notify)

ReadyPage(w) == page[w].at = "ready" /\ ResetAll(w)

Use(w) ==
    \/ PhonePage(w) \/ OtpPage(w) \/ InventoryPage(w) \/ TeamPage(w) \/ ReadyPage(w)
    \/ Lose(w)

Next == (\E w \in Window : Use(w)) \/ (\E c \in Call : Serve(c)) \/ Lapse \/ Crash

Spec == Init /\ [][Next]_onboardingVars

-----------------------------------------------------------------------------
TypeOK ==
    /\ page \in [Window -> [at : {"phone", "otp", "inventory", "team", "ready"},
                            token : Factory \union {NoFactory}, waits : BOOLEAN, done : BOOLEAN]]
    /\ \A c \in Call : call[c].by \in Window \union {NoWindow} /\ call[c].f \in Factory \union {NoFactory}
    /\ otp \in [sent : BOOLEAN, tries : 0..MaxVerifyAttempts, hot : BOOLEAN]
    /\ verified \in BOOLEAN
    /\ link \in [f : Factory \union {NoFactory}, role : {"none", "OWNER", "WORKER"}]
    /\ departments \union published \subseteq factories /\ factories \subseteq Factory
    /\ setup \in [Factory -> [inventory : {"PENDING", "COMPLETED", "SKIPPED"}, stocked : BOOLEAN,
                              team : {"PENDING", "COMPLETED", "SKIPPED"}, completed : BOOLEAN, pending : SUBSET Employee]]
    /\ staff \in [Factory -> SUBSET Employee] /\ halfway \subseteq Employee
    /\ welcomed \in [Employee -> Nat] /\ waived \subseteq Employee
    /\ broken \in BOOLEAN /\ served \in 0..MaxCalls /\ faults \in 0..MaxFaults

(* A wizard past the registration has the one company of its owner, with a
   department and its event published, whatever failed or came twice before. *)
RegisteredIsReady ==
    \A w \in Window : page[w].token # NoFactory =>
        /\ page[w].token = link.f
        /\ page[w].token \in departments \intersect published

(* A window that says "Setup complete" says so of a completed set-up. *)
ReadyMeansCompleted == \A w \in Window : page[w].at = "ready" => setup[page[w].token].completed

(* A step that a page says is complete is: nothing takes back the inventory, and
   the team, as far as calls do not overlap, only a status call that finds
   nobody in it; who joined with a row that failed completes no step. *)
StepsDoneAreSo ==
    \A w \in Window : page[w].done =>
        LET f == page[w].token IN
            /\ page[w].at = "inventory" => setup[f].inventory # "PENDING" \/ setup[f].stocked
            /\ page[w].at = "team" /\ ~broken /\ (\A c \in Call : call[c].at \notin Slow) =>
                setup[f].team # "PENDING" \/ staff[f] \subseteq halfway

(* Unless calls overlapped or were cut short, everybody an import reported as
   added is welcomed once, waits for it, or was waived by the owner.  Who joined
   with a row that failed is the one exception: nobody ever welcomes them. *)
WelcomesAccounted ==
    ~broken => \A e \in Employee : \A f \in Factory :
        /\ welcomed[e] <= 1
        /\ e \in halfway => welcomed[e] = 0
        /\ e \in staff[f] \ halfway /\ (\A c \in Call : call[c].at \notin Slow) =>
            welcomed[e] = 1 \/ e \in setup[f].pending \union waived
=============================================================================
