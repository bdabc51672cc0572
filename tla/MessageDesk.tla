---------------------------- MODULE MessageDesk ----------------------------
(***************************************************************************)
(* Who answers a WhatsApp message (WhatsAppService.handleIncomingMessage   *)
(* and processCommand): a button, a prompt that waits for a file, the      *)
(* dialogue that is open, a command, or what the ML service makes of plain *)
(* words.                                                                  *)
(*                                                                         *)
(* One person writes, one message after the other.  What the dialogues,    *)
(* the imports and the task service do with a message that reaches them is *)
(* modelled elsewhere (WorkflowSession, ChatImport, TaskByMessage,         *)
(* TaskRouting, TaskCompletion); here it is any of their outcomes.         *)
(***************************************************************************)
EXTENDS Understanding

CONSTANTS
    Text,     \* the plain texts the person may write, each a set of phrases
    MaxSteps  \* bound on messages, lapses and reminders

VARIABLES
    role,         \* the person's role in the factory
    session,      \* their dialogue: none, open, or open and past its time
    teamPrompt,   \* the next file is a team list
    stockPrompt,  \* the next file is a stock list ("file"), or one waits for CONFIRM ("review")
    mark,         \* the person's attendance row of the day
    issue,        \* an issue of the factory
    done,         \* a task of theirs is completed
    last,         \* what was last heard, who understood it, as what, and the answer
    steps

(* A task's number is a number: has_task_id of deterministic_pre_classify has every
   alternative of _HAS_TASK_ID_RE, and more (bot_engine.py:1020, 1718). *)
MessageDeskAssumption ==
    /\ Text \subseteq SUBSET Phrase
    /\ \A p \in Phrase : \A s \in Signals[p] : s \in STRING
    /\ \A p \in Phrase : "any task id" \in Signals[p] => "number" \in Signals[p]
    /\ MaxSteps \in Nat

vars == <<role, session, teamPrompt, stockPrompt, mark, issue, done, last, steps>>
kept == <<mark, issue, done>>

-----------------------------------------------------------------------------
(* Commands that begin a dialogue, the other registered ones, and those that
   are refused to workers. *)
KnownCommand == {"/present", "/absent", "/tasks", "/complete", "/assign", "/assign_delivery",
                 "/depart_assign", "/mgrself", "/mgrassign", "/mgrtransfer", "/mgrreject", "/update",
                 "/issue", "/issues", "/resolve", "/members", "/report", "/inventory_status",
                 "/inventory_import_csv"}

ManagersOnly == {"/assign", "/assign_delivery", "/mgrself", "/mgrassign", "/mgrtransfer", "/mgrreject",
                 "/resolve", "/members", "/report", "/inventory_status", "/inventory_import_csv"}

(* A button, by what it does.  Those of the home menu are for owners and
   managers. *)
HomeButton == {"home", "help", "add employee", "assign task", "add stock", "stock status", "team list",
               "bulk csv"}
Button == HomeButton \union {"google form", "dashboard", "onboard on whatsapp"}

(* A command as processCommand gets it: with a number, a person, a department
   and some more words, or without them.  Typed commands come without an id;
   the operations of a head, an update and a delivery find theirs in the text.
   No text names a department to /depart_assign. *)
TypedCall(cmd, number, person, text) ==
    [cmd |-> cmd, id |-> number /\ cmd \notin {"/complete", "/resolve"}, person |-> person,
     dept |-> text /\ cmd = "/mgrtransfer", text |-> text]

(* tryClassifiedDepartmentAssign takes every assignment without a person. *)
ForDepartment(call) == call.cmd = "/depart_assign" \/ (call.cmd = "/assign" /\ ~call.person)

Forbidden(call) ==
    \/ ForDepartment(call) /\ role # "OWNER"
    \/ call.cmd \in ManagersOnly /\ role = "WORKER"
    \/ call.cmd = "/update" /\ role # "WORKER"

(* What processCommand asks for when a command comes without it. *)
Lacking(call) ==
    \/ call.cmd \in {"/complete", "/resolve", "/update", "/mgrself", "/mgrassign", "/mgrtransfer", "/mgrreject"}
       /\ ~call.id
    \/ call.cmd \in {"/mgrassign", "/assign_delivery"} /\ ~call.person
    \/ ForDepartment(call) /\ ~call.dept
    \/ call.cmd = "/mgrtransfer" /\ ~call.dept
    \/ call.cmd \in {"/mgrreject", "/issue", "/assign", "/assign_delivery"} /\ ~call.text

-----------------------------------------------------------------------------
NoSession == IF session = "open" THEN "open" ELSE "none"

Heard(S, by, cmd, got) == last' = [heard |-> S, by |-> by, cmd |-> cmd, got |-> got]

Tell(S, by, cmd, got) == Heard(S, by, cmd, got) /\ UNCHANGED <<kept, teamPrompt, stockPrompt>>

(* A row of markAttendance, createIssue, resolveIssue and completeTask. *)
Effect(cmd) ==
    \/ cmd \in {"/present", "/absent"} /\ mark' = cmd /\ UNCHANGED <<issue, done>>
    \/ cmd = "/issue" /\ issue' = "open" /\ UNCHANGED <<mark, done>>
    \/ cmd = "/resolve" /\ issue = "open" /\ issue' = "resolved" /\ UNCHANGED <<mark, done>>
    \/ cmd = "/complete" /\ ~done /\ done' = TRUE /\ UNCHANGED <<mark, issue>>

(* processCommand.  Numbers may be of things that are not there, and the task
   service may refuse. *)
ProcessCommand(S, by, call) ==
    IF Forbidden(call) THEN Tell(S, by, call.cmd, "refused")
    ELSE IF Lacking(call) THEN Tell(S, by, call.cmd, "invalid format")
    ELSE \/ call.cmd = "/inventory_import_csv"
            /\ teamPrompt' = FALSE /\ stockPrompt' = "file"
            /\ Heard(S, by, call.cmd, "file awaited") /\ UNCHANGED kept
         \/ Effect(call.cmd) /\ Heard(S, by, call.cmd, "done") /\ UNCHANGED <<teamPrompt, stockPrompt>>
         \/ call.cmd \in {"/resolve", "/complete"} /\ Tell(S, by, call.cmd, "refused")
         \/ call.cmd \in {"/update", "/mgrself", "/mgrassign", "/mgrtransfer", "/mgrreject", "/assign",
                          "/depart_assign", "/assign_delivery"}
            /\ Tell(S, by, call.cmd, "to the tasks")
         \/ call.cmd \in {"/tasks", "/members", "/issues", "/report", "/help", "/inventory_status"}
            /\ Tell(S, by, call.cmd, "shown")
         \/ call.cmd \in WorkflowCommand /\ Tell(S, by, call.cmd, "not understood")

(* startWorkflowFromCommand, startAssignClarifyWorkflow: a clarification has
   nothing to ask when nobody can be given the task. *)
StartWorkflow(S, by, cmd) ==
    \/ role = "WORKER" /\ session' = NoSession /\ Tell(S, by, cmd, "refused")
    \/ role # "WORKER" /\ session' = "open" /\ Tell(S, by, cmd, "dialogue")
    \/ role # "WORKER" /\ cmd = "/assign_clarify" /\ session' = NoSession /\ Tell(S, by, cmd, "nobody there")

(* routeMlFallback, when the ML service answered. *)
ActOn(S, by, call) ==
    IF call.cmd = "general_chat" THEN session' = NoSession /\ Tell(S, by, call.cmd, "chat")
    ELSE IF call.cmd \in WorkflowCommand THEN StartWorkflow(S, by, call.cmd)
    ELSE session' = NoSession /\ ProcessCommand(S, by, call)

AsCall(c, text) == [cmd |-> c.intent, id |-> c.id, person |-> c.person, dept |-> c.dept, text |-> text]

-----------------------------------------------------------------------------
(* The order in which a message is claimed: buttons, home, help and /cancel
   whatever is open; then the prompts; then the dialogue. *)
Prompted == stockPrompt # "none" \/ teamPrompt
AtDialogue == ~Prompted /\ session = "open"
Free == ~Prompted /\ session = "none"

Unheard == {}

(* handleHomeAction and handleTeamSetupInteractive; the two that begin a dialogue
   cancel the one that is open. *)
PressButton(b) ==
    IF b \in HomeButton /\ role = "WORKER"
    THEN UNCHANGED session /\ Tell(Unheard, "button", b, "refused")
    ELSE \/ b \in {"add stock", "onboard on whatsapp"} /\ StartWorkflow(Unheard, "button", b)
         \/ b = "bulk csv"
            /\ stockPrompt' = "none" /\ teamPrompt' = TRUE
            /\ Heard(Unheard, "button", b, "file awaited") /\ UNCHANGED <<session, kept>>
         \/ b \in {"stock status", "team list"}
            /\ UNCHANGED session
            /\ ProcessCommand(Unheard, "button",
                   TypedCall(IF b = "team list" THEN "/members" ELSE "/inventory_status", FALSE, FALSE, FALSE))
         \/ b \in {"home", "help", "add employee", "assign task", "google form", "dashboard"}
            /\ UNCHANGED session /\ Tell(Unheard, "button", b, "shown")

(* A greeting or a word for the menu; looking for the dialogue to remind of ends
   one that is past its time.  A request for help leaves it. *)
Greet == session' = NoSession /\ Tell(Unheard, "typed", "home", "shown")
AskHelp == UNCHANGED session /\ Tell(Unheard, "typed", "/help", "shown")

Cancel ==
    /\ session' = "none" /\ teamPrompt' = FALSE /\ stockPrompt' = "none"
    /\ Heard(Unheard, "typed", "/cancel", "done") /\ UNCHANGED kept

(* Anything else while a file or its CONFIRM is awaited. *)
AnswerPrompt ==
    /\ Prompted
    /\ stockPrompt' \in (IF stockPrompt = "review" THEN {"review", "none"} ELSE {stockPrompt})
    /\ Heard(Unheard, "prompt", "none", "file awaited")
    /\ UNCHANGED <<session, teamPrompt, kept>>

FindExpired ==
    /\ ~Prompted /\ session = "lapsed"
    /\ session' = "none" /\ Tell(Unheard, "session", "none", "expired")

Answer ==
    /\ AtDialogue
    /\ session' \in {"open", "none"} /\ Tell(Unheard, "session", "none", "dialogue")

TypeCommand(cmd) ==
    /\ AtDialogue \/ Free
    /\ UNCHANGED session
    /\ \E number, person, text \in BOOLEAN :
           ProcessCommand(IF number THEN {"number"} ELSE {}, "typed", TypedCall(cmd, number, person, text))

(* Outside a dialogue these begin one; inside, the registered ones are not
   understood and the others are an answer. *)
TypeWorkflow(cmd) ==
    \/ Free /\ StartWorkflow(Unheard, "typed", cmd)
    \/ /\ AtDialogue /\ cmd \notin {"/assign_clarify", "/business_discovery", "/continue_discovery"}
       /\ UNCHANGED session /\ Tell(Unheard, "typed", cmd, "not understood")

(* The button of a low-stock alert, or the number of one of several alerts. *)
BuyLowStock ==
    /\ Free
    /\ \/ StartWorkflow(Unheard, "alert", "/purchase_request_create")
       \/ UNCHANGED session /\ Tell(Unheard, "alert", "none", "shown")

(* What a text may be taken for (constant). *)
Meanings == [said \in Text |-> Classified(None, Matched(said))]

(* Plain words: first what the task extractor finds in them, for those who may
   give tasks; then the intent.  Either service may fail. *)
Say(said) ==
    /\ Free
    /\ \/ role # "WORKER" /\ session' \in {"open", "none"} /\ Tell(Unheard, "extractor", "none", "dialogue")
       \/ UNCHANGED session /\ Tell(Unheard, "nobody", "none", "error")
       \/ \E c \in Meanings[said], text \in BOOLEAN :
              IF c.rule THEN ActOn(Matched(said), "rules", AsCall(c, text))
              ELSE ActOn(Unheard, "model", AsCall(c, text))

(* A text that begins like one of these and goes on ("/completed 12"). *)
Misspell(cmd) ==
    /\ Free
    /\ \E number, text \in BOOLEAN : ActOn(Unheard, "parser", AsCall(Parsed(cmd, number), text))

-----------------------------------------------------------------------------
(* Sessions and prompts run out; a stock list was read and waits for CONFIRM. *)
Lapse ==
    /\ \/ session = "open" /\ session' = "lapsed" /\ UNCHANGED <<teamPrompt, stockPrompt>>
       \/ teamPrompt /\ teamPrompt' = FALSE /\ UNCHANGED <<session, stockPrompt>>
       \/ stockPrompt # "none" /\ stockPrompt' = "none" /\ UNCHANGED <<session, teamPrompt>>
    /\ UNCHANGED <<kept, last>>

ReadUpload ==
    /\ stockPrompt = "file" /\ stockPrompt' = "review"
    /\ UNCHANGED <<session, teamPrompt, kept, last>>

(* AttendanceCronService reminds whoever has no row. *)
SendReminder ==
    /\ role = "WORKER" /\ mark = "none"
    /\ Tell(Unheard, "cron", "reminder", "shown") /\ UNCHANGED session

NextDay == mark' = "none" /\ UNCHANGED <<session, teamPrompt, stockPrompt, issue, done, last>>

Init ==
    /\ role \in {"OWNER", "MANAGER", "WORKER"}
    /\ session = "none" /\ teamPrompt = FALSE /\ stockPrompt = "none"
    /\ mark = "none" /\ issue = "none" /\ done = FALSE
    /\ last = [heard |-> Unheard, by |-> "nobody", cmd |-> "none", got |-> "nothing"]
    /\ steps = 0

Message ==
    \/ \E b \in Button : PressButton(b)
    \/ Greet \/ AskHelp \/ Cancel
    \/ AnswerPrompt \/ FindExpired \/ Answer
    \/ \E cmd \in KnownCommand : TypeCommand(cmd)
    \/ \E cmd \in WorkflowCommand : TypeWorkflow(cmd)
    \/ BuyLowStock
    \/ \E said \in Text : Say(said)
    \/ \E cmd \in {"/complete", "/resolve", "/update", "/present", "/absent", "/issue", "/onboard_worker"} :
           Misspell(cmd)

Next ==
    /\ steps < MaxSteps /\ steps' = steps + 1 /\ UNCHANGED role
    /\ Message \/ Lapse \/ ReadUpload \/ SendReminder \/ NextDay

Spec == Init /\ [][Next]_vars

-----------------------------------------------------------------------------
TypeOK ==
    /\ role \in {"OWNER", "MANAGER", "WORKER"}
    /\ session \in {"none", "open", "lapsed"}
    /\ role = "WORKER" => session = "none" /\ ~teamPrompt /\ stockPrompt = "none"
    /\ teamPrompt \in BOOLEAN /\ stockPrompt \in {"none", "file", "review"}
    /\ ~(teamPrompt /\ stockPrompt # "none")
    /\ mark \in {"none", "/present", "/absent"} /\ issue \in {"none", "open", "resolved"}
    /\ done \in BOOLEAN

(* Plain words that a rule understands are acted on as the first of what they
   say: a report of progress, an order to somebody or a vendor's note never
   completes a task; who asks to resolve an issue opens none; who reports leave
   is not marked present; and a text with a task's number never makes a new task
   for a person (the order of the pre-classifiers of bot_engine.py, acted on by
   processCommand). *)
UnderstoodInOrder ==
    [][last'.by = "rules" =>
        /\ last'.heard \intersect {"progress", "instruction", "vendor note"} # {} => done' = done
        /\ "resolve" \in last'.heard => issue' # "open" \/ issue = "open"
        /\ "absent" \in last'.heard => mark' # "/present" \/ mark = "/present"
        /\ "any task id" \in last'.heard => last'.cmd # "/assign"]_vars

(* The typed commands take the number the list of commands says they take
   (COMMAND_HINTS, "/complete [taskId]" and "/resolve [issueId]"). *)
NumberIsTaken ==
    last.by = "typed" /\ "number" \in last.heard /\ last.cmd \in {"/complete", "/resolve"}
        => last.got # "invalid format"

=============================================================================
