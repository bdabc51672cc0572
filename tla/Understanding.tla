--------------------------- MODULE Understanding ---------------------------
(***************************************************************************)
(* What the ML service makes of a message (CommandParser, the four         *)
(* pre-classifiers and IntentClassifier of bot_engine.py).                 *)
(*                                                                         *)
(* A message is what its regular expressions see of it: the phrases it is  *)
(* put together from, each with the expressions it matches.  Every         *)
(* expression is searched for anywhere in the text, so a message matches   *)
(* what its phrases match.  Rules are tried in order, the first that holds *)
(* gives the intent; where no rule does, the language model answers, and   *)
(* it may answer anything.                                                 *)
(***************************************************************************)
EXTENDS Naturals, Sequences

CONSTANTS
    Phrase,  \* phrases a message may contain
    Signals  \* Signals[p]: the expressions phrase p matches

None == "no intent"

WorkflowCommand ==
    {"/onboard_vendor", "/onboard_worker", "/inventory_create", "/purchase_request_create",
     "/assign_clarify", "/business_discovery", "/continue_discovery"}

ValidIntent ==
    WorkflowCommand
        \union {"/tasks", "/assign", "/depart_assign", "/mgrassign", "/mgrself", "/update", "/issue",
                "/issues", "/resolve", "/members", "/report", "/help", "/present", "/absent",
                "/complete", "/mgrtransfer", "/mgrreject", "/inventory_status", "general_chat"}

(* The expressions that match a message made of these phrases. *)
Matched(said) == UNION {Signals[p] : p \in said}

(* The intent of the first rule that holds; a rule is a condition and an intent. *)
FirstOf(rules) ==
    LET hits == {i \in DOMAIN rules : rules[i][1]}
    IN  IF hits = {} THEN None ELSE rules[CHOOSE i \in hits : \A j \in hits : i <= j][2]

-----------------------------------------------------------------------------
(* _should_skip_purchase_for_depart. *)
IsDepartmentOrder(S) ==
    \/ "raw order" \in S
    \/ /\ ~({"procurement", "shortage"} \subseteq S)
       /\ {"department", "action"} \subseteq S
       /\ "explicit request" \notin S

(* workflow_pre_classify. *)
WorkflowIntent(S) ==
    FirstOf(<<
        <<"continue" \in S, "/continue_discovery">>,
        <<"discovery" \in S, "/business_discovery">>,
        <<"vendor" \in S /\ "buying" \notin S, "/onboard_vendor">>,
        <<"worker" \in S, "/onboard_worker">>,
        <<"status" \in S, "/inventory_status">>,
        <<"create" \in S, "/inventory_create">>,
        <<"trouble" \in S \/ IsDepartmentOrder(S), None>>,
        <<"procurement" \in S, "/purchase_request_create">>>>)

(* manager_pre_classify.  A misspelt manager command, and six fixed replies,
   decide by themselves (opening). *)
ManagerIntent(opening, S) ==
    LET self == S \intersect {"self", "self phrase", "bare self"} # {}
    IN  FirstOf(<<
        <<opening # None, opening>>,
        <<"reject" \in S /\ "galat dept" \notin S, "/mgrreject">>,
        <<{"worker name", "task id"} \subseteq S /\ "self" \notin S, "/mgrassign">>,
        <<{"task id", "transfer", "slug"} \subseteq S /\ "worker name" \notin S, "/mgrtransfer">>,
        <<"transfer phrase" \in S, "/mgrtransfer">>,
        <<self /\ S \intersect {"task id", "task", "bare self"} # {}, "/mgrself">>,
        <<"worker name" \in S /\ S \intersect {"task id", "task number", "assign phrase"} # {} /\ "self" \notin S,
          "/mgrassign">>,
        <<"assign phrase" \in S, "/mgrassign">>,
        <<"reject phrase" \in S, "/mgrreject">>>>)

(* _extract_person_assignee. *)
NamesPerson(S) == "person" \in S /\ "no person" \notin S

IsDone(S) == "done" \in S /\ "instruction" \notin S

(* operational_pre_classify. *)
OperationalRules_ProgressLater(S) ==
    <<<<"resolve" \in S, "/resolve">>,
      <<"report" \in S, "/report">>,
      <<"issues" \in S, "/issues">>,
      <<"issue" \in S, "/issue">>,
      <<"vendor note" \in S, None>>,
      <<"absent" \in S, "/absent">>,
      <<"present" \in S, "/present">>,
      <<IsDone(S), "/complete">>,
      <<"progress" \in S, "/update">>,
      <<"tasks" \in S, "/tasks">>,
      <<"members" \in S, "/members">>,
      <<"help" \in S, "/help">>,
      <<"any task id" \notin S /\ NamesPerson(S), "/assign">>,
      <<~NamesPerson(S) /\ {"department", "action"} \subseteq S, "/depart_assign">>>>

OperationalRules(S) ==
    <<<<"resolve" \in S, "/resolve">>,
      <<"report" \in S, "/report">>,
      <<"issues" \in S, "/issues">>,
      <<"issue" \in S, "/issue">>,
      <<"vendor note" \in S, None>>,
      <<"progress" \in S, "/update">>,
      <<"absent" \in S, "/absent">>,
      <<"present" \in S, "/present">>,
      <<IsDone(S), "/complete">>,
      <<"tasks" \in S, "/tasks">>,
      <<"members" \in S, "/members">>,
      <<"help" \in S, "/help">>,
      <<"any task id" \notin S /\ NamesPerson(S), "/assign">>,
      <<~NamesPerson(S) /\ {"department", "action"} \subseteq S, "/depart_assign">>>>

OperationalIntent(opening, S) ==
    LET manager == ManagerIntent(opening, S)
    IN  IF manager # None THEN manager ELSE FirstOf(OperationalRules(S))

(* assign_clarify_pre_classify. *)
ClarifyIntent(opening, S) ==
    IF /\ "draft" \in S
       /\ S \intersect {"mention", "any task id", "present", "absent", "tasks", "issues", "help",
                        "members", "report", "issue", "resolve"} = {}
       /\ ~NamesPerson(S)
       /\ ~IsDone(S)
       /\ WorkflowIntent(S) = None
       /\ ManagerIntent(opening, S) = None
    THEN "/assign_clarify" ELSE None

(* deterministic_pre_classify. *)
DeterministicIntent(S) ==
    FirstOf(<<
        <<IsDone(S) /\ S \intersect {"vendor note", "progress"} = {}, "/complete">>,
        <<{"mention", "number"} \subseteq S, "/mgrassign">>,
        <<"mention" \in S, "/assign">>>>)

(* The rules of IntentClassifier.classify. *)
RuleIntent(opening, S) ==
    LET intents == <<WorkflowIntent(S), OperationalIntent(opening, S),
                     ClarifyIntent(opening, S), DeterministicIntent(S)>>
    IN  FirstOf([i \in 1..4 |-> <<intents[i] # None, intents[i]>>])

(* What classify makes of the model's answer: an assignment with a task id is a
   delegation, one without a person asks who. *)
Corrected(answer, S) ==
    IF answer.intent = "/assign" /\ "id" \in S THEN "/mgrassign"
    ELSE IF answer.intent = "/assign" /\ ~answer.person THEN "/assign_clarify"
    ELSE answer.intent

(* IntentClassifier.classify: the intent, whether it comes with a number (by
   extract_task_id; what a rule found is thrown away), with a person and with a
   department, and whether a rule gave it. *)
Classified(opening, S) ==
    LET intent == RuleIntent(opening, S)
        named == "mention" \in S \/ "worker name" \in S \/ NamesPerson(S)
    IN  IF intent # None
        THEN {[intent |-> intent, id |-> "id" \in S, person |-> named,
               dept |-> {"department", "slug"} \intersect S # {}, rule |-> TRUE]}
        ELSE {[intent |-> Corrected(a, S), id |-> "id" \in S, person |-> a.person, dept |-> a.dept, rule |-> FALSE] :
              a \in [intent : ValidIntent, person : BOOLEAN, dept : BOOLEAN]}

(* CommandParser.parse, of a text that begins like a command but is not one; it
   reads the number behind five of them.  What it does not know goes to the
   rules, which know the rest by their beginning. *)
Parsed(cmd, number) ==
    [intent |-> cmd,
     id |-> number /\ cmd \in {"/resolve", "/complete", "/update", "/mgrtransfer", "/mgrreject"},
     person |-> FALSE, dept |-> FALSE, rule |-> TRUE]

=============================================================================
